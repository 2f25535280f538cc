------------------------------ MODULE RoomProofs ------------------------------
(***************************************************************************)
(* What is proved of a room.  The ledger: what it promises, for any players, *)
(* tables, keys and zero-sum results and any number of settlements, failures *)
(* and restarts, and that the transfer plan settles every balance.  What the *)
(* players of a table agree on, for any users, rules and rosters.  And how a *)
(* player is shown the tables and acts on them, for any answers that are   *)
(* late, lost or aborted.                                                  *)
(***************************************************************************)
EXTENDS Ledger, RuleProposals, RoomGameControl, DataLemmas

-------------------------------------------------------------------------------
(* The ledger *)

\* Batches are a sequence of records with these fields.
BatchesShaped ==
    /\ \E S : batches \in Seq(S)
    /\ \A b \in 1..Len(batches) :
         batches[b] = [table |-> batches[b].table, games |-> batches[b].games,
                       by |-> batches[b].by, key |-> batches[b].key,
                       status |-> batches[b].status, transfers |-> batches[b].transfers]

\* What is marked or resolved is a transfer of a batch that exists.
MarksKnown == \A x \in marked \cup resolved : x[1] \in 1..Len(batches)

LedgerInv == BatchesShaped /\ MarksKnown /\ GameInOneBatch /\ RequestOnce /\ TwoPartyConfirmed

LEMMA LedgerInitially == Init => LedgerInv
<1> SUFFICES ASSUME Init PROVE LedgerInv
  OBVIOUS
<1>1. batches = << >> /\ marked = {} /\ resolved = {}
  BY DEF Init
<1>2. batches \in Seq({}) /\ Len(batches) = 0
  BY <1>1
<1>3. 1..Len(batches) = {}
  BY <1>2
<1> QED BY <1>1, <1>2, <1>3 DEF LedgerInv, BatchesShaped, MarksKnown, GameInOneBatch, RequestOnce, TwoPartyConfirmed

\* A sequence of anything keeps its elements when something is appended.
LEMMA Appended ==
    ASSUME NEW S, NEW s \in Seq(S), NEW e
    PROVE  /\ Append(s, e) \in Seq(S \cup {e})
           /\ Len(s) \in Nat
           /\ Len(Append(s, e)) = Len(s) + 1
           /\ \A i \in 1..Len(s) : Append(s, e)[i] = s[i]
           /\ Append(s, e)[Len(s) + 1] = e
<1>1. s \in Seq(S \cup {e})
  OBVIOUS
<1> QED BY <1>1

\* A step that adds no batch, mark or action keeps the invariant.
LEMMA SettledKept ==
    ASSUME LedgerInv, UNCHANGED <<batches, marked, resolved, acted>>
    PROVE  LedgerInv'
BY DEF LedgerInv, BatchesShaped, MarksKnown, GameInOneBatch, RequestOnce, TwoPartyConfirmed

\* What creating a batch does to the others.
LEMMA CreateAppends ==
    ASSUME LedgerInv, NEW r, Create(r), batches' # batches
    PROVE  /\ Existing(r.by, r.key) = {} /\ r.games \cap Claimed = {}
           /\ Len(batches) \in Nat /\ Len(batches') = Len(batches) + 1
           /\ \A b \in 1..Len(batches) : batches'[b] = batches[b]
           /\ batches'[Len(batches) + 1] = NewBatch(r)
           /\ \E S : batches' \in Seq(S)
<1> DEFINE new == NewBatch(r)
<1>1. batches' = Append(batches, new)
  BY DEF Create
<1>2. Existing(r.by, r.key) = {} /\ r.games \cap Claimed = {}
  BY DEF Create
<1>3. PICK S : batches \in Seq(S)
  BY DEF LedgerInv, BatchesShaped
<1> HIDE DEF new
<1>4. /\ Append(batches, new) \in Seq(S \cup {new})
      /\ Len(batches) \in Nat
      /\ Len(Append(batches, new)) = Len(batches) + 1
      /\ \A i \in 1..Len(batches) : Append(batches, new)[i] = batches[i]
      /\ Append(batches, new)[Len(batches) + 1] = new
  BY <1>3, Appended
<1>5. /\ Len(batches) \in Nat /\ Len(batches') = Len(batches) + 1
      /\ \A b \in 1..Len(batches) : batches'[b] = batches[b]
      /\ batches'[Len(batches) + 1] = new
      /\ batches' \in Seq(S \cup {new})
  BY <1>1, <1>4
<1> QED BY <1>2, <1>5 DEF new

LEMMA CreateKeeps ==
    ASSUME LedgerInv, NEW r, Create(r)
    PROVE  LedgerInv'
<1>1. CASE batches' = batches
  BY <1>1, SettledKept DEF Create
<1>2. CASE batches' # batches
  <2> DEFINE n == Len(batches)
  <2>1. /\ Existing(r.by, r.key) = {} /\ r.games \cap Claimed = {}
        /\ n \in Nat /\ Len(batches') = n + 1
        /\ \A b \in 1..n : batches'[b] = batches[b]
        /\ batches'[n + 1] = NewBatch(r)
        /\ \E S : batches' \in Seq(S)
    BY <1>2, CreateAppends
  <2>2. UNCHANGED <<marked, resolved, acted>>
    BY DEF Create
  <2>3. 1..Len(batches') = 1..n \cup {n + 1} /\ n + 1 \notin 1..n
    BY <2>1
  <2>4. /\ NewBatch(r).games = r.games /\ NewBatch(r).by = r.by /\ NewBatch(r).key = r.key
        /\ NewBatch(r) = [table |-> NewBatch(r).table, games |-> NewBatch(r).games,
                          by |-> NewBatch(r).by, key |-> NewBatch(r).key,
                          status |-> NewBatch(r).status, transfers |-> NewBatch(r).transfers]
    <3> DEFINE plan == Plan(Total(r.games))
    <3>1. NewBatch(r) = [table |-> r.table, games |-> r.games, by |-> r.by, key |-> r.key,
                         status |-> "OPEN", transfers |-> plan]
      BY DEF NewBatch
    <3> HIDE DEF plan
    <3> QED BY <3>1
  <2> HIDE DEF n
  <2>5. BatchesShaped'
    BY <2>1, <2>3, <2>4 DEF LedgerInv, BatchesShaped, n
  <2>6. MarksKnown'
    BY <2>2, <2>3 DEF LedgerInv, MarksKnown, n
  <2>7. GameInOneBatch'
    <3>1. \A b \in 1..n : batches[b].games \cap r.games = {}
      BY <2>1 DEF Claimed, n
    <3> QED BY <3>1, <2>1, <2>3, <2>4 DEF LedgerInv, GameInOneBatch, n
  <2>8. RequestOnce'
    <3>1. \A b \in 1..n : ~ (batches[b].by = r.by /\ batches[b].key = r.key)
      BY <2>1 DEF Existing, n
    <3> QED BY <3>1, <2>1, <2>3, <2>4 DEF LedgerInv, RequestOnce, n
  <2>9. TwoPartyConfirmed'
    BY <2>1, <2>2 DEF LedgerInv, MarksKnown, TwoPartyConfirmed, n
  <2> QED BY <2>5, <2>6, <2>7, <2>8, <2>9 DEF LedgerInv
<1> QED BY <1>1, <1>2

LEMMA WithStatus ==
    ASSUME NEW t, NEW g, NEW u, NEW k, NEW old, NEW transfers, NEW status
    PROVE  [[table |-> t, games |-> g, by |-> u, key |-> k, status |-> old,
             transfers |-> transfers] EXCEPT !.status = status]
           = [table |-> t, games |-> g, by |-> u, key |-> k, status |-> status,
              transfers |-> transfers]
OBVIOUS

\* A batch whose status changes keeps its other fields, and so do the others.
LEMMA StatusOnly ==
    ASSUME BatchesShaped, NEW b \in 1..Len(batches), NEW status,
           batches' = [batches EXCEPT ![b].status = status]
    PROVE  /\ BatchesShaped' /\ Len(batches') = Len(batches)
           /\ \A c \in 1..Len(batches) :
                /\ batches'[c].table = batches[c].table /\ batches'[c].games = batches[c].games
                /\ batches'[c].by = batches[c].by /\ batches'[c].key = batches[c].key
                /\ batches'[c].transfers = batches[c].transfers
<1> DEFINE new == [batches[b] EXCEPT !.status = status]
<1>1. PICK S : batches \in Seq(S)
  BY DEF BatchesShaped
<1>2. batches' = [batches EXCEPT ![b] = new]
  OBVIOUS
<1>3. /\ new = [table |-> batches[b].table, games |-> batches[b].games, by |-> batches[b].by,
                key |-> batches[b].key, status |-> status, transfers |-> batches[b].transfers]
  <2>1. PICK t, g, u, k, old, transfers :
          batches[b] = [table |-> t, games |-> g, by |-> u, key |-> k, status |-> old,
                        transfers |-> transfers]
    BY DEF BatchesShaped
  <2>2. new = [table |-> t, games |-> g, by |-> u, key |-> k, status |-> status,
               transfers |-> transfers]
    BY <2>1, WithStatus
  <2>3. /\ batches[b].table = t /\ batches[b].games = g /\ batches[b].by = u
        /\ batches[b].key = k /\ batches[b].transfers = transfers
    BY <2>1
  <2> QED BY <2>2, <2>3
<1> HIDE DEF new
<1>4. batches \in Seq(S \cup {new})
  BY <1>1
<1>5. batches' \in Seq(S \cup {new}) /\ Len(batches') = Len(batches)
  BY <1>2, <1>4
<1>6. batches'[b] = new /\ \A c \in 1..Len(batches) : c # b => batches'[c] = batches[c]
  BY <1>2, <1>4
<1> QED BY <1>3, <1>5, <1>6 DEF BatchesShaped

\* Marking and confirming change marks of one transfer, of which they leave evidence.
LEMMA ActKeeps ==
    ASSUME LedgerInv, NEW u \in Players, NEW k \in Keys, NEW b \in 1..Len(batches),
           NEW i \in 1..Len(batches[b].transfers),
           MarkPaid(u, b, i, k) \/ ConfirmPaid(u, b, i, k)
    PROVE  LedgerInv'
<1>1. PICK status : batches' = [batches EXCEPT ![b].status = status]
  BY DEF MarkPaid, ConfirmPaid
<1>2. /\ BatchesShaped' /\ Len(batches') = Len(batches)
      /\ \A c \in 1..Len(batches) :
           /\ batches'[c].table = batches[c].table /\ batches'[c].games = batches[c].games
           /\ batches'[c].by = batches[c].by /\ batches'[c].key = batches[c].key
           /\ batches'[c].transfers = batches[c].transfers
  BY <1>1, StatusOnly DEF LedgerInv
<1>3. GameInOneBatch' /\ RequestOnce'
  <2>1. GameInOneBatch'
    BY <1>2 DEF LedgerInv, GameInOneBatch
  <2>2. RequestOnce'
    BY <1>2 DEF LedgerInv, RequestOnce
  <2> QED BY <2>1, <2>2
<1>4. marked' \cup resolved' \subseteq marked \cup resolved \cup {<<b, i>>} /\ acted \subseteq acted'
  BY DEF MarkPaid, ConfirmPaid
<1>5. MarksKnown'
  BY <1>2, <1>4 DEF LedgerInv, MarksKnown
<1>6. TwoPartyConfirmed'
  <2> SUFFICES ASSUME NEW x \in marked' \cup resolved'
               PROVE  /\ \E a \in acted' : a.transfer = x /\ a.action = Mark
                                           /\ a.actor = batches[x[1]].transfers[x[2]].payer
                      /\ x \in resolved' =>
                           \E a \in acted' : a.transfer = x /\ a.action = Confirm
                                             /\ a.actor = batches[x[1]].transfers[x[2]].payee
    <3>1. ASSUME NEW x \in marked' \cup resolved' PROVE x[1] \in 1..Len(batches)
      BY <1>4, <3>1 DEF LedgerInv, MarksKnown
    <3>2. \A x \in marked' \cup resolved' : batches'[x[1]].transfers = batches[x[1]].transfers
      BY <1>2, <3>1
    <3> QED BY <3>2 DEF TwoPartyConfirmed
  <2>1. CASE MarkPaid(u, b, i, k)
    <3> DEFINE mark == [actor |-> u, action |-> Mark, key |-> k, transfer |-> <<b, i>>]
    <3>1. /\ mark \in acted' /\ mark.transfer = <<b, i>> /\ mark.action = Mark
          /\ mark.actor = batches[b].transfers[i].payer
          /\ marked' = marked \cup {<<b, i>>} /\ resolved' = resolved
          /\ <<b, i>> \notin resolved
      BY <2>1 DEF MarkPaid
    <3> QED BY <3>1, <1>4 DEF LedgerInv, TwoPartyConfirmed
  <2>2. CASE ConfirmPaid(u, b, i, k)
    <3> DEFINE confirm == [actor |-> u, action |-> Confirm, key |-> k, transfer |-> <<b, i>>]
    <3>1. /\ confirm \in acted' /\ confirm.transfer = <<b, i>> /\ confirm.action = Confirm
          /\ confirm.actor = batches[b].transfers[i].payee
          /\ marked' = marked \ {<<b, i>>} /\ resolved' = resolved \cup {<<b, i>>}
          /\ <<b, i>> \in marked
      BY <2>2 DEF ConfirmPaid
    <3> QED BY <3>1, <1>4 DEF LedgerInv, TwoPartyConfirmed
  <2> QED BY <2>1, <2>2
<1> QED BY <1>2, <1>3, <1>5, <1>6 DEF LedgerInv

LEMMA Preserved == LedgerInv /\ [Next]_vars => LedgerInv'
<1> SUFFICES ASSUME LedgerInv, [Next]_vars PROVE LedgerInv'
  OBVIOUS
<1>1. CASE \/ \E t \in Tables : NextRound(t) \/ Over(t)
           \/ \E g \in DOMAIN atHand, ending \in BOOLEAN : Retry(g, ending)
           \/ \E m \in waiting : RetryAgain(m)
           \/ Crash
  <2>1. UNCHANGED <<batches, marked, resolved, acted>>
    BY <1>1 DEF NextRound, Over, Retry, RetryAgain, Crash, settled
  <2> QED BY <2>1, SettledKept
<1>2. ASSUME NEW u \in Players, NEW k \in Keys, NEW t \in Tables, NEW scope \in 0..MaxRounds,
             Ask(u, t, scope, k)
      PROVE  LedgerInv'
  BY <1>2, SettledKept DEF Ask
<1>3. ASSUME NEW u \in Players, NEW k \in Keys, NEW b \in 1..Len(batches),
             NEW i \in 1..Len(batches[b].transfers), MarkPaid(u, b, i, k) \/ ConfirmPaid(u, b, i, k)
      PROVE  LedgerInv'
  BY <1>3, ActKeeps
<1>4. ASSUME NEW r \in requests, Freeze(r) PROVE LedgerInv'
  BY <1>4, SettledKept DEF Freeze
<1>5. ASSUME NEW r \in requests, Create(r) PROVE LedgerInv'
  BY <1>5, CreateKeeps
<1>6. CASE UNCHANGED vars
  BY <1>6, SettledKept DEF vars, settled
<1> QED BY <1>1, <1>2, <1>3, <1>4, <1>5, <1>6 DEF Next

LEMMA Invariant == Spec => []LedgerInv
<1> QED BY LedgerInitially, Preserved, PTL DEF Spec

\* A game is settled at most once, whoever asks for it at the same time
\* (create_batch, src/app/ledger/store.py).
THEOREM SettledOnce == Spec => []GameInOneBatch
<1>1. LedgerInv => GameInOneBatch
  BY DEF LedgerInv
<1> QED BY <1>1, Invariant, PTL

\* A settlement that is asked for again makes no second batch (create_batch).
THEOREM AskedOnce == Spec => []RequestOnce
<1>1. LedgerInv => RequestOnce
  BY DEF LedgerInv
<1> QED BY <1>1, Invariant, PTL

\* A transfer is resolved only after its payer marked it and its payee confirmed it (act).
THEOREM TwoParties == Spec => []TwoPartyConfirmed
<1>1. LedgerInv => TwoPartyConfirmed
  BY DEF LedgerInv
<1> QED BY <1>1, Invariant, PTL

-------------------------------------------------------------------------------
(* What is recorded stays *)

\* Recording, failing or not, changes no result that is there and loses none.
LEMMA TryKeeps ==
    ASSUME NEW g, NEW points, NEW wait, Try(g, points, wait)
    PROVE  /\ DOMAIN games \subseteq DOMAIN games'
           /\ \A x \in DOMAIN games : games'[x] = games[x]
<1>1. games' = games \/ Recorded(g, points)
  BY DEF Try
<1>2. ASSUME Recorded(g, points)
      PROVE  /\ DOMAIN games \subseteq DOMAIN games'
             /\ \A x \in DOMAIN games : games'[x] = games[x]
  BY <1>2 DEF Recorded, With
<1> QED BY <1>1, <1>2

\* Which steps leave the ledger's games, its batches, or the hosted matches alone.
LEMMA Frames ==
    ASSUME [Next]_vars
    PROVE  /\ \/ UNCHANGED games
              \/ \E t \in Tables : Over(t)
              \/ \E g \in DOMAIN atHand, ending \in BOOLEAN : Retry(g, ending)
           /\ \/ UNCHANGED batches
              \/ \E r \in requests : Create(r)
              \/ \E u \in Players, k \in Keys : \E b \in 1..Len(batches) :
                   \E i \in 1..Len(batches[b].transfers) :
                     MarkPaid(u, b, i, k) \/ ConfirmPaid(u, b, i, k)
           /\ \/ UNCHANGED <<rounds, gone, atHand>>
              \/ \E t \in Tables : NextRound(t) \/ Over(t)
              \/ Crash
<1>1. ASSUME NEW t \in Tables, NextRound(t) PROVE UNCHANGED <<games, batches>>
  BY <1>1 DEF NextRound, settled
<1>2. ASSUME NEW t \in Tables, Over(t) PROVE UNCHANGED batches
  BY <1>2 DEF Over, settled
<1>3. ASSUME NEW g, NEW ending, Retry(g, ending) PROVE UNCHANGED <<batches, rounds, gone, atHand>>
  BY <1>3 DEF Retry, settled
<1>4. ASSUME NEW m, RetryAgain(m) PROVE UNCHANGED <<games, batches, rounds, gone, atHand>>
  BY <1>4 DEF RetryAgain, settled
<1>5. ASSUME Crash PROVE UNCHANGED <<games, batches>>
  BY <1>5 DEF Crash
<1>6. ASSUME NEW u, NEW t, NEW scope, NEW k, Ask(u, t, scope, k)
      PROVE  UNCHANGED <<games, batches, rounds, gone, atHand>>
  BY <1>6 DEF Ask, hosted
<1>7. ASSUME NEW r, Freeze(r) PROVE UNCHANGED <<games, batches, rounds, gone, atHand>>
  BY <1>7 DEF Freeze, hosted
<1>8. ASSUME NEW r, Create(r) PROVE UNCHANGED <<games, rounds, gone, atHand>>
  BY <1>8 DEF Create, hosted
<1>9. ASSUME NEW u, NEW b, NEW i, NEW k, MarkPaid(u, b, i, k) \/ ConfirmPaid(u, b, i, k)
      PROVE  UNCHANGED <<games, rounds, gone, atHand>>
  BY <1>9 DEF MarkPaid, ConfirmPaid, hosted
<1>10. CASE UNCHANGED vars
  BY <1>10 DEF vars, hosted, settled
<1>11. CASE Next
  BY <1>11, <1>1, <1>2, <1>3, <1>4, <1>5, <1>6, <1>7, <1>8, <1>9 DEF Next
<1> QED BY <1>10, <1>11

LEMMA GamesStay ==
    ASSUME [Next]_vars
    PROVE  \A g \in DOMAIN games : g \in DOMAIN games' /\ games'[g] = games[g]
<1>1. CASE UNCHANGED games
  BY <1>1
<1>2. ASSUME NEW t \in Tables, Over(t)
      PROVE  \A g \in DOMAIN games : g \in DOMAIN games' /\ games'[g] = games[g]
  BY <1>2, TryKeeps DEF Over
<1>3. ASSUME NEW g \in DOMAIN atHand, NEW ending \in BOOLEAN, Retry(g, ending)
      PROVE  \A x \in DOMAIN games : x \in DOMAIN games' /\ games'[x] = games[x]
  BY <1>3, TryKeeps DEF Retry
<1> QED BY <1>1, <1>2, <1>3, Frames

LEMMA BatchesStay ==
    ASSUME LedgerInv, [Next]_vars
    PROVE  \A b \in 1..Len(batches) :
             /\ b <= Len(batches')
             /\ batches'[b].games = batches[b].games
             /\ batches'[b].transfers = batches[b].transfers
<1> DEFINE Stay == \A b \in 1..Len(batches) :
                     /\ b <= Len(batches')
                     /\ batches'[b].games = batches[b].games
                     /\ batches'[b].transfers = batches[b].transfers
<1>1. Len(batches) \in Nat
  BY DEF LedgerInv, BatchesShaped
<1>2. ASSUME UNCHANGED batches PROVE Stay
  BY <1>1, <1>2
<1>3. ASSUME NEW r \in requests, Create(r) PROVE Stay
  <2>1. CASE batches' = batches
    BY <1>2, <2>1
  <2>2. CASE batches' # batches
    <3>1. /\ Len(batches') = Len(batches) + 1
          /\ \A b \in 1..Len(batches) : batches'[b] = batches[b]
      BY <1>3, <2>2, CreateAppends
    <3> QED BY <1>1, <3>1
  <2> QED BY <2>1, <2>2
<1>4. ASSUME NEW u \in Players, NEW k \in Keys, NEW b \in 1..Len(batches),
             NEW i \in 1..Len(batches[b].transfers), MarkPaid(u, b, i, k) \/ ConfirmPaid(u, b, i, k)
      PROVE  Stay
  <2>1. PICK status : batches' = [batches EXCEPT ![b].status = status]
    BY <1>4 DEF MarkPaid, ConfirmPaid
  <2>2. /\ Len(batches') = Len(batches)
        /\ \A c \in 1..Len(batches) : /\ batches'[c].games = batches[c].games
                                      /\ batches'[c].transfers = batches[c].transfers
    BY <2>1, StatusOnly DEF LedgerInv
  <2> QED BY <1>1, <2>2
<1> HIDE DEF Stay
<1>5. \/ UNCHANGED batches
      \/ \E r \in requests : Create(r)
      \/ \E u \in Players, k \in Keys : \E b \in 1..Len(batches) :
           \E i \in 1..Len(batches[b].transfers) : MarkPaid(u, b, i, k) \/ ConfirmPaid(u, b, i, k)
  BY Frames
<1>6. Stay
  BY <1>2, <1>3, <1>4, <1>5
<1> QED BY <1>6 DEF Stay

\* No result, and nothing that a batch froze, ever changes (record_game, create_batch and
\* act, src/app/ledger/store.py).
THEOREM HistoryFixed == Spec => HistoryStays
<1>1. LedgerInv /\ [Next]_vars =>
        [/\ \A g \in DOMAIN games : g \in DOMAIN games' /\ games'[g] = games[g]
         /\ \A b \in 1..Len(batches) :
              /\ b <= Len(batches')
              /\ batches'[b].games = batches[b].games
              /\ batches'[b].transfers = batches[b].transfers]_vars
  BY GamesStay, BatchesStay
<1> QED BY <1>1, Invariant, PTL DEF Spec, HistoryStays

-------------------------------------------------------------------------------
(* No result is lost where a match holds all of its results *)

\* Which games have been begun, and that those over are recorded or at hand.
ResultsHeld ==
    /\ rounds \in [Tables -> [begun : Nat, over : BOOLEAN]]
    /\ NoResultLost

LEMMA HeldInitially == Init => ResultsHeld
BY DEF Init, ResultsHeld, NoResultLost

\* A step that loses neither rounds nor results keeps them.
LEMMA HeldKept ==
    ASSUME ResultsHeld, [Next]_vars, rounds' = rounds, gone \subseteq gone',
           DOMAIN atHand \subseteq DOMAIN atHand'
    PROVE  ResultsHeld'
<1>1. DOMAIN games \subseteq DOMAIN games'
  BY GamesStay
<1> QED BY <1>1 DEF ResultsHeld, NoResultLost

LEMMA HeldPreserved ==
    ASSUME Kind # "flush", ResultsHeld, [Next]_vars
    PROVE  ResultsHeld'
<1>1. DOMAIN games \subseteq DOMAIN games'
  BY GamesStay
<1>2. ASSUME NEW t \in Tables, NextRound(t) PROVE ResultsHeld'
  <2>1. /\ rounds[t].over /\ rounds' = [rounds EXCEPT ![t] = [begun |-> @.begun + 1, over |-> FALSE]]
        /\ gone' = gone /\ atHand' = atHand
    BY <1>2 DEF NextRound
  <2>2. rounds' \in [Tables -> [begun : Nat, over : BOOLEAN]]
    BY <2>1 DEF ResultsHeld
  <2>3. NoResultLost'
    BY <1>1, <2>1 DEF ResultsHeld, NoResultLost
  <2> QED BY <2>2, <2>3 DEF ResultsHeld
<1>3. ASSUME NEW t \in Tables, Over(t) PROVE ResultsHeld'
  <2>1. /\ rounds' = [rounds EXCEPT ![t].over = TRUE] /\ gone' = gone
        /\ DOMAIN atHand' = DOMAIN atHand \cup {<<t, rounds[t].begun>>}
    BY <1>3 DEF Over, With
  <2>2. rounds' \in [Tables -> [begun : Nat, over : BOOLEAN]]
    BY <2>1 DEF ResultsHeld
  <2>3. NoResultLost'
    BY <1>1, <2>1 DEF ResultsHeld, NoResultLost
  <2> QED BY <2>2, <2>3 DEF ResultsHeld
<1>4. CASE Crash
  <2>1. rounds' = rounds /\ gone' = gone \cup {t \in Tables : rounds[t].begun > 0}
    BY <1>4 DEF Crash
  <2> QED BY <2>1 DEF ResultsHeld, NoResultLost
<1>5. CASE UNCHANGED <<rounds, gone, atHand>>
  BY <1>5, HeldKept
<1> QED BY <1>2, <1>3, <1>4, <1>5, Frames

\* The result of every finished match of Marriage or Call Break is in the ledger or can still
\* be recorded, whatever calls fail, unless the server has lost its table in a restart
\* (_try_record_completed_ledger, src/app/test_games/service.py).
THEOREM ResultsSafe ==
    ASSUME Kind # "flush"
    PROVE  Spec => []NoResultLost
<1>1. ResultsHeld /\ [Next]_vars => ResultsHeld'
  BY HeldPreserved
<1>2. ResultsHeld => NoResultLost
  BY DEF ResultsHeld
<1> QED BY <1>1, <1>2, HeldInitially, PTL DEF Spec

-------------------------------------------------------------------------------
(* The plan *)

\* Finitely many numbered players have a last one.
LEMMA Bounded ==
    ASSUME NEW S, IsFiniteSet(S), S \subseteq Nat \ {0}
    PROVE  \E n \in Nat : S \subseteq 1..n
<1> DEFINE G == {T \in SUBSET S : \E n \in Nat : T \subseteq 1..n}
<1>1. ASSUME NEW T \in SUBSET S, \A x \in T : T \ {x} \in G PROVE T \in G
  <2>1. CASE T = {}
    <3>1. T \subseteq 1..0
      BY <2>1
    <3> QED BY <3>1
  <2>2. ASSUME NEW x \in T PROVE T \in G
    <3>1. PICK n \in Nat : T \ {x} \subseteq 1..n
      BY <1>1
    <3>2. x \in Nat /\ x >= 1
      OBVIOUS
    <3> DEFINE m == IF x > n THEN x ELSE n
    <3>3. m \in Nat /\ n <= m /\ x <= m
      BY <3>1, <3>2
    <3> HIDE DEF m
    <3>4. 1..n \subseteq 1..m /\ x \in 1..m
      BY <3>2, <3>3
    <3>5. T \subseteq 1..m
      BY <3>1, <3>4
    <3> QED BY <3>3, <3>5
  <2> QED BY <2>1, <2>2
<1> HIDE DEF G
<1>2. SUBSET S \subseteq G
  BY <1>1, SubsetInduction
<1> QED BY <1>2 DEF G

\* A transfer is between two players of P.
Transfer(P) == [payer : P, payee : P, amount : Int]

LEMMA BringsWhole ==
    ASSUME NEW P, NEW t \in Transfer(P), NEW p
    PROVE  Brings(t, p) \in Int
BY DEF Brings, Transfer

\* One more transfer brings its own amount.
LEMMA ReceivesOneMore ==
    ASSUME NEW P, NEW s \in Seq(Transfer(P)), NEW t \in Transfer(P), NEW p
    PROVE  /\ Receives(s, p) \in Int
           /\ Receives(Append(s, t), p) = Receives(s, p) + Brings(t, p)
<1> DEFINE T == Transfer(P)
           n == Len(s)
           a == Append(s, t)
           f == [i \in DOMAIN s |-> Brings(s[i], p)]
           h == [i \in DOMAIN a |-> Brings(a[i], p)]
<1>0. s \in Seq(T) /\ t \in T
  OBVIOUS
<1> HIDE DEF T
<1>1. /\ n \in Nat /\ DOMAIN s = 1..n /\ DOMAIN a = 1..(n + 1)
      /\ \A i \in 1..n : a[i] = s[i] /\ s[i] \in T
      /\ a[n + 1] = t
  <2>1. n \in Nat /\ DOMAIN s = 1..n /\ \A i \in 1..n : s[i] \in T
    BY <1>0
  <2>2. a \in Seq(T \cup {t}) /\ Len(a) = n + 1 /\ a[n + 1] = t /\ \A i \in 1..n : a[i] = s[i]
    BY <1>0, Appended
  <2>3. DOMAIN a = 1..(n + 1)
    BY <2>2
  <2> QED BY <2>1, <2>2, <2>3
<1>2. IsFiniteSet(1..n) /\ IsFiniteSet(1..(n + 1))
  <2>1. n \in Int /\ n + 1 \in Int
    BY <1>1
  <2> HIDE DEF n
  <2> QED BY <2>1, FS_Interval
<1>3. (1..(n + 1)) \ {n + 1} = 1..n /\ n + 1 \in 1..(n + 1)
  BY <1>1
<1>4. \A i \in 1..n : f[i] = Brings(s[i], p) /\ h[i] = f[i] /\ f[i] \in Int
  BY <1>1, <1>3, BringsWhole DEF T
<1>5. h[n + 1] = Brings(t, p) /\ Brings(t, p) \in Int
  BY <1>1, <1>3, BringsWhole
<1>6. Receives(s, p) = SumFunctionOnSet(f, 1..n) /\ Receives(a, p) = SumFunctionOnSet(h, 1..(n + 1))
  BY <1>1 DEF Receives, SumFunction
<1> HIDE DEF n, a, f, h
<1>7. Whole(f, 1..n) /\ Whole(h, 1..(n + 1))
  BY <1>3, <1>4, <1>5 DEF Whole
<1>8. /\ SumFunctionOnSet(h, 1..(n + 1)) = h[n + 1] + SumFunctionOnSet(h, 1..n)
      /\ SumFunctionOnSet(f, 1..n) \in Int
  <2> DEFINE N == 1..(n + 1)
             x == n + 1
  <2>1. IsFiniteSet(N) /\ Whole(h, N) /\ x \in N /\ N \ {x} = 1..n
    BY <1>2, <1>3, <1>7
  <2> HIDE DEF N, x
  <2>2. SumFunctionOnSet(h, N) = h[x] + SumFunctionOnSet(h, N \ {x})
    BY <2>1, SumFacts
  <2>3. SumFunctionOnSet(f, 1..n) \in Int
    BY <1>2, <1>7, SumFacts
  <2> QED BY <2>1, <2>2, <2>3 DEF N, x
<1>9. SumFunctionOnSet(h, 1..n) = SumFunctionOnSet(f, 1..n)
  BY <1>2, <1>4, <1>7, SumSame
<1> QED BY <1>5, <1>6, <1>8, <1>9 DEF a

LEMMA NothingReceived ==
    ASSUME NEW p
    PROVE  Receives(<< >>, p) = 0
<1> DEFINE f == [i \in DOMAIN << >> |-> Brings(<< >>[i], p)]
<1>1. DOMAIN f = {} /\ Whole(f, {}) /\ IsFiniteSet({})
  BY FS_EmptySet DEF Whole
<1>2. Receives(<< >>, p) = SumFunctionOnSet(f, {})
  BY <1>1 DEF Receives, SumFunction
<1> HIDE DEF f
<1> QED BY <1>1, <1>2, SumFacts

\* The rows of the players ids who have v left, those before the k-th with nothing.
RowsOf(ids, v) ==
    [i \in 1..Cardinality(ids) |-> [player |-> Position(ids, i), left |-> v[Position(ids, i)]]]
RowsFit(ids, v, k) ==
    /\ k \in 1..(Cardinality(ids) + 1)
    /\ \A i \in 1..Cardinality(ids) :
         v[Position(ids, i)] \in Nat /\ (v[Position(ids, i)] = 0 <=> i < k)

LEMMA PlacesDiffer ==
    ASSUME NEW n \in Nat, NEW ids \in SUBSET (1..n)
    PROVE  /\ IsFiniteSet(ids) /\ Cardinality(ids) \in Nat
           /\ \A i \in 1..Cardinality(ids) : Position(ids, i) \in ids
           /\ \A i, k \in 1..Cardinality(ids) : Position(ids, i) = Position(ids, k) => i = k
           /\ \A p \in ids : \E i \in 1..Cardinality(ids) : p = Position(ids, i)
<1>1. Cardinality(ids) \in Nat /\ IsFiniteSet(ids)
  BY Positions
<1>2. \A i \in 1..Cardinality(ids) : Position(ids, i) \in ids /\ UpTo(ids, Position(ids, i)) = i
  BY PositionFacts
<1>3. \A p \in ids : UpTo(ids, p) \in 1..Cardinality(ids) /\ Position(ids, UpTo(ids, p)) = p
  BY PositionFacts
<1> QED BY <1>1, <1>2, <1>3, Zenon

LEMMA RowChanged ==
    ASSUME NEW x, NEW u, NEW v
    PROVE  [[player |-> x, left |-> u] EXCEPT !.left = v] = [player |-> x, left |-> v]
OBVIOUS

\* A payment to or from the k-th.
LEMMA RowPaid ==
    ASSUME NEW n \in Nat, NEW ids \in SUBSET (1..n), NEW v, NEW w, NEW k \in 1..Cardinality(ids),
           RowsFit(ids, v, k), NEW a \in Nat, a > 0, a <= v[Position(ids, k)],
           w[Position(ids, k)] = v[Position(ids, k)] - a,
           \A p \in ids : p # Position(ids, k) => w[p] = v[p]
    PROVE  /\ [RowsOf(ids, v) EXCEPT ![k].left = @ - a] = RowsOf(ids, w)
           /\ RowsFit(ids, w, IF v[Position(ids, k)] = a THEN k + 1 ELSE k)
<1> DEFINE c == Cardinality(ids)
           new == [RowsOf(ids, v) EXCEPT ![k].left = @ - a]
           place(i) == Position(ids, i)
<1>1. c \in Nat /\ k \in 1..c
  BY Positions
<1>2. \A i \in 1..c : place(i) \in ids /\ (i # k => place(i) # place(k))
  BY <1>1, PlacesDiffer
<1>3. \A i \in 1..c : v[place(i)] \in Nat /\ (v[place(i)] = 0 <=> i < k)
  BY DEF RowsFit
<1>4. w[place(k)] = v[place(k)] - a /\ \A i \in 1..c : i # k => w[place(i)] = v[place(i)]
  BY <1>2
<1> HIDE DEF place, c
<1>5. new = RowsOf(ids, w)
  <2>1. RowsOf(ids, v) = [i \in 1..c |-> [player |-> place(i), left |-> v[place(i)]]]
    BY DEF RowsOf, c, place
  <2>2. RowsOf(ids, w) = [i \in 1..c |-> [player |-> place(i), left |-> w[place(i)]]]
    BY DEF RowsOf, c, place
  <2>3. new = [i \in 1..c |-> IF i = k THEN [player |-> place(k), left |-> v[place(k)] - a]
                              ELSE [player |-> place(i), left |-> v[place(i)]]]
    <3> DEFINE rows == RowsOf(ids, v)
               left == rows[k].left - a
    <3>1. /\ rows[k] = [player |-> place(k), left |-> v[place(k)]]
          /\ rows = [i \in 1..c |-> rows[i]]
      BY <1>1, <2>1
    <3>2. left = v[place(k)] - a
      BY <3>1
    <3> DEFINE row == [rows[k] EXCEPT !.left = left]
    <3> HIDE DEF left
    <3>3. row = [player |-> place(k), left |-> left]
      BY <3>1, RowChanged
    <3>4. new = [rows EXCEPT ![k] = row]
      BY DEF left
    <3> HIDE DEF rows, new, row
    <3>5. \A i \in 1..c : rows[i] = [player |-> place(i), left |-> v[place(i)]]
      BY <2>1 DEF rows
    <3>6. new = [i \in 1..c |-> IF i = k THEN row ELSE rows[i]]
      BY <1>1, <3>1, <3>4
    <3> QED BY <3>2, <3>3, <3>5, <3>6
  <2> QED BY <1>4, <2>2, <2>3
<1>6. RowsFit(ids, w, IF v[place(k)] = a THEN k + 1 ELSE k)
  <2> DEFINE l == IF v[place(k)] = a THEN k + 1 ELSE k
  <2>1. l \in 1..(c + 1)
    BY <1>1
  <2>2. ASSUME NEW i \in 1..c PROVE w[place(i)] \in Nat /\ (w[place(i)] = 0 <=> i < l)
    <3>1. v[place(i)] \in Nat /\ (v[place(i)] = 0 <=> i < k) /\ v[place(k)] \in Nat
      BY <1>1, <1>3
    <3>2. CASE i = k
      <4>1. w[place(i)] = v[place(k)] - a /\ a <= v[place(k)]
        BY <1>4, <3>2 DEF place
      <4> QED BY <1>1, <3>1, <3>2, <4>1
    <3>3. CASE i # k
      <4>1. w[place(i)] = v[place(i)]
        BY <1>4, <3>3
      <4> QED BY <1>1, <3>1, <3>3, <4>1
    <3> QED BY <3>2, <3>3
  <2> QED BY <2>1, <2>2 DEF RowsFit, c, place
<1> QED BY <1>5, <1>6 DEF place

Owing(b) == {p \in DOMAIN b : b[p] < 0}
Owed(b) == {p \in DOMAIN b : b[p] > 0}

\* What the transfers so far leave of the balances, and of what is owed.
Rest(b, s) == [p \in DOMAIN b |-> b[p] - Receives(s.transfers, p)]
Debt(b, s) == [p \in DOMAIN b |-> -Rest(b, s)[p]]

\* The loop between two passes: its rows say what is left, it is done with those before payer
\* and payee, nothing is owed outside the rows, and debts and credits are equal.
PlanFits(b, s) ==
    /\ s.debtors = RowsOf(Owing(b), Debt(b, s)) /\ RowsFit(Owing(b), Debt(b, s), s.payer)
    /\ s.creditors = RowsOf(Owed(b), Rest(b, s)) /\ RowsFit(Owed(b), Rest(b, s), s.payee)
    /\ \A p \in DOMAIN b : Rest(b, s)[p] \in Int /\ (b[p] = 0 => Rest(b, s)[p] = 0)
    /\ SumFunctionOnSet(Rest(b, s), DOMAIN b) = 0

\* Every pass is done with a payer or a payee, the last one with both.
Counted(b, s) ==
    /\ s.transfers \in Seq(Transfer(DOMAIN b))
    /\ Len(s.transfers) <= s.payer + s.payee - 2
    /\ Len(s.transfers) > 0 /\ s.payer > Cardinality(Owing(b)) /\ s.payee > Cardinality(Owed(b)) =>
         Len(s.transfers) < s.payer + s.payee - 2

\* Balances of finitely many numbered players.
Balances(b) ==
    /\ IsFiniteSet(DOMAIN b) /\ DOMAIN b \subseteq Nat \ {0}
    /\ \A p \in DOMAIN b : b[p] \in Int

LEMMA IdsFit ==
    ASSUME NEW b, Balances(b)
    PROVE  \E n \in Nat : /\ Owing(b) \in SUBSET (1..n) /\ Owed(b) \in SUBSET (1..n)
<1>1. PICK n \in Nat : DOMAIN b \subseteq 1..n
  BY Bounded DEF Balances
<1> QED BY <1>1 DEF Owing, Owed

\* What a pass does to what is left: amount goes from x to y.
LEMMA RestPaid ==
    ASSUME NEW b, Balances(b), NEW s, NEW x \in DOMAIN b, NEW y \in DOMAIN b, x # y, NEW a \in Int,
           NEW z, s.transfers \in Seq(Transfer(DOMAIN b)),
           z.transfers = Append(s.transfers, [payer |-> x, payee |-> y, amount |-> a])
    PROVE  /\ z.transfers \in Seq(Transfer(DOMAIN b))
           /\ Len(s.transfers) \in Nat /\ Len(z.transfers) = Len(s.transfers) + 1
           /\ Rest(b, s)[x] \in Int /\ Rest(b, s)[y] \in Int
           /\ Rest(b, z)[x] = Rest(b, s)[x] + a /\ Rest(b, z)[y] = Rest(b, s)[y] - a
           /\ \A p \in DOMAIN b : p \notin {x, y} => Rest(b, z)[p] = Rest(b, s)[p]
           /\ SumFunctionOnSet(Rest(b, z), DOMAIN b) = SumFunctionOnSet(Rest(b, s), DOMAIN b)
<1> DEFINE P == DOMAIN b
           t == [payer |-> x, payee |-> y, amount |-> a]
           u == s.transfers
           r == Rest(b, s)
           w == Rest(b, z)
<1>1. t \in Transfer(P)
  BY DEF Transfer
<1>2. \A p \in P : Receives(u, p) \in Int /\ Receives(Append(u, t), p) = Receives(u, p) + Brings(t, p)
  BY <1>1, ReceivesOneMore
<1>3. Brings(t, y) = a /\ Brings(t, x) = -a /\ \A p \in P : p \notin {x, y} => Brings(t, p) = 0
  BY DEF Brings
<1>4. z.transfers \in Seq(Transfer(P)) /\ Len(u) \in Nat /\ Len(z.transfers) = Len(u) + 1
  BY <1>1
<1>5. \A p \in P : r[p] = b[p] - Receives(u, p) /\ w[p] = b[p] - Receives(Append(u, t), p) /\ b[p] \in Int
  BY DEF Rest, Balances
<1> HIDE DEF t, r, w, u, P
<1>6. \A p \in P : r[p] \in Int /\ w[p] = r[p] - Brings(t, p)
  <2> SUFFICES ASSUME NEW p \in P PROVE r[p] \in Int /\ w[p] = r[p] - Brings(t, p)
    OBVIOUS
  <2>1. Brings(t, p) \in Int
    BY <1>1, BringsWhole
  <2> QED BY <1>2, <1>5, <2>1
<1>7. x \in P /\ y \in P /\ IsFiniteSet(P) /\ Whole(r, P)
  BY <1>6 DEF P, Balances, Whole
<1>8. w[x] = r[x] + a /\ w[y] = r[y] - a /\ \A p \in P : p \notin {x, y} => w[p] = r[p]
  BY <1>3, <1>6, <1>7
<1>9. SumFunctionOnSet(w, P) = SumFunctionOnSet(r, P)
  <2> DEFINE m == [p \in P |-> IF p = x THEN r[x] + a ELSE r[p]]
  <2>1. m[x] = r[x] + a /\ \A p \in P \ {x} : m[p] = r[p]
    BY <1>7
  <2>2. Whole(m, P) /\ w[y] = m[y] + (-a) /\ (-a) \in Int /\ \A p \in P \ {y} : w[p] = m[p]
    BY <1>7, <1>8 DEF Whole
  <2> HIDE DEF m
  <2>3. SumFunctionOnSet(m, P) = SumFunctionOnSet(r, P) + a
    BY <1>7, <2>1, SumChanged
  <2>4. SumFunctionOnSet(w, P) = SumFunctionOnSet(m, P) + (-a)
    BY <1>7, <2>2, SumChanged
  <2>5. SumFunctionOnSet(r, P) \in Int
    BY <1>7, SumFacts
  <2> QED BY <2>3, <2>4, <2>5
<1> QED BY <1>4, <1>6, <1>7, <1>8, <1>9 DEF P, r, w, u, t

\* The rows whose turn it is.
LEMMA TurnRows ==
    ASSUME NEW b, Balances(b), NEW s, PlanFits(b, s), Unfinished(s)
    PROVE  LET x == Position(Owing(b), s.payer)
               y == Position(Owed(b), s.payee)
               r == Rest(b, s)
           IN /\ s.payer \in 1..Cardinality(Owing(b)) /\ s.payee \in 1..Cardinality(Owed(b))
              /\ x \in Owing(b) /\ y \in Owed(b) /\ x # y /\ x \in DOMAIN b /\ y \in DOMAIN b
              /\ s.debtors[s.payer] = [player |-> x, left |-> Debt(b, s)[x]]
              /\ s.creditors[s.payee] = [player |-> y, left |-> r[y]]
              /\ Debt(b, s)[x] = -r[x] /\ r[x] \in Int
              /\ Debt(b, s)[x] \in Nat \ {0} /\ r[y] \in Nat \ {0}
<1> DEFINE D == Owing(b)
           C == Owed(b)
           x == Position(D, s.payer)
           y == Position(C, s.payee)
           r == Rest(b, s)
           v == Debt(b, s)
<1>1. PICK n \in Nat : D \in SUBSET (1..n) /\ C \in SUBSET (1..n)
  BY IdsFit
<1>2. Cardinality(D) \in Nat /\ Cardinality(C) \in Nat
  BY <1>1, PlacesDiffer
<1>3. s.payer \in 1..Cardinality(D) /\ s.payee \in 1..Cardinality(C)
  <2>1. Len(RowsOf(D, v)) = Cardinality(D) /\ Len(RowsOf(C, r)) = Cardinality(C)
    BY <1>2 DEF RowsOf
  <2>2. s.payer <= Cardinality(D) /\ s.payee <= Cardinality(C)
    BY <2>1 DEF Unfinished, PlanFits
  <2>3. s.payer \in 1..(Cardinality(D) + 1) /\ s.payee \in 1..(Cardinality(C) + 1)
    BY DEF PlanFits, RowsFit
  <2> QED BY <1>2, <2>2, <2>3
<1>4. x \in D /\ y \in C
  BY <1>1, <1>3, PlacesDiffer
<1>5. x # y /\ x \in DOMAIN b /\ y \in DOMAIN b
  BY <1>4 DEF Owing, Owed, Balances
<1>6. s.debtors[s.payer] = [player |-> x, left |-> v[x]] /\ s.creditors[s.payee] = [player |-> y, left |-> r[y]]
  BY <1>3 DEF PlanFits, RowsOf
<1>7. v[x] = -r[x] /\ r[x] \in Int
  BY <1>5 DEF Debt, PlanFits
<1>8. v[x] \in Nat /\ r[y] \in Nat /\ v[x] # 0 /\ r[y] # 0
  <2>1. /\ v[x] \in Nat /\ (v[x] = 0 <=> s.payer < s.payer)
        /\ r[y] \in Nat /\ (r[y] = 0 <=> s.payee < s.payee)
    BY <1>3 DEF PlanFits, RowsFit
  <2> QED BY <1>3, <2>1
<1> QED BY <1>3, <1>4, <1>5, <1>6, <1>7, <1>8

LEMMA CountFits ==
    ASSUME NEW m \in Int, NEW i \in Int, NEW j \in Int, NEW k \in Int, NEW l \in Int,
           m <= i + j - 2, i + j < k + l
    PROVE  /\ m + 1 <= k + l - 2
           /\ k = i + 1 /\ l = j + 1 => m + 1 < k + l - 2
OBVIOUS

LEMMA PayFits ==
    ASSUME NEW b, Balances(b), NEW s, PlanFits(b, s), Counted(b, s), Unfinished(s)
    PROVE  /\ PlanFits(b, Pay(s)) /\ Counted(b, Pay(s))
           /\ s.payer + s.payee < Pay(s).payer + Pay(s).payee
<1> DEFINE D == Owing(b)
           C == Owed(b)
           x == Position(D, s.payer)
           y == Position(C, s.payee)
           r == Rest(b, s)
           v == Debt(b, s)
           a == IF v[x] < r[y] THEN v[x] ELSE r[y]
           z == Pay(s)
           w == Rest(b, z)
           u == Debt(b, z)
<1>1. PICK n \in Nat : D \in SUBSET (1..n) /\ C \in SUBSET (1..n)
  BY IdsFit
<1>2. /\ s.payer \in 1..Cardinality(D) /\ s.payee \in 1..Cardinality(C)
      /\ x \in D /\ y \in C /\ x # y /\ x \in DOMAIN b /\ y \in DOMAIN b
      /\ s.debtors[s.payer] = [player |-> x, left |-> v[x]]
      /\ s.creditors[s.payee] = [player |-> y, left |-> r[y]]
      /\ v[x] = -r[x] /\ r[x] \in Int /\ v[x] \in Nat \ {0} /\ r[y] \in Nat \ {0}
  BY TurnRows
<1>3. Cardinality(D) \in Nat /\ Cardinality(C) \in Nat
  BY <1>1, PlacesDiffer
<1>4. a \in Nat /\ a > 0 /\ a <= v[x] /\ a <= r[y] /\ (a = v[x] \/ a = r[y])
  BY <1>2
<1>5. /\ z.debtors = [s.debtors EXCEPT ![s.payer].left = @ - a]
      /\ z.creditors = [s.creditors EXCEPT ![s.payee].left = @ - a]
      /\ z.transfers = Append(s.transfers, [payer |-> x, payee |-> y, amount |-> a])
      /\ z.payer = (IF v[x] = a THEN s.payer + 1 ELSE s.payer)
      /\ z.payee = (IF r[y] = a THEN s.payee + 1 ELSE s.payee)
  BY <1>2 DEF Pay
<1> HIDE DEF a, z
<1>6. s.transfers \in Seq(Transfer(DOMAIN b))
  BY DEF Counted
<1>7. /\ z.transfers \in Seq(Transfer(DOMAIN b))
      /\ Len(s.transfers) \in Nat /\ Len(z.transfers) = Len(s.transfers) + 1
      /\ r[x] \in Int /\ r[y] \in Int
      /\ w[x] = r[x] + a /\ w[y] = r[y] - a
      /\ \A p \in DOMAIN b : p \notin {x, y} => w[p] = r[p]
      /\ SumFunctionOnSet(w, DOMAIN b) = SumFunctionOnSet(r, DOMAIN b)
  BY <1>2, <1>4, <1>5, <1>6, RestPaid
<1>8. \A p \in DOMAIN b : v[p] = -r[p] /\ u[p] = -w[p]
  BY DEF Debt
<1> HIDE DEF r, v, w, u
<1>9. z.debtors = RowsOf(D, u) /\ RowsFit(D, u, z.payer)
  <2>1. u[x] = v[x] - a
    BY <1>2, <1>4, <1>7, <1>8
  <2>2. \A p \in D : p # x => u[p] = v[p]
    <3>1. \A p \in D : p \in DOMAIN b /\ p # y
      BY <1>2 DEF Owing, Owed, Balances
    <3> QED BY <3>1, <1>7, <1>8
  <2>3. s.debtors = RowsOf(D, v) /\ RowsFit(D, v, s.payer)
    BY DEF PlanFits, v
  <2> HIDE DEF D
  <2>4. /\ [RowsOf(D, v) EXCEPT ![s.payer].left = @ - a] = RowsOf(D, u)
        /\ RowsFit(D, u, IF v[x] = a THEN s.payer + 1 ELSE s.payer)
    BY <1>1, <1>2, <1>4, <2>1, <2>2, <2>3, RowPaid
  <2> QED BY <1>5, <2>3, <2>4
<1>10. z.creditors = RowsOf(C, w) /\ RowsFit(C, w, z.payee)
  <2>1. w[y] = r[y] - a
    BY <1>7
  <2>2. \A p \in C : p # y => w[p] = r[p]
    <3>1. \A p \in C : p \in DOMAIN b /\ p # x
      BY <1>2 DEF Owing, Owed, Balances
    <3> QED BY <3>1, <1>7
  <2>3. s.creditors = RowsOf(C, r) /\ RowsFit(C, r, s.payee)
    BY DEF PlanFits, r
  <2> HIDE DEF C
  <2>4. /\ [RowsOf(C, r) EXCEPT ![s.payee].left = @ - a] = RowsOf(C, w)
        /\ RowsFit(C, w, IF r[y] = a THEN s.payee + 1 ELSE s.payee)
    BY <1>1, <1>2, <1>4, <2>1, <2>2, <2>3, RowPaid
  <2> QED BY <1>5, <2>3, <2>4
<1>11. \A p \in DOMAIN b : w[p] \in Int /\ (b[p] = 0 => w[p] = 0)
  <2>1. \A p \in DOMAIN b : r[p] \in Int /\ (b[p] = 0 => r[p] = 0)
    BY DEF PlanFits, r
  <2>2. b[x] # 0 /\ b[y] # 0
    BY <1>2 DEF Owing, Owed, Balances
  <2> QED BY <1>4, <1>7, <2>1, <2>2
<1>12. SumFunctionOnSet(w, DOMAIN b) = 0
  BY <1>7 DEF PlanFits, r
<1>13. PlanFits(b, z)
  BY <1>9, <1>10, <1>11, <1>12 DEF PlanFits, w, u
<1>14. s.payer + s.payee < z.payer + z.payee
  BY <1>2, <1>3, <1>4, <1>5
<1>15. Counted(b, z)
  <2>1. Len(s.transfers) <= s.payer + s.payee - 2
    BY DEF Counted
  <2>5. s.payer \in Int /\ s.payee \in Int /\ z.payer \in Int /\ z.payee \in Int
    BY <1>2, <1>3, <1>5
  <2>6. Len(s.transfers) \in Int /\ Len(z.transfers) = Len(s.transfers) + 1
    BY <1>7
  <2>3. z.payer > Cardinality(D) /\ z.payee > Cardinality(C) =>
          z.payer = s.payer + 1 /\ z.payee = s.payee + 1
    BY <1>2, <1>3, <1>5
  <2>2. /\ Len(s.transfers) + 1 <= z.payer + z.payee - 2
        /\ z.payer = s.payer + 1 /\ z.payee = s.payee + 1 => Len(s.transfers) + 1 < z.payer + z.payee - 2
    BY <1>14, <2>1, <2>5, <2>6, CountFits
  <2> QED BY <1>7, <2>2, <2>3, <2>6 DEF Counted
<1> QED BY <1>13, <1>14, <1>15 DEF z

LEMMA BeginFits ==
    ASSUME NEW b, Balances(b), SumFunctionOnSet(b, DOMAIN b) = 0
    PROVE  PlanFits(b, Begin(b)) /\ Counted(b, Begin(b))
<1> DEFINE D == Owing(b)
           C == Owed(b)
           s == Begin(b)
           r == Rest(b, s)
           v == Debt(b, s)
<1>1. PICK n \in Nat : D \in SUBSET (1..n) /\ C \in SUBSET (1..n)
  BY IdsFit
<1>2. /\ s.debtors = DebtorsOf(b) /\ s.creditors = CreditorsOf(b) /\ s.transfers = << >>
      /\ s.payer = 1 /\ s.payee = 1
  BY DEF Begin
<1> HIDE DEF s
<1>3. \A p \in DOMAIN b : b[p] \in Int /\ r[p] = b[p] /\ v[p] = -b[p]
  <2>1. \A p \in DOMAIN b : Receives(s.transfers, p) = 0
    BY <1>2, NothingReceived
  <2> QED BY <2>1 DEF Rest, Debt, Balances
<1> HIDE DEF r, v
<1>4. /\ Cardinality(D) \in Nat /\ Cardinality(C) \in Nat
      /\ \A i \in 1..Cardinality(D) : Position(D, i) \in D
      /\ \A i \in 1..Cardinality(C) : Position(C, i) \in C
  BY <1>1, PlacesDiffer
<1>5. /\ \A i \in 1..Cardinality(D) : /\ v[Position(D, i)] = -b[Position(D, i)]
                                      /\ v[Position(D, i)] \in Nat /\ v[Position(D, i)] # 0
      /\ \A i \in 1..Cardinality(C) : /\ r[Position(C, i)] = b[Position(C, i)]
                                      /\ r[Position(C, i)] \in Nat /\ r[Position(C, i)] # 0
  <2>1. \A p \in D : v[p] = -b[p] /\ v[p] \in Nat /\ v[p] # 0
    BY <1>3 DEF Owing
  <2>2. \A p \in C : r[p] = b[p] /\ r[p] \in Nat /\ r[p] # 0
    BY <1>3 DEF Owed
  <2> QED BY <1>4, <2>1, <2>2
<1>6. s.debtors = RowsOf(D, v)
  <2>1. DebtorsOf(b) = [i \in 1..Cardinality(D) |-> [player |-> Position(D, i), left |-> -b[Position(D, i)]]]
    BY DEF DebtorsOf, Owing
  <2> QED BY <1>2, <1>5, <2>1 DEF RowsOf
<1>7. s.creditors = RowsOf(C, r)
  <2>1. CreditorsOf(b) = [i \in 1..Cardinality(C) |-> [player |-> Position(C, i), left |-> b[Position(C, i)]]]
    BY DEF CreditorsOf, Owed
  <2> QED BY <1>2, <1>5, <2>1 DEF RowsOf
<1>8. RowsFit(D, v, s.payer) /\ RowsFit(C, r, s.payee)
  <2>1. 1 \in 1..(Cardinality(D) + 1) /\ 1 \in 1..(Cardinality(C) + 1)
    BY <1>4
  <2> QED BY <1>2, <1>5, <2>1 DEF RowsFit
<1>9. SumFunctionOnSet(r, DOMAIN b) = 0
  <2>1. IsFiniteSet(DOMAIN b) /\ Whole(b, DOMAIN b)
    BY <1>3 DEF Balances, Whole
  <2>2. \A p \in DOMAIN b : r[p] = b[p]
    BY <1>3
  <2>3. SumFunctionOnSet(r, DOMAIN b) = SumFunctionOnSet(b, DOMAIN b)
    BY <2>1, <2>2, SumSame
  <2> QED BY <2>3
<1>10. PlanFits(b, s)
  BY <1>3, <1>6, <1>7, <1>8, <1>9 DEF PlanFits, r, v
<1>11. Counted(b, s)
  <2>1. s.transfers \in Seq(Transfer(DOMAIN b)) /\ Len(s.transfers) = 0
    BY <1>2
  <2> QED BY <1>2, <2>1 DEF Counted
<1> QED BY <1>10, <1>11 DEF s

\* What is never negative and adds up to nothing is nothing.
LEMMA AllZero ==
    ASSUME NEW S, IsFiniteSet(S), NEW f, \A x \in S : f[x] \in Nat, SumFunctionOnSet(f, S) = 0
    PROVE  \A x \in S : f[x] = 0
<1> SUFFICES ASSUME NEW x \in S PROVE f[x] = 0
  OBVIOUS
<1>1. Whole(f, S) /\ IsFiniteSet(S \ {x}) /\ \A y \in S \ {x} : f[y] \in Nat
  BY FS_Subset DEF Whole
<1>2. SumFunctionOnSet(f, S) = f[x] + SumFunctionOnSet(f, S \ {x})
  BY <1>1, SumFacts
<1>3. SumFunctionOnSet(f, S \ {x}) \in Nat
  BY <1>1, SumNatural
<1> QED BY <1>2, <1>3

\* Rows that are done with are empty, and if all are empty they are done with.
LEMMA RowsEmpty ==
    ASSUME NEW n \in Nat, NEW ids \in SUBSET (1..n), NEW v, NEW k, RowsFit(ids, v, k)
    PROVE  /\ k \in 1..(Cardinality(ids) + 1)
           /\ k > Cardinality(ids) <=> \A p \in ids : v[p] = 0
           /\ \A p \in ids : v[p] \in Nat
<1>1. /\ Cardinality(ids) \in Nat
      /\ \A i \in 1..Cardinality(ids) : Position(ids, i) \in ids
      /\ \A p \in ids : \E i \in 1..Cardinality(ids) : p = Position(ids, i)
  BY PlacesDiffer
<1>2. /\ k \in 1..(Cardinality(ids) + 1)
      /\ \A i \in 1..Cardinality(ids) :
           v[Position(ids, i)] \in Nat /\ (v[Position(ids, i)] = 0 <=> i < k)
  BY DEF RowsFit
<1>3. ASSUME k > Cardinality(ids) PROVE \A p \in ids : v[p] = 0
  BY <1>1, <1>2, <1>3
<1>4. ASSUME \A p \in ids : v[p] = 0 PROVE k > Cardinality(ids)
  <2>1. CASE Cardinality(ids) = 0
    BY <1>2, <2>1
  <2>2. CASE Cardinality(ids) # 0
    <3>1. Cardinality(ids) \in 1..Cardinality(ids)
      BY <1>1, <2>2
    <3>2. v[Position(ids, Cardinality(ids))] = 0
      BY <1>1, <1>4, <3>1
    <3> QED BY <1>2, <3>1, <3>2
  <2> QED BY <2>1, <2>2
<1>5. \A p \in ids : v[p] \in Nat
  BY <1>1, <1>2
<1> QED BY <1>2, <1>3, <1>4, <1>5

LEMMA Partition ==
    ASSUME NEW b, Balances(b)
    PROVE  /\ IsFiniteSet(Owing(b) \cup Owed(b)) /\ Owing(b) \cup Owed(b) = {p \in DOMAIN b : b[p] # 0}
           /\ Cardinality(Owing(b)) \in Nat /\ Cardinality(Owed(b)) \in Nat
           /\ Cardinality(Owing(b) \cup Owed(b)) = Cardinality(Owing(b)) + Cardinality(Owed(b))
           /\ Cardinality(Owing(b) \cup Owed(b)) <= Cardinality(DOMAIN b)
<1>1. Owing(b) \cup Owed(b) = {p \in DOMAIN b : b[p] # 0} /\ Owing(b) \cap Owed(b) = {}
  BY DEF Owing, Owed, Balances
<1>2. IsFiniteSet(Owing(b)) /\ IsFiniteSet(Owed(b)) /\ IsFiniteSet(DOMAIN b)
  BY FS_Subset DEF Owing, Owed, Balances
<1>3. /\ IsFiniteSet(Owing(b) \cup Owed(b))
      /\ Cardinality(Owing(b) \cup Owed(b)) =
           Cardinality(Owing(b)) + Cardinality(Owed(b)) - Cardinality(Owing(b) \cap Owed(b))
  BY <1>2, FS_Union
<1>4. Cardinality(Owing(b)) \in Nat /\ Cardinality(Owed(b)) \in Nat /\ Cardinality(Owing(b) \cap Owed(b)) = 0
  BY <1>1, <1>2, FS_CardinalityType, FS_EmptySet
<1>5. Cardinality(Owing(b) \cup Owed(b)) <= Cardinality(DOMAIN b)
  BY <1>1, <1>2, FS_Subset
<1> QED BY <1>1, <1>3, <1>4, <1>5

\* When either the debtors or the creditors are done with, both are: debts and credits are equal.
LEMMA FinishedSettles ==
    ASSUME NEW b, Balances(b), NEW s, PlanFits(b, s), Counted(b, s), ~Unfinished(s)
    PROVE  /\ \A p \in DOMAIN b : Receives(s.transfers, p) = b[p]
           /\ (\E p \in DOMAIN b : b[p] # 0) => Len(s.transfers) < Cardinality({p \in DOMAIN b : b[p] # 0})
<1> DEFINE D == Owing(b)
           C == Owed(b)
           P == DOMAIN b
           r == Rest(b, s)
           v == Debt(b, s)
           k == s.payer
           l == s.payee
<1>1. PICK n \in Nat : D \in SUBSET (1..n) /\ C \in SUBSET (1..n)
  BY IdsFit
<1>2. /\ Cardinality(D) \in Nat /\ Cardinality(C) \in Nat
      /\ D \cup C = {p \in P : b[p] # 0} /\ IsFiniteSet(D \cup C)
      /\ Cardinality(D \cup C) = Cardinality(D) + Cardinality(C)
  BY Partition
<1>3. /\ RowsFit(D, v, k) /\ RowsFit(C, r, l)
      /\ \A p \in P : r[p] \in Int /\ (b[p] = 0 => r[p] = 0)
      /\ SumFunctionOnSet(r, P) = 0
  BY DEF PlanFits
<1>4. k \in 1..(Cardinality(D) + 1) /\ l \in 1..(Cardinality(C) + 1)
  BY <1>3 DEF RowsFit
<1>5. k > Cardinality(D) \/ l > Cardinality(C)
  <2>1. Len(s.debtors) = Cardinality(D) /\ Len(s.creditors) = Cardinality(C)
    BY <1>2 DEF PlanFits, RowsOf
  <2> QED BY <1>2, <1>4, <2>1 DEF Unfinished
<1>6. /\ \A p \in P : v[p] = -r[p] /\ r[p] = b[p] - Receives(s.transfers, p) /\ b[p] \in Int
      /\ IsFiniteSet(P)
  BY DEF Debt, Rest, Balances
<1>7. \A p \in P : Receives(s.transfers, p) \in Int
  <2> SUFFICES ASSUME NEW p \in P PROVE Receives(s.transfers, p) \in Int
    OBVIOUS
  <2> DEFINE t == [payer |-> p, payee |-> p, amount |-> 0]
  <2>1. t \in Transfer(P) /\ s.transfers \in Seq(Transfer(P))
    BY DEF Transfer, Counted
  <2> QED BY <2>1, ReceivesOneMore
<1>8. \A p \in P : p \in D \/ p \in C \/ b[p] = 0
  BY <1>2
<1>9. (\A p \in D : p \in P) /\ (\A p \in C : p \in P)
  BY DEF Owing, Owed
<1>10. /\ k > Cardinality(D) <=> \A p \in D : v[p] = 0
       /\ \A p \in D : v[p] \in Nat
  BY <1>1, <1>3, RowsEmpty
<1>11. /\ l > Cardinality(C) <=> \A p \in C : r[p] = 0
       /\ \A p \in C : r[p] \in Nat
  BY <1>1, <1>3, RowsEmpty
<1> HIDE DEF r, v, P, D, C
<1>12. \A p \in P : r[p] = 0
  <2>1. CASE k > Cardinality(D)
    <3>1. \A p \in P : r[p] \in Nat
      <4> SUFFICES ASSUME NEW p \in P PROVE r[p] \in Nat
        OBVIOUS
      <4>1. CASE p \in D
        <5>1. v[p] = 0 /\ v[p] = -r[p] /\ r[p] \in Int
          BY <1>3, <1>6, <1>10, <2>1, <4>1
        <5> QED BY <5>1
      <4> QED BY <1>3, <1>8, <1>11, <4>1
    <3> QED BY <1>3, <1>6, <3>1, AllZero
  <2>2. CASE l > Cardinality(C)
    <3>1. \A p \in P : v[p] \in Nat
      <4> SUFFICES ASSUME NEW p \in P PROVE v[p] \in Nat
        OBVIOUS
      <4>1. CASE p \in D
        BY <1>10, <4>1
      <4>2. CASE p \notin D
        <5>1. r[p] = 0 /\ v[p] = -r[p]
          BY <1>3, <1>6, <1>8, <1>11, <2>2, <4>2
        <5> QED BY <5>1
      <4> QED BY <4>1, <4>2
    <3>2. SumFunctionOnSet(v, P) = 0
      <4> DEFINE z == [p \in P |-> 0]
      <4>1. Whole(r, P) /\ Whole(v, P)
        BY <1>3, <3>1 DEF Whole
      <4>2. \A p \in P : z[p] = r[p] + v[p]
        <5> SUFFICES ASSUME NEW p \in P PROVE 0 = r[p] + v[p]
          OBVIOUS
        <5>1. r[p] \in Int /\ v[p] = -r[p]
          BY <1>3, <1>6
        <5> QED BY <5>1
      <4>3. Cardinality(P) \in Nat /\ \A p \in P : z[p] = 0
        BY <1>6, FS_CardinalityType
      <4> HIDE DEF z
      <4>4. SumFunctionOnSet(z, P) = SumFunctionOnSet(r, P) + SumFunctionOnSet(v, P)
        BY <1>6, <4>1, <4>2, SumPlus
      <4>5. SumFunctionOnSet(z, P) = 0
        <5>1. SumFunctionOnSet(z, P) = 0 * Cardinality(P)
          BY <1>6, <4>3, SumConstant
        <5> QED BY <4>3, <5>1
      <4>6. SumFunctionOnSet(v, P) \in Int
        BY <1>6, <4>1, SumFacts
      <4> QED BY <1>3, <4>4, <4>5, <4>6
    <3>3. \A p \in P : v[p] = 0
      BY <1>6, <3>1, <3>2, AllZero
    <3>4. ASSUME NEW p \in P PROVE r[p] = 0
      <4>1. v[p] = 0 /\ v[p] = -r[p] /\ r[p] \in Int
        BY <1>3, <1>6, <3>3
      <4> QED BY <4>1
    <3> QED BY <3>4
  <2> QED BY <1>5, <2>1, <2>2
<1>13. \A p \in P : Receives(s.transfers, p) = b[p]
  <2> SUFFICES ASSUME NEW p \in P PROVE Receives(s.transfers, p) = b[p]
    OBVIOUS
  <2>1. r[p] = 0 /\ r[p] = b[p] - Receives(s.transfers, p) /\ b[p] \in Int /\ Receives(s.transfers, p) \in Int
    BY <1>6, <1>7, <1>12
  <2> HIDE DEF P
  <2> QED BY <2>1
<1>14. ASSUME NEW q \in P, b[q] # 0 PROVE Len(s.transfers) < Cardinality(D \cup C)
  <2>1. k > Cardinality(D) /\ l > Cardinality(C)
    <3>1. \A p \in D : v[p] = 0
      <4> SUFFICES ASSUME NEW p \in D PROVE v[p] = 0
        OBVIOUS
      <4>1. v[p] = -r[p] /\ r[p] \in Int /\ v[p] \in Nat
        BY <1>3, <1>6, <1>9, <1>10
      <4>2. v[p] + r[p] = 0
        BY <4>1
      <4>3. r[p] = 0
        BY <1>9, <1>12
      <4>4. v[p] \in Int
        BY <4>1
      <4> QED BY <4>2, <4>3, <4>4
    <3>2. \A p \in C : r[p] = 0
      BY <1>9, <1>12
    <3> QED BY <1>10, <1>11, <3>1, <3>2
  <2>2. k = Cardinality(D) + 1 /\ l = Cardinality(C) + 1
    BY <1>2, <1>4, <2>1
  <2>3. Cardinality(D \cup C) > 0
    <3>1. q \in D \cup C
      BY <1>2, <1>14
    <3>2. Cardinality(D \cup C) # 0
      BY <1>2, <3>1, FS_EmptySet
    <3> QED BY <1>2, <3>2
  <2>4. /\ Len(s.transfers) \in Nat
        /\ Len(s.transfers) > 0 => Len(s.transfers) < k + l - 2
    BY <2>1 DEF Counted, D, C
  <2>5. k + l - 2 = Cardinality(D \cup C)
    BY <1>2, <2>2
  <2> HIDE DEF k, l
  <2> QED BY <2>3, <2>4, <2>5
<1> QED BY <1>2, <1>13, <1>14 DEF P

-------------------------------------------------------------------------------
(* Its passes *)

Pass(s) == IF Unfinished(s) THEN Pay(s) ELSE s
Passing(b, n, a) == a = [i \in 0..n |-> IF i = 0 THEN Begin(b) ELSE Pass(a[i - 1])]

LEMMA PassesExist ==
    ASSUME NEW b, NEW n \in Nat
    PROVE  \E a : Passing(b, n, a)
<1> DEFINE Has(m) == \E a : Passing(b, m, a)
           D == {m \in 0..n : ~Has(m)}
<1>1. Has(0)
  <2> DEFINE a == [i \in 0..0 |-> Begin(b)]
  <2>1. Passing(b, 0, a)
    BY DEF Passing
  <2> QED BY <2>1
<1>2. ASSUME NEW m \in Nat, Has(m) PROVE Has(m + 1)
  <2>1. PICK a : Passing(b, m, a)
    BY <1>2
  <2> DEFINE c == [i \in 0..(m + 1) |-> IF i = 0 THEN Begin(b) ELSE Pass(a[i - 1])]
  <2>2. a = [i \in 0..m |-> IF i = 0 THEN Begin(b) ELSE Pass(a[i - 1])]
    BY <2>1 DEF Passing
  <2>3. \A i \in 0..m : c[i] = a[i]
    <3>1. \A i \in 0..m : i \in 0..(m + 1)
      OBVIOUS
    <3> QED BY <2>2, <3>1
  <2>4. \A i \in 0..(m + 1) : i # 0 => i - 1 \in 0..m
    OBVIOUS
  <2>5. c = [i \in 0..(m + 1) |-> IF i = 0 THEN Begin(b) ELSE Pass(c[i - 1])]
    <3>1. c = [i \in 0..(m + 1) |-> IF i = 0 THEN Begin(b) ELSE Pass(a[i - 1])]
      OBVIOUS
    <3>2. \A i \in 0..(m + 1) : i # 0 => Pass(c[i - 1]) = Pass(a[i - 1])
      <4>1. \A i \in 0..(m + 1) : i # 0 => c[i - 1] = a[i - 1]
        BY <2>3, <2>4
      <4> HIDE DEF c
      <4> QED BY <4>1
    <3> HIDE DEF c
    <3> QED BY <3>1, <3>2
  <2> HIDE DEF c
  <2> QED BY <2>5 DEF Passing
<1> HIDE DEF Has
<1>3. D = {}
  <2> SUFFICES ASSUME D # {} PROVE FALSE
    OBVIOUS
  <2>1. D \in SUBSET (0..n)
    OBVIOUS
  <2> HIDE DEF D
  <2>2. PICK m \in D : \A k \in D : m <= k
    BY <2>1, LeastNumber
  <2>3. m \in 0..n /\ ~Has(m)
    BY <2>2 DEF D
  <2>4. m # 0
    BY <1>1, <2>3
  <2>5. m - 1 \in 0..n /\ m - 1 \in Nat /\ ~(m <= m - 1)
    BY <2>3, <2>4
  <2>6. Has(m - 1)
    BY <2>2, <2>5 DEF D
  <2>7. (m - 1) + 1 = m
    BY <2>3
  <2> QED BY <1>2, <2>5, <2>6, <2>7, <2>3
<1>4. Has(n)
  BY <1>3
<1> QED BY <1>4 DEF Has

\* The loop after each pass, when an unfinished one has done with somebody in every pass.
LEMMA PassesFit ==
    ASSUME NEW b, Balances(b), SumFunctionOnSet(b, DOMAIN b) = 0, NEW n \in Nat, NEW a, Passing(b, n, a)
    PROVE  \A i \in 0..n : /\ PlanFits(b, a[i]) /\ Counted(b, a[i])
                           /\ Unfinished(a[i]) => i <= a[i].payer + a[i].payee - 2
<1> DEFINE Fits(i) == /\ PlanFits(b, a[i]) /\ Counted(b, a[i])
                      /\ Unfinished(a[i]) => i <= a[i].payer + a[i].payee - 2
           D == {i \in 0..n : ~Fits(i)}
<1>1. a[0] = Begin(b) /\ \A i \in 0..n : i # 0 => a[i] = Pass(a[i - 1])
  BY DEF Passing
<1>2. Fits(0)
  <2>1. PlanFits(b, a[0]) /\ Counted(b, a[0])
    BY <1>1, BeginFits
  <2>2. 0 <= a[0].payer + a[0].payee - 2
    BY <1>1 DEF Begin
  <2> QED BY <2>1, <2>2
<1>3. ASSUME NEW i \in 0..n, i # 0, Fits(i - 1) PROVE Fits(i)
  <2> DEFINE s == a[i - 1]
  <2>1. a[i] = Pass(s)
    BY <1>1, <1>3
  <2>2. CASE Unfinished(s)
    <3>1. a[i] = Pay(s)
      BY <2>1, <2>2 DEF Pass
    <3>2. /\ PlanFits(b, s) /\ Counted(b, s) /\ i - 1 <= s.payer + s.payee - 2
      BY <1>3, <2>2
    <3> HIDE DEF s
    <3>3. /\ PlanFits(b, Pay(s)) /\ Counted(b, Pay(s))
          /\ s.payer + s.payee < Pay(s).payer + Pay(s).payee
      BY <2>2, <3>2, PayFits
    <3>4. s.payer \in Int /\ s.payee \in Int /\ Pay(s).payer \in Int /\ Pay(s).payee \in Int
      <4>1. \A z : PlanFits(b, z) => z.payer \in Int /\ z.payee \in Int
        BY DEF PlanFits, RowsFit
      <4> QED BY <3>2, <3>3, <4>1
    <3>5. i <= Pay(s).payer + Pay(s).payee - 2
      BY <3>2, <3>3, <3>4
    <3> QED BY <3>1, <3>3, <3>5
  <2>3. CASE ~Unfinished(s)
    <3>1. a[i] = s
      BY <2>1, <2>3 DEF Pass
    <3> QED BY <1>3, <2>3, <3>1
  <2> QED BY <2>2, <2>3
<1> HIDE DEF Fits
<1>4. D = {}
  <2> SUFFICES ASSUME D # {} PROVE FALSE
    OBVIOUS
  <2>1. D \in SUBSET (0..n)
    OBVIOUS
  <2> HIDE DEF D
  <2>2. PICK i \in D : \A k \in D : i <= k
    BY <2>1, LeastNumber
  <2>3. i \in 0..n /\ ~Fits(i)
    BY <2>2 DEF D
  <2>4. i # 0
    BY <1>2, <2>3
  <2>5. i - 1 \in 0..n /\ ~(i <= i - 1)
    BY <2>3, <2>4
  <2>6. Fits(i - 1)
    BY <2>2, <2>5 DEF D
  <2> QED BY <1>3, <2>3, <2>4, <2>6
<1>5. \A i \in 0..n : Fits(i)
  BY <1>4
<1> QED BY <1>5 DEF Fits

\* Carrying out a plan brings all balances to zero, with fewer transfers than players who have one
\* (transfer_plan, src/app/ledger/service.py).
THEOREM PlanSettles ==
    ASSUME NEW b, Balances(b), SumFunctionOnSet(b, DOMAIN b) = 0
    PROVE  /\ \A p \in DOMAIN b : Receives(Plan(b), p) = b[p]
           /\ (\E p \in DOMAIN b : b[p] # 0) => Len(Plan(b)) < Cardinality({p \in DOMAIN b : b[p] # 0})
<1> DEFINE N == Cardinality(DOMAIN b)
           a == CHOOSE c : Passing(b, N, c)
           s == a[N]
<1>1. N \in Nat
  BY FS_CardinalityType DEF Balances
<1>2. Plan(b) = s.transfers
  BY DEF Plan, Passing, Pass
<1>3. Passing(b, N, a)
  <2>1. \E c : Passing(b, N, c)
    BY <1>1, PassesExist
  <2> QED BY <2>1
<1> HIDE DEF a
<1>4. N \in 0..N
  BY <1>1
<1>5. PlanFits(b, s) /\ Counted(b, s) /\ (Unfinished(s) => N <= s.payer + s.payee - 2)
  <2> HIDE DEF N
  <2> QED BY <1>1, <1>3, <1>4, PassesFit
<1>6. ~Unfinished(s)
  <2> SUFFICES ASSUME Unfinished(s) PROVE FALSE
    OBVIOUS
  <2> HIDE DEF s
  <2>1. s.payer \in 1..Cardinality(Owing(b)) /\ s.payee \in 1..Cardinality(Owed(b))
    BY <1>5, TurnRows
  <2>2. /\ Cardinality(Owing(b)) \in Nat /\ Cardinality(Owed(b)) \in Nat
        /\ Cardinality(Owing(b)) + Cardinality(Owed(b)) <= N
    BY Partition
  <2> HIDE DEF N
  <2> QED BY <1>1, <1>5, <2>1, <2>2
<1> HIDE DEF s
<1> QED BY <1>2, <1>5, <1>6, FinishedSettles

-------------------------------------------------------------------------------
(* Batches settle what they froze *)

ResultsFit ==
    /\ IsFiniteSet(DOMAIN games)
    /\ \A g \in DOMAIN games : games[g] \in Points
    /\ \A g \in DOMAIN atHand : atHand[g] \in Points

\* Among these results are those of the games found, which leave somebody with a balance.
TotalIn(results, found) ==
    [p \in Players |-> SumFunctionOnSet([g \in found |-> results[g][p]], found)]
FrozenIn(results, found) ==
    found \subseteq DOMAIN results /\ \E p \in Players : TotalIn(results, found)[p] # 0

RequestShaped(r) ==
    r = [by |-> r.by, table |-> r.table, scope |-> r.scope, key |-> r.key, claimed |-> r.claimed,
         games |-> r.games]
RequestsFit ==
    \A r \in requests : RequestShaped(r) /\ r.by \in Players /\ (r.games # {} => FrozenIn(games, r.games))

BatchesFit == \A b \in 1..Len(batches) : batches[b].games \subseteq DOMAIN games

SettleInv == LedgerInv /\ ResultsFit /\ RequestsFit /\ BatchesFit /\ BatchSettles

LEMMA PointsFit ==
    ASSUME NEW x \in Points
    PROVE  /\ x \in [Players -> Int] /\ \A p \in Players : x[p] \in Int
           /\ SumFunctionOnSet(x, Players) = 0
<1>1. x \in [Players -> Int] /\ SumFunction(x) = 0
  BY LedgerAssumption
<1>2. DOMAIN x = Players
  BY <1>1
<1> QED BY <1>1, <1>2 DEF SumFunction

\* Taking a game out of a total takes out its points.
LEMMA TotalWithout ==
    ASSUME ResultsFit, NEW T \in SUBSET DOMAIN games, NEW x \in T
    PROVE  \A p \in Players : /\ Total(T)[p] = games[x][p] + Total(T \ {x})[p]
                              /\ games[x][p] \in Int /\ Total(T \ {x})[p] \in Int
<1> SUFFICES ASSUME NEW p \in Players
             PROVE  /\ Total(T)[p] = games[x][p] + Total(T \ {x})[p]
                    /\ games[x][p] \in Int /\ Total(T \ {x})[p] \in Int
  OBVIOUS
<1> DEFINE U == T \ {x}
           f == [g \in T |-> games[g][p]]
           h == [g \in U |-> games[g][p]]
<1>1. Total(T)[p] = SumFunctionOnSet(f, T) /\ Total(U)[p] = SumFunctionOnSet(h, U)
  BY DEF Total
<1>2. \A g \in T : games[g][p] \in Int
  BY PointsFit DEF ResultsFit
<1>3. f[x] = games[x][p] /\ \A g \in U : f[g] = h[g]
  OBVIOUS
<1>4. Whole(f, T) /\ Whole(h, U)
  BY <1>2 DEF Whole
<1>5. IsFiniteSet(T) /\ IsFiniteSet(U)
  BY FS_Subset DEF ResultsFit
<1> HIDE DEF f, h
<1>6. SumFunctionOnSet(f, T) = f[x] + SumFunctionOnSet(f, U)
  BY <1>4, <1>5, SumFacts
<1> HIDE DEF U
<1>7. SumFunctionOnSet(f, U) = SumFunctionOnSet(h, U) /\ SumFunctionOnSet(h, U) \in Int
  BY <1>3, <1>4, <1>5, SumSame, SumFacts
<1> QED BY <1>1, <1>2, <1>3, <1>6, <1>7 DEF U

LEMMA NoTotal ==
    ASSUME NEW p \in Players
    PROVE  Total({})[p] = 0
<1> DEFINE f == [g \in {} |-> games[g][p]]
<1>1. Whole(f, {}) /\ IsFiniteSet({}) /\ Total({})[p] = SumFunctionOnSet(f, {})
  BY FS_EmptySet DEF Whole, Total
<1> HIDE DEF f
<1> QED BY <1>1, SumFacts

\* Results are zero-sum, and so is every total of them.
LEMMA TotalsBalance ==
    ASSUME ResultsFit, NEW found \in SUBSET DOMAIN games
    PROVE  /\ DOMAIN Total(found) = Players /\ Balances(Total(found))
           /\ SumFunctionOnSet(Total(found), Players) = 0
<1> DEFINE Zero(T) == Whole(Total(T), Players) /\ SumFunctionOnSet(Total(T), Players) = 0
           G == {T \in SUBSET found : Zero(T)}
<1>1. IsFiniteSet(found) /\ IsFiniteSet(Players)
  BY FS_Subset, LedgerAssumption DEF ResultsFit
<1>2. \A T : DOMAIN Total(T) = Players
  BY DEF Total
<1>3. ASSUME NEW T \in SUBSET found, \A x \in T : T \ {x} \in G PROVE Zero(T)
  <2>1. CASE T = {}
    <3>1. \A p \in Players : Total(T)[p] = 0
      BY <2>1, NoTotal
    <3>2. SumFunctionOnSet(Total(T), Players) = 0 * Cardinality(Players)
      BY <1>1, <3>1, SumConstant
    <3>3. Cardinality(Players) \in Nat
      BY <1>1, FS_CardinalityType
    <3> QED BY <3>1, <3>2, <3>3 DEF Whole
  <2>2. ASSUME NEW x \in T PROVE Zero(T)
    <3> DEFINE U == T \ {x}
    <3>1. Whole(Total(U), Players) /\ SumFunctionOnSet(Total(U), Players) = 0
      BY <1>3
    <3>2. x \in DOMAIN games /\ T \in SUBSET DOMAIN games
      OBVIOUS
    <3>3. /\ \A p \in Players : games[x][p] \in Int
          /\ SumFunctionOnSet(games[x], Players) = 0
      BY <3>2, PointsFit DEF ResultsFit
    <3>4. \A p \in Players : Total(T)[p] = games[x][p] + Total(U)[p]
      BY <3>2, TotalWithout
    <3> HIDE DEF U
    <3>5. Whole(games[x], Players)
      BY <3>3 DEF Whole
    <3>6. SumFunctionOnSet(Total(T), Players) =
            SumFunctionOnSet(games[x], Players) + SumFunctionOnSet(Total(U), Players)
      BY <1>1, <3>1, <3>4, <3>5, SumPlus
    <3>7. Whole(Total(T), Players)
      BY <3>1, <3>4, <3>5 DEF Whole
    <3> QED BY <3>1, <3>3, <3>6, <3>7
  <2> QED BY <2>1, <2>2
<1>4. \A T \in SUBSET found : (\A x \in T : T \ {x} \in G) => T \in G
  BY <1>3
<1> HIDE DEF G
<1>5. SUBSET found \subseteq G
  BY <1>1, <1>4, SubsetInduction
<1>6. Zero(found)
  BY <1>5 DEF G
<1> QED BY <1>1, <1>2, <1>6, LedgerAssumption DEF Balances, Whole

LEMMA TotalIs ==
    ASSUME NEW found
    PROVE  Total(found) = TotalIn(games, found)
BY DEF Total, TotalIn

\* A total of recorded games stays what it is.
LEMMA TotalsStay ==
    ASSUME [Next]_vars, NEW found \in SUBSET DOMAIN games
    PROVE  TotalIn(games', found) = TotalIn(games, found)
<1>1. \A g \in found : games'[g] = games[g]
  BY GamesStay
<1>2. \A p \in Players : [g \in found |-> games'[g][p]] = [g \in found |-> games[g][p]]
  BY <1>1
<1> QED BY <1>2 DEF TotalIn

LEMMA SettleInitially == Init => SettleInv
<1> SUFFICES ASSUME Init PROVE SettleInv
  OBVIOUS
<1>1. LedgerInv
  BY LedgerInitially
<1>2. games = << >> /\ atHand = << >> /\ batches = << >> /\ requests = {}
  BY DEF Init
<1>3. DOMAIN games = {} /\ DOMAIN atHand = {} /\ 1..Len(batches) = {}
  BY <1>2
<1>4. ResultsFit
  BY <1>3, FS_EmptySet DEF ResultsFit
<1>5. RequestsFit /\ BatchesFit /\ BatchSettles
  BY <1>2, <1>3 DEF RequestsFit, BatchesFit, BatchSettles
<1> QED BY <1>1, <1>4, <1>5 DEF SettleInv

\* What is recorded is what a game ended with.
LEMMA RecordedFits ==
    ASSUME ResultsFit, NEW g, NEW points \in Points, NEW wait, Try(g, points, wait)
    PROVE  IsFiniteSet(DOMAIN games') /\ \A x \in DOMAIN games' : games'[x] \in Points
<1>1. games' = games \/ games' = With(games, g, points)
  BY DEF Try, Recorded
<1>2. CASE games' = games
  BY <1>2 DEF ResultsFit
<1>3. CASE games' = With(games, g, points)
  <2>1. DOMAIN games' = DOMAIN games \cup {g} /\ \A x \in DOMAIN games' : games'[x] \in Points
    BY <1>3 DEF With, ResultsFit
  <2>2. IsFiniteSet(DOMAIN games \cup {g})
    BY FS_AddElement DEF ResultsFit
  <2> QED BY <2>1, <2>2
<1> QED BY <1>1, <1>2, <1>3

LEMMA ResultsStayFit ==
    ASSUME ResultsFit, [Next]_vars
    PROVE  ResultsFit'
<1>1. ASSUME NEW t \in Tables, Over(t) PROVE ResultsFit'
  <2>1. PICK points \in Points : /\ atHand' = With(atHand, <<t, rounds[t].begun>>, points)
                                 /\ Try(<<t, rounds[t].begun>>, points, waiting)
    BY <1>1 DEF Over
  <2>2. \A g \in DOMAIN atHand' : atHand'[g] \in Points
    BY <2>1 DEF With, ResultsFit
  <2> QED BY <2>1, <2>2, RecordedFits DEF ResultsFit
<1>2. ASSUME NEW g \in DOMAIN atHand, NEW ending \in BOOLEAN, Retry(g, ending) PROVE ResultsFit'
  <2>1. PICK wait : Try(g, atHand[g], wait)
    BY <1>2 DEF Retry
  <2>2. atHand' = atHand /\ atHand[g] \in Points
    BY <1>2 DEF Retry, ResultsFit
  <2>3. IsFiniteSet(DOMAIN games') /\ \A x \in DOMAIN games' : games'[x] \in Points
    BY <2>1, <2>2, RecordedFits
  <2> QED BY <2>2, <2>3 DEF ResultsFit
<1>3. ASSUME NEW t \in Tables, NextRound(t), UNCHANGED games PROVE ResultsFit'
  <2>1. \/ atHand' = atHand
        \/ atHand' = [g \in {x \in DOMAIN atHand : x[1] # t} |-> atHand[g]]
    BY <1>3 DEF NextRound
  <2>2. \A g \in DOMAIN atHand' : atHand'[g] \in Points
    BY <2>1 DEF ResultsFit
  <2> QED BY <1>3, <2>2 DEF ResultsFit
<1>4. ASSUME Crash, UNCHANGED games PROVE ResultsFit'
  <2>1. DOMAIN atHand' = {}
    BY <1>4 DEF Crash
  <2> QED BY <1>4, <2>1 DEF ResultsFit
<1>5. ASSUME UNCHANGED <<games, atHand>> PROVE ResultsFit'
  BY <1>5 DEF ResultsFit
<1>6. /\ \A t \in Tables : NextRound(t) => UNCHANGED games
      /\ Crash => UNCHANGED games
  BY DEF NextRound, Crash
<1> QED BY <1>1, <1>2, <1>3, <1>4, <1>5, <1>6, Frames

LEMMA FrozenStays ==
    ASSUME [Next]_vars, NEW found, FrozenIn(games, found)
    PROVE  FrozenIn(games', found)
<1>1. found \subseteq DOMAIN games /\ \E p \in Players : TotalIn(games, found)[p] # 0
  BY DEF FrozenIn
<1>2. TotalIn(games', found) = TotalIn(games, found)
  BY <1>1, TotalsStay
<1>3. found \subseteq DOMAIN games'
  BY <1>1, GamesStay
<1> QED BY <1>1, <1>2, <1>3 DEF FrozenIn

LEMMA WithGames ==
    ASSUME NEW u, NEW t, NEW s, NEW k, NEW c, NEW g, NEW found
    PROVE  [[by |-> u, table |-> t, scope |-> s, key |-> k, claimed |-> c, games |-> g]
              EXCEPT !.games = found]
           = [by |-> u, table |-> t, scope |-> s, key |-> k, claimed |-> c, games |-> found]
OBVIOUS

LEMMA RequestsStayFit ==
    ASSUME RequestsFit, [Next]_vars
    PROVE  RequestsFit'
<1> DEFINE FitNext(r) == RequestShaped(r) /\ r.by \in Players /\ (r.games # {} => FrozenIn(games', r.games))
<1>1. \A r \in requests : FitNext(r)
  BY FrozenStays DEF RequestsFit
<1>2. ASSUME NEW u \in Players, NEW t, NEW scope, NEW k, Ask(u, t, scope, k)
      PROVE  \A r \in requests' : FitNext(r)
  <2> DEFINE new == [by |-> u, table |-> t, scope |-> scope, key |-> k, claimed |-> Claimed, games |-> {}]
  <2>1. requests' = requests \cup {new}
    BY <1>2 DEF Ask
  <2>2. RequestShaped(new) /\ new.by = u /\ new.games = {}
    BY DEF RequestShaped
  <2> HIDE DEF new
  <2> QED BY <1>1, <2>1, <2>2
<1>3. ASSUME NEW r \in requests, Freeze(r) PROVE \A q \in requests' : FitNext(q)
  <2>1. PICK found, new :
          /\ found \in SUBSET DOMAIN games /\ new = [r EXCEPT !.games = found]
          /\ \/ requests' = requests \ {r}
             \/ Total(found)[r.by] # 0 /\ requests' = (requests \ {r}) \cup {new}
    BY <1>3 DEF Freeze
  <2>3. RequestShaped(r) /\ r.by \in Players
    BY DEF RequestsFit
  <2>4. new = [by |-> r.by, table |-> r.table, scope |-> r.scope, key |-> r.key, claimed |-> r.claimed,
               games |-> found]
    <3>1. PICK u, t, s, k, c, g :
            r = [by |-> u, table |-> t, scope |-> s, key |-> k, claimed |-> c, games |-> g]
      BY <2>3 DEF RequestShaped
    <3>2. new = [by |-> u, table |-> t, scope |-> s, key |-> k, claimed |-> c, games |-> found]
      BY <2>1, <3>1, WithGames
    <3>3. r.by = u /\ r.table = t /\ r.scope = s /\ r.key = k /\ r.claimed = c
      BY <3>1
    <3> QED BY <3>2, <3>3
  <2>5. RequestShaped(new) /\ new.by = r.by /\ new.games = found
    BY <2>4 DEF RequestShaped
  <2>6. Total(found)[r.by] # 0 => FrozenIn(games', found)
    <3>1. Total(found)[r.by] # 0 => FrozenIn(games, found)
      BY <2>1, <2>3, TotalIs DEF FrozenIn
    <3> QED BY <3>1, FrozenStays
  <2>7. Total(found)[r.by] # 0 => FitNext(new)
    BY <2>3, <2>5, <2>6
  <2> QED BY <1>1, <2>1, <2>7
<1>4. ASSUME NEW r \in requests, Create(r) PROVE \A q \in requests' : FitNext(q)
  <2>1. requests' = requests \ {r}
    BY <1>4 DEF Create
  <2> QED BY <1>1, <2>1
<1>5. ASSUME Crash PROVE \A q \in requests' : FitNext(q)
  BY <1>5 DEF Crash
<1>6. ASSUME UNCHANGED requests PROVE \A q \in requests' : FitNext(q)
  BY <1>1, <1>6
<1> HIDE DEF FitNext
<1>7. \A q \in requests' : FitNext(q)
  <2>1. ASSUME NEW t \in Tables, NextRound(t) \/ Over(t) PROVE UNCHANGED requests
    BY <2>1 DEF NextRound, Over, settled
  <2>2. ASSUME NEW g, NEW ending, Retry(g, ending) PROVE UNCHANGED requests
    BY <2>2 DEF Retry, settled
  <2>3. ASSUME NEW m, RetryAgain(m) PROVE UNCHANGED requests
    BY <2>3 DEF RetryAgain, settled
  <2>4. ASSUME NEW u, NEW b, NEW i, NEW k, MarkPaid(u, b, i, k) \/ ConfirmPaid(u, b, i, k)
        PROVE  UNCHANGED requests
    BY <2>4 DEF MarkPaid, ConfirmPaid
  <2>5. CASE UNCHANGED vars
    BY <2>5, <1>6 DEF vars, settled
  <2>6. CASE Next
    BY <2>6, <2>1, <2>2, <2>3, <2>4, <1>2, <1>3, <1>4, <1>5, <1>6 DEF Next
  <2> QED BY <2>5, <2>6
<1> QED BY <1>7 DEF RequestsFit, FitNext

\* A batch that was there keeps its games and transfers; a new one has those of a request.
LEMMA BatchesKeptOrNew ==
    ASSUME LedgerInv, [Next]_vars
    PROVE  \A b \in 1..Len(batches') :
             \/ /\ b \in 1..Len(batches)
                /\ batches'[b].games = batches[b].games /\ batches'[b].transfers = batches[b].transfers
             \/ \E r \in requests : /\ r.games # {} /\ batches'[b].games = r.games
                                    /\ batches'[b].transfers = Plan(Total(r.games))
<1> DEFINE Kept(b) == /\ b \in 1..Len(batches)
                      /\ batches'[b].games = batches[b].games
                      /\ batches'[b].transfers = batches[b].transfers
           New(b) == \E r \in requests : /\ r.games # {} /\ batches'[b].games = r.games
                                         /\ batches'[b].transfers = Plan(Total(r.games))
<1>1. Len(batches) \in Nat
  BY DEF LedgerInv, BatchesShaped
<1>2. \A b \in 1..Len(batches) : Kept(b)
  BY BatchesStay
<1>3. ASSUME Len(batches') = Len(batches) PROVE \A b \in 1..Len(batches') : Kept(b)
  BY <1>2, <1>3
<1>4. ASSUME NEW r \in requests, Create(r), batches' # batches
      PROVE  \A b \in 1..Len(batches') : Kept(b) \/ New(b)
  <2> DEFINE n == Len(batches) + 1
             plan == Plan(Total(r.games))
  <2>1. Len(batches') = n /\ batches'[n] = NewBatch(r) /\ r.games # {}
    BY <1>4, CreateAppends DEF Create
  <2>2. NewBatch(r).games = r.games /\ NewBatch(r).transfers = plan
    <3>1. NewBatch(r) = [table |-> r.table, games |-> r.games, by |-> r.by, key |-> r.key,
                         status |-> "OPEN", transfers |-> plan]
      BY DEF NewBatch
    <3> HIDE DEF plan
    <3> QED BY <3>1
  <2>3. New(n)
    BY <2>1, <2>2
  <2>4. \A b \in 1..n : b \in 1..Len(batches) \/ b = n
    BY <1>1
  <2> HIDE DEF Kept, New
  <2> QED BY <1>2, <2>1, <2>3, <2>4
<1>5. ASSUME NEW u \in Players, NEW k \in Keys, NEW b \in 1..Len(batches),
             NEW i \in 1..Len(batches[b].transfers), MarkPaid(u, b, i, k) \/ ConfirmPaid(u, b, i, k)
      PROVE  Len(batches') = Len(batches)
  <2>1. PICK status : batches' = [batches EXCEPT ![b].status = status]
    BY <1>5 DEF MarkPaid, ConfirmPaid
  <2> QED BY <2>1, StatusOnly DEF LedgerInv
<1> HIDE DEF Kept, New
<1>6. \A b \in 1..Len(batches') : Kept(b) \/ New(b)
  <2>1. CASE UNCHANGED batches
    BY <1>3, <2>1
  <2>2. ASSUME NEW r \in requests, Create(r) PROVE \A b \in 1..Len(batches') : Kept(b) \/ New(b)
    BY <1>4, <2>1, <2>2
  <2>3. ASSUME NEW u \in Players, NEW k \in Keys, NEW b \in 1..Len(batches),
               NEW i \in 1..Len(batches[b].transfers), MarkPaid(u, b, i, k) \/ ConfirmPaid(u, b, i, k)
        PROVE  \A c \in 1..Len(batches') : Kept(c) \/ New(c)
    BY <1>3, <1>5, <2>3
  <2> QED BY <2>1, <2>2, <2>3, Frames
<1> QED BY <1>6 DEF Kept, New

\* The plan for frozen games settles them.
LEMMA FrozenSettles ==
    ASSUME ResultsFit, NEW found, FrozenIn(games, found)
    PROVE  /\ \A p \in Players : Receives(Plan(Total(found)), p) = Total(found)[p]
           /\ Len(Plan(Total(found))) < Cardinality({p \in Players : Total(found)[p] # 0})
<1> DEFINE b == Total(found)
<1>1. found \in SUBSET DOMAIN games /\ \E p \in Players : b[p] # 0
  BY TotalIs DEF FrozenIn
<1>2. DOMAIN b = Players /\ Balances(b) /\ SumFunctionOnSet(b, Players) = 0
  BY <1>1, TotalsBalance
<1> HIDE DEF b
<1>3. /\ \A p \in DOMAIN b : Receives(Plan(b), p) = b[p]
      /\ (\E p \in DOMAIN b : b[p] # 0) => Len(Plan(b)) < Cardinality({p \in DOMAIN b : b[p] # 0})
  BY <1>2, PlanSettles
<1> QED BY <1>1, <1>2, <1>3 DEF b

LEMMA SettlePreserved == SettleInv /\ [Next]_vars => SettleInv'
<1> SUFFICES ASSUME SettleInv, [Next]_vars PROVE SettleInv'
  OBVIOUS
<1>1. LedgerInv /\ ResultsFit /\ RequestsFit /\ BatchesFit /\ BatchSettles
  BY DEF SettleInv
<1>2. LedgerInv' /\ ResultsFit' /\ RequestsFit'
  BY <1>1, Preserved, ResultsStayFit, RequestsStayFit
<1>3. \A g \in DOMAIN games : g \in DOMAIN games'
  BY GamesStay
<1> DEFINE Settles(results, found, transfers) ==
             /\ found \in SUBSET DOMAIN games
             /\ \A p \in Players : Receives(transfers, p) = TotalIn(results, found)[p]
             /\ Len(transfers) < Cardinality({p \in Players : TotalIn(results, found)[p] # 0})
<1>4. \A b \in 1..Len(batches') : Settles(games, batches'[b].games, batches'[b].transfers)
  <2> SUFFICES ASSUME NEW b \in 1..Len(batches')
               PROVE  Settles(games, batches'[b].games, batches'[b].transfers)
    OBVIOUS
  <2>1. CASE /\ b \in 1..Len(batches)
             /\ batches'[b].games = batches[b].games /\ batches'[b].transfers = batches[b].transfers
    BY <1>1, <2>1, TotalIs DEF BatchesFit, BatchSettles
  <2>2. ASSUME NEW r \in requests, r.games # {}, batches'[b].games = r.games,
               batches'[b].transfers = Plan(Total(r.games))
        PROVE  Settles(games, batches'[b].games, batches'[b].transfers)
    <3>1. FrozenIn(games, r.games)
      BY <1>1, <2>2 DEF RequestsFit
    <3>2. Settles(games, r.games, Plan(Total(r.games)))
      BY <1>1, <3>1, FrozenSettles, TotalIs DEF FrozenIn
    <3> QED BY <2>2, <3>2
  <2> QED BY <1>1, <2>1, <2>2, BatchesKeptOrNew
<1>5. \A b \in 1..Len(batches') : Settles(games', batches'[b].games, batches'[b].transfers)
  <2>1. \A found \in SUBSET DOMAIN games : TotalIn(games', found) = TotalIn(games, found)
    BY TotalsStay
  <2> QED BY <1>4, <2>1
<1>6. BatchesFit'
  BY <1>3, <1>4 DEF BatchesFit
<1>7. BatchSettles'
  BY <1>5 DEF BatchSettles, Total, TotalIn
<1> QED BY <1>2, <1>6, <1>7 DEF SettleInv

\* The transfers of every batch bring the balances that it froze to zero, whatever is recorded or
\* created meanwhile (create_settlement and transfer_plan, src/app/ledger/service.py).
THEOREM PlansSettle == Spec => []BatchSettles
<1>1. SettleInv => BatchSettles
  BY DEF SettleInv
<1> QED BY <1>1, SettleInitially, SettlePreserved, PTL DEF Spec

-------------------------------------------------------------------------------
(* What a table agrees on *)

\* A pending proposal has the yeses it counts, no no, and everybody seated as a voter.
VotesCounted ==
    /\ \A v \in said : v[2] <= proposal.id
    /\ Pending => /\ \A u \in proposal.accepted : <<u, proposal.id, TRUE>> \in said
                  /\ \A u \in Users : <<u, proposal.id, FALSE>> \notin said

\* Who shows the current revision of a Flush table shows its rules.
RevisionsTell ==
    kind = "flush" =>
        \A u \in Users : /\ shown[u].revision <= revision
                         /\ shown[u].revision = revision => shown[u].rules = rules

RulesInv == RulesTypeOK /\ PendingForRoster /\ NoneOpenWhenStarted /\ VotesCounted /\ RevisionsTell

\* The initial state: no proposal, no vote, and every client shows the default rules.
LEMMA RulesInitially == RulesInit => RulesInv
<1> SUFFICES ASSUME RulesInit PROVE RulesInv
  OBVIOUS
<1>1. NoProposal \in [id : Nat, status : Statuses, voters : Seq(Users), accepted : SUBSET Users,
                      proposed : Rules]
  <2>1. << >> \in Seq(Users)
    OBVIOUS
  <2> QED BY <2>1, ProposalAssumption DEF NoProposal, Statuses
<1>2. RulesTypeOK
  BY <1>1, ProposalAssumption DEF RulesInit, RulesTypeOK
<1>3. PendingForRoster /\ NoneOpenWhenStarted /\ VotesCounted /\ RevisionsTell
  BY DEF RulesInit, PendingForRoster, NoneOpenWhenStarted, VotesCounted, RevisionsTell, Pending,
         NoProposal
<1> QED BY <1>2, <1>3 DEF RulesInv

\* Synced keeps the proposal's content, and leaves it pending only for this roster.
LEMMA SyncedKeeps ==
    ASSUME NEW p \in [id : Nat, status : Statuses, voters : Seq(Users), accepted : SUBSET Users,
                      proposed : Rules],
           NEW r, NEW ph
    PROVE  /\ Synced(p, r, ph) \in [id : Nat, status : Statuses, voters : Seq(Users),
                                    accepted : SUBSET Users, proposed : Rules]
           /\ Synced(p, r, ph).id = p.id /\ Synced(p, r, ph).voters = p.voters
           /\ Synced(p, r, ph).accepted = p.accepted
           /\ Synced(p, r, ph).status = "PENDING" =>
                p.status = "PENDING" /\ ph # "ENDED" /\ p.voters = r
           /\ p.status # "PENDING" => Synced(p, r, ph) = p
BY DEF Synced, Statuses

\* The parts of a proposal that takes effect.
LEMMA EffectTakes ==
    ASSUME RulesTypeOK,
           NEW p \in [id : Nat, status : Statuses, voters : Seq(Users), accepted : SUBSET Users,
                      proposed : Rules],
           Effect(p)
    PROVE  /\ rules' = p.proposed /\ rules' \in Rules
           /\ proposal' \in [id : Nat, status : Statuses, voters : Seq(Users),
                             accepted : SUBSET Users, proposed : Rules]
           /\ proposal'.id = p.id /\ proposal'.proposed = p.proposed
           /\ proposal'.status = "ACCEPTED"
           /\ revision' \in Nat
           /\ kind = "flush" => revision' = revision + 1
<1>1. rules' = p.proposed /\ proposal' = [p EXCEPT !.status = "ACCEPTED"]
  BY DEF Effect
<1>2. /\ revision \in Nat
      /\ revision' = revision + 1 \/ revision' = revision
      /\ kind = "flush" => revision' = revision + 1
  BY DEF Effect, RulesTypeOK
<1>3. revision' \in Nat
  BY <1>2
<1> QED BY <1>1, <1>2, <1>3 DEF Statuses

LEMMA ProposeKeeps ==
    ASSUME RulesInv, NEW u \in Users, NEW r \in Rules, Propose(u, r)
    PROVE  RulesInv'
<1> USE ProposalAssumption
<1> DEFINE p == [id |-> proposal.id + 1, status |-> "PENDING", voters |-> roster,
                 accepted |-> {u}, proposed |-> r]
<1>1. p \in [id : Nat, status : Statuses, voters : Seq(Users), accepted : SUBSET Users,
             proposed : Rules]
  BY DEF RulesInv, RulesTypeOK, Statuses
<1>2. /\ said' = said \cup {<<u, proposal.id + 1, TRUE>>}
      /\ UNCHANGED <<kind, roster, phase, started, shown>>
      /\ ~started /\ phase # "ENDED" /\ ~Pending
  BY DEF Propose, Editable
<1>3. \/ Len(roster) = 1 /\ Effect(p)
      \/ proposal' = p /\ UNCHANGED <<rules, revision>>
  BY DEF Propose
<1>4. /\ proposal.id \in Nat /\ said \subseteq Users \X Nat \X BOOLEAN
      /\ \A v \in said : v[2] <= proposal.id
  BY DEF RulesInv, RulesTypeOK, VotesCounted
<1>5. <<u, proposal.id + 1, TRUE>> \in Users \X Nat \X BOOLEAN
  <2>1. proposal.id + 1 \in Nat
    BY <1>4
  <2>2. \A n \in Nat : <<u, n, TRUE>> \in Users \X Nat \X BOOLEAN
    BY Zenon
  <2> QED BY <2>1, <2>2
<1>6. said' \subseteq Users \X Nat \X BOOLEAN
  BY <1>2, <1>4, <1>5
<1>7. \A v \in said' : v[2] <= proposal.id + 1
  <2> SUFFICES ASSUME NEW v \in said' PROVE v[2] <= proposal.id + 1
    OBVIOUS
  <2>1. CASE v \in said
    <3>1. v[2] <= proposal.id /\ v[2] \in Nat
      BY <1>4, <2>1
    <3> QED BY <1>4, <3>1
  <2>2. CASE v = <<u, proposal.id + 1, TRUE>>
    BY <1>4, <2>2
  <2> QED BY <1>2, <2>1, <2>2
<1>8. CASE Len(roster) = 1 /\ Effect(p)
  <2>1. /\ rules' \in Rules /\ proposal'.id = proposal.id + 1 /\ proposal'.status = "ACCEPTED"
        /\ proposal' \in [id : Nat, status : Statuses, voters : Seq(Users),
                          accepted : SUBSET Users, proposed : Rules]
        /\ revision' \in Nat /\ (kind = "flush" => revision' = revision + 1)
    BY <1>1, <1>8, EffectTakes DEF RulesInv
  <2>2. RulesTypeOK'
    BY <1>2, <1>6, <2>1 DEF RulesInv, RulesTypeOK
  <2>3. PendingForRoster' /\ NoneOpenWhenStarted'
    BY <2>1 DEF PendingForRoster, NoneOpenWhenStarted, Pending
  <2>4. VotesCounted'
    BY <1>7, <2>1 DEF VotesCounted, Pending
  <2>5. RevisionsTell'
    BY <1>2, <2>1 DEF RulesInv, RulesTypeOK, RevisionsTell
  <2> QED BY <2>2, <2>3, <2>4, <2>5 DEF RulesInv
<1>9. CASE proposal' = p /\ UNCHANGED <<rules, revision>>
  <2>1. RulesTypeOK'
    BY <1>1, <1>2, <1>9, <1>6 DEF RulesInv, RulesTypeOK
  <2>2. PendingForRoster' /\ NoneOpenWhenStarted'
    BY <1>2, <1>9 DEF PendingForRoster, NoneOpenWhenStarted, Pending
  <2>3. VotesCounted'
    <3>1. proposal'.id = proposal.id + 1 /\ proposal'.accepted = {u} /\ proposal.id \in Nat
      BY <1>9 DEF RulesInv, RulesTypeOK
    <3>2. \A v \in said' : v[2] <= proposal'.id
      BY <1>7, <3>1
    <3>3. \A w \in Users : <<w, proposal'.id, FALSE>> \notin said'
      <4> SUFFICES ASSUME NEW w \in Users, <<w, proposal.id + 1, FALSE>> \in said' PROVE FALSE
        BY <3>1
      <4>1. <<w, proposal.id + 1, FALSE>> \in said
        BY <1>2
      <4>2. proposal.id + 1 <= proposal.id
        BY <4>1 DEF RulesInv, VotesCounted
      <4> QED BY <4>2, <3>1
    <3> QED BY <1>2, <3>1, <3>2, <3>3 DEF VotesCounted
  <2>4. RevisionsTell'
    BY <1>2, <1>9 DEF RulesInv, RevisionsTell
  <2> QED BY <2>1, <2>2, <2>3, <2>4 DEF RulesInv
<1> QED BY <1>3, <1>8, <1>9

\* Whoever has not voted yet said nothing on the proposal; a no ends it.
LEMMA VoteKeeps ==
    ASSUME RulesInv, NEW u \in Users, NEW id \in 1..MaxProposals, NEW accept \in BOOLEAN,
           Vote(u, id, accept)
    PROVE  RulesInv'
<1> DEFINE p == [proposal EXCEPT !.accepted = @ \cup {u}]
<1>1. /\ p \in [id : Nat, status : Statuses, voters : Seq(Users), accepted : SUBSET Users,
                proposed : Rules]
      /\ p.id = proposal.id /\ p.accepted = proposal.accepted \cup {u}
      /\ p.status = proposal.status /\ p.voters = proposal.voters
  BY DEF RulesInv, RulesTypeOK
<1>2. /\ id = proposal.id /\ Pending /\ said' = said \cup {<<u, id, accept>>}
      /\ UNCHANGED <<kind, roster, phase, started, shown>>
  BY DEF Vote
<1>3. /\ ~started /\ phase # "ENDED" /\ proposal.voters = roster
  BY <1>2 DEF RulesInv, NoneOpenWhenStarted, PendingForRoster
<1>4. \/ /\ ~accept /\ proposal' = [proposal EXCEPT !.status = "REJECTED"]
         /\ UNCHANGED <<rules, revision>>
      \/ accept /\ Effect(p)
      \/ accept /\ proposal' = p /\ UNCHANGED <<rules, revision>>
  BY DEF Vote
<1>5. proposal.id \in Nat /\ said' \subseteq Users \X Nat \X BOOLEAN
      /\ \A v \in said' : v[2] <= proposal.id
  BY <1>2 DEF RulesInv, RulesTypeOK, VotesCounted
<1>6. CASE ~accept /\ proposal' = [proposal EXCEPT !.status = "REJECTED"]
           /\ UNCHANGED <<rules, revision>>
  <2>1. proposal' \in [id : Nat, status : Statuses, voters : Seq(Users), accepted : SUBSET Users,
                       proposed : Rules]
        /\ proposal'.id = proposal.id /\ proposal'.status = "REJECTED"
    BY <1>6 DEF RulesInv, RulesTypeOK, Statuses
  <2>2. RulesTypeOK'
    BY <1>2, <1>5, <1>6, <2>1 DEF RulesInv, RulesTypeOK
  <2>3. PendingForRoster' /\ NoneOpenWhenStarted' /\ VotesCounted'
    BY <1>5, <2>1 DEF PendingForRoster, NoneOpenWhenStarted, VotesCounted, Pending
  <2>4. RevisionsTell'
    BY <1>2, <1>6 DEF RulesInv, RevisionsTell
  <2> QED BY <2>2, <2>3, <2>4 DEF RulesInv
<1>7. CASE accept /\ Effect(p)
  <2>1. /\ rules' \in Rules /\ proposal'.id = proposal.id /\ proposal'.status = "ACCEPTED"
        /\ proposal' \in [id : Nat, status : Statuses, voters : Seq(Users),
                          accepted : SUBSET Users, proposed : Rules]
        /\ revision' \in Nat /\ (kind = "flush" => revision' = revision + 1)
    BY <1>1, <1>7, EffectTakes DEF RulesInv
  <2>2. RulesTypeOK'
    BY <1>2, <1>5, <2>1 DEF RulesInv, RulesTypeOK
  <2>3. PendingForRoster' /\ NoneOpenWhenStarted' /\ VotesCounted'
    BY <1>5, <2>1 DEF PendingForRoster, NoneOpenWhenStarted, VotesCounted, Pending
  <2>4. RevisionsTell'
    BY <1>2, <2>1 DEF RulesInv, RulesTypeOK, RevisionsTell
  <2> QED BY <2>2, <2>3, <2>4 DEF RulesInv
<1>8. CASE accept /\ proposal' = p /\ UNCHANGED <<rules, revision>>
  <2>1. RulesTypeOK'
    BY <1>1, <1>2, <1>5, <1>8 DEF RulesInv, RulesTypeOK
  <2>2. PendingForRoster' /\ NoneOpenWhenStarted'
    BY <1>1, <1>2, <1>3, <1>8 DEF PendingForRoster, NoneOpenWhenStarted, Pending
  <2>3. VotesCounted'
    <3>1. proposal'.id = proposal.id /\ proposal'.accepted = proposal.accepted \cup {u}
      BY <1>1, <1>8
    <3>2. \A w \in proposal'.accepted : <<w, proposal.id, TRUE>> \in said'
      BY <1>2, <1>8, <3>1 DEF RulesInv, VotesCounted
    <3>3. \A w \in Users : <<w, proposal.id, FALSE>> \notin said'
      BY <1>2, <1>8 DEF RulesInv, VotesCounted
    <3> QED BY <1>5, <3>1, <3>2, <3>3 DEF VotesCounted
  <2>4. RevisionsTell'
    BY <1>2, <1>8 DEF RulesInv, RevisionsTell
  <2> QED BY <2>1, <2>2, <2>3, <2>4 DEF RulesInv
<1> QED BY <1>4, <1>6, <1>7, <1>8

\* A step that leaves rules, votes and clients alone, and the proposal as Synced leaves it.
LEMMA RosterStepKeeps ==
    ASSUME RulesInv,
           roster' \in Rosters, phase' \in {"OPEN", "LOCKED", "STARTED", "ENDED"},
           started' \in BOOLEAN, UNCHANGED <<kind, rules, revision, shown, said>>,
           proposal' \in [id : Nat, status : Statuses, voters : Seq(Users), accepted : SUBSET Users,
                          proposed : Rules],
           proposal'.id = proposal.id, proposal'.accepted = proposal.accepted,
           Pending' => Pending /\ ~started' /\ phase' # "ENDED" /\ proposal'.voters = roster'
    PROVE  RulesInv'
<1>1. RulesTypeOK'
  BY DEF RulesInv, RulesTypeOK
<1>2. PendingForRoster' /\ NoneOpenWhenStarted'
  BY DEF PendingForRoster, NoneOpenWhenStarted
<1>3. VotesCounted'
  BY DEF RulesInv, VotesCounted
<1>4. RevisionsTell'
  BY DEF RulesInv, RevisionsTell
<1> QED BY <1>1, <1>2, <1>3, <1>4 DEF RulesInv

LEMMA ReseatKeeps ==
    ASSUME RulesInv, NEW new \in Rosters, Reseat(new) \/ NextMatch(new)
    PROVE  RulesInv'
<1>1. CASE Reseat(new)
  <2>1. /\ roster' = new /\ phase' \in {"OPEN", "LOCKED"} /\ started' = started
        /\ UNCHANGED <<kind, rules, revision, shown, said>>
        /\ proposal' = Synced(proposal, roster', phase')
    BY <1>1 DEF Reseat
  <2>2. proposal \in [id : Nat, status : Statuses, voters : Seq(Users), accepted : SUBSET Users,
                      proposed : Rules]
    BY DEF RulesInv, RulesTypeOK
  <2>3. /\ proposal' \in [id : Nat, status : Statuses, voters : Seq(Users),
                          accepted : SUBSET Users, proposed : Rules]
        /\ proposal'.id = proposal.id /\ proposal'.accepted = proposal.accepted
        /\ proposal'.voters = proposal.voters
        /\ Pending' => Pending /\ phase' # "ENDED" /\ proposal.voters = roster'
    BY <2>1, <2>2, SyncedKeeps DEF Pending
  <2>4. Pending => ~started
    BY DEF RulesInv, NoneOpenWhenStarted
  <2>5. started \in BOOLEAN
    BY DEF RulesInv, RulesTypeOK
  <2> QED BY <2>1, <2>3, <2>4, <2>5, RosterStepKeeps
<1>2. CASE NextMatch(new)
  <2>1. /\ roster' = new /\ phase' = "OPEN" /\ started' = FALSE
        /\ UNCHANGED <<kind, rules, revision, shown, said>>
    BY <1>2 DEF NextMatch
  <2>2. /\ proposal' \in [id : Nat, status : Statuses, voters : Seq(Users),
                          accepted : SUBSET Users, proposed : Rules]
        /\ proposal'.id = proposal.id /\ proposal'.accepted = proposal.accepted /\ ~Pending'
    BY <1>2 DEF RulesInv, RulesTypeOK, Statuses, NextMatch, Pending
  <2> QED BY <2>1, <2>2, RosterStepKeeps
<1> QED BY <1>1, <1>2

LEMMA PhaseKeeps ==
    ASSUME RulesInv, RoundOver \/ End \/ \E u \in Users : Lock(u) \/ Start(u)
    PROVE  RulesInv'
<1>1. proposal \in [id : Nat, status : Statuses, voters : Seq(Users), accepted : SUBSET Users,
                    proposed : Rules]
      /\ roster \in Rosters /\ started \in BOOLEAN
      /\ (Pending => ~started /\ phase # "ENDED" /\ proposal.voters = roster)
  BY DEF RulesInv, RulesTypeOK, PendingForRoster, NoneOpenWhenStarted
<1>2. CASE RoundOver
  <2>1. /\ phase' = "OPEN"
        /\ UNCHANGED <<kind, roster, started, rules, revision, proposal, shown, said>>
    BY <1>2 DEF RoundOver
  <2>2. Pending' => Pending
    BY <2>1 DEF Pending
  <2> QED BY <1>1, <2>1, <2>2, RosterStepKeeps
<1>3. CASE End
  <2>1. /\ phase' = "ENDED" /\ UNCHANGED <<kind, roster, started, rules, revision, shown, said>>
        /\ proposal' = Synced(proposal, roster, "ENDED")
    BY <1>3 DEF End
  <2>2. /\ proposal' \in [id : Nat, status : Statuses, voters : Seq(Users),
                          accepted : SUBSET Users, proposed : Rules]
        /\ proposal'.id = proposal.id /\ proposal'.accepted = proposal.accepted /\ ~Pending'
    BY <1>1, <2>1, SyncedKeeps DEF Pending
  <2> QED BY <1>1, <2>1, <2>2, RosterStepKeeps
<1>4. CASE \E u \in Users : Lock(u) \/ Start(u)
  <2>1. /\ phase' \in {"LOCKED", "STARTED"} /\ started' \in BOOLEAN /\ ~Pending
        /\ UNCHANGED <<kind, roster, rules, revision, proposal, shown, said>>
    BY <1>1, <1>4 DEF Lock, Start
  <2>2. ~Pending'
    BY <2>1 DEF Pending
  <2> QED BY <1>1, <2>1, <2>2, RosterStepKeeps
<1> QED BY <1>2, <1>3, <1>4

LEMMA ShowKeeps ==
    ASSUME RulesInv, NEW u \in Users, Show(u)
    PROVE  RulesInv'
<1>1. RulesTypeOK'
  BY DEF RulesInv, RulesTypeOK, Show
<1>2. PendingForRoster' /\ NoneOpenWhenStarted' /\ VotesCounted'
  BY DEF RulesInv, PendingForRoster, NoneOpenWhenStarted, VotesCounted, Pending, Show
<1>3. RevisionsTell'
  BY DEF RulesInv, RulesTypeOK, RevisionsTell, Show
<1> QED BY <1>1, <1>2, <1>3 DEF RulesInv

LEMMA Inductive == RulesInv /\ [RulesNext]_ruleVars => RulesInv'
<1> SUFFICES ASSUME RulesInv, [RulesNext]_ruleVars PROVE RulesInv'
  OBVIOUS
<1>1. ASSUME NEW u \in Users, NEW r \in Rules, Propose(u, r) PROVE RulesInv'
  BY <1>1, ProposeKeeps
<1>2. ASSUME NEW u \in Users, NEW id \in 1..MaxProposals, NEW accept \in BOOLEAN,
             Vote(u, id, accept)
      PROVE RulesInv'
  BY <1>2, VoteKeeps
<1>3. ASSUME NEW u \in Users, Show(u) PROVE RulesInv'
  BY <1>3, ShowKeeps
<1>4. ASSUME NEW new \in Rosters, Reseat(new) \/ NextMatch(new) PROVE RulesInv'
  BY <1>4, ReseatKeeps
<1>5. ASSUME RoundOver \/ End \/ \E u \in Users : Lock(u) \/ Start(u) PROVE RulesInv'
  BY <1>5, PhaseKeeps
<1>6. CASE UNCHANGED ruleVars
  BY <1>6 DEF ruleVars, RulesInv, RulesTypeOK, PendingForRoster, NoneOpenWhenStarted, VotesCounted,
              RevisionsTell, Pending
<1> QED BY <1>1, <1>2, <1>3, <1>4, <1>5, <1>6 DEF RulesNext

\* Every reachable state has a well-typed table, a pending proposal only before the match
\* and only for the roster that sits now, and votes and revisions as described above.
THEOREM Invariance == RulesSpec => []RulesInv
BY RulesInitially, Inductive, PTL DEF RulesSpec

\* State types, for every instance.
THEOREM TypeCorrect == RulesSpec => []RulesTypeOK
<1>1. RulesInv => RulesTypeOK BY DEF RulesInv
<1> QED BY <1>1, Invariance, PTL

\* A pending proposal is one that the players now seated can decide, in every instance.
THEOREM Decidable == RulesSpec => []PendingForRoster
<1>1. RulesInv => PendingForRoster BY DEF RulesInv
<1> QED BY <1>1, Invariance, PTL

\* No match goes on with a proposal pending, in every instance.
THEOREM NoneOpen == RulesSpec => []NoneOpenWhenStarted
<1>1. RulesInv => NoneOpenWhenStarted BY DEF RulesInv
<1> QED BY <1>1, Invariance, PTL

-------------------------------------------------------------------------------

\* The steps that change rules are those that take a proposal into effect.
LEMMA RulesChange ==
    ASSUME [RulesNext]_ruleVars, rules' # rules
    PROVE  \E u \in Users :
             \/ \E r \in Rules : Propose(u, r)
             \/ \E id \in 1..MaxProposals, accept \in BOOLEAN : Vote(u, id, accept)
BY DEF RulesNext, ruleVars, Lock, Start, Show, Reseat, NextMatch, RoundOver, End

LEMMA ProposeAgreed ==
    ASSUME RulesInv, NEW u \in Users, NEW r \in Rules, Propose(u, r), rules' # rules
    PROVE  /\ ~started
           /\ proposal'.proposed = rules'
           /\ \A w \in Seated : <<w, proposal'.id, TRUE>> \in said'
           /\ \A w \in Users : <<w, proposal'.id, FALSE>> \notin said'
<1> USE ProposalAssumption
<1> DEFINE p == [id |-> proposal.id + 1, status |-> "PENDING", voters |-> roster,
                 accepted |-> {u}, proposed |-> r]
<1>1. p \in [id : Nat, status : Statuses, voters : Seq(Users), accepted : SUBSET Users,
             proposed : Rules]
  BY DEF RulesInv, RulesTypeOK, Statuses
<1>2. Len(roster) = 1 /\ Effect(p) /\ u = roster[1] /\ ~started
      /\ said' = said \cup {<<u, proposal.id + 1, TRUE>>}
  BY DEF Propose, Editable, Creator
<1>3. proposal'.id = proposal.id + 1 /\ proposal'.proposed = rules' /\ proposal.id \in Nat
  BY <1>1, <1>2, EffectTakes DEF RulesInv, RulesTypeOK
<1>4. Seated = {u}
  BY <1>2 DEF Seated
<1>5. ASSUME NEW w \in Users, <<w, proposal.id + 1, FALSE>> \in said'
      PROVE FALSE
  <2>1. <<w, proposal.id + 1, FALSE>> \in said
    BY <1>2, <1>5
  <2>2. proposal.id + 1 <= proposal.id
    BY <2>1 DEF RulesInv, VotesCounted
  <2> QED BY <2>2, <1>3
<1> QED BY <1>2, <1>3, <1>4, <1>5

LEMMA VoteAgreed ==
    ASSUME RulesInv, NEW u \in Users, NEW id \in 1..MaxProposals, NEW accept \in BOOLEAN,
           Vote(u, id, accept), rules' # rules
    PROVE  /\ ~started
           /\ proposal'.proposed = rules'
           /\ \A w \in Seated : <<w, proposal'.id, TRUE>> \in said'
           /\ \A w \in Users : <<w, proposal'.id, FALSE>> \notin said'
<1> DEFINE p == [proposal EXCEPT !.accepted = @ \cup {u}]
<1>1. /\ p \in [id : Nat, status : Statuses, voters : Seq(Users), accepted : SUBSET Users,
                proposed : Rules]
      /\ p.id = proposal.id /\ p.accepted = proposal.accepted \cup {u} /\ p.voters = proposal.voters
  BY DEF RulesInv, RulesTypeOK
<1>2. /\ accept /\ Effect(p) /\ \A i \in 1..Len(p.voters) : p.voters[i] \in p.accepted
      /\ id = proposal.id /\ Pending /\ said' = said \cup {<<u, id, accept>>}
  BY DEF Vote
<1>3. proposal'.id = proposal.id /\ proposal'.proposed = rules'
  BY <1>1, <1>2, EffectTakes DEF RulesInv
<1>4. proposal.voters = roster /\ ~started
  BY <1>2 DEF RulesInv, PendingForRoster, NoneOpenWhenStarted
<1>5. \A w \in Seated : w \in proposal.accepted \cup {u}
  BY <1>1, <1>2, <1>4 DEF Seated
<1>6. \A w \in proposal.accepted \cup {u} : <<w, proposal.id, TRUE>> \in said'
  BY <1>2 DEF RulesInv, VotesCounted
<1>7. \A w \in Users : <<w, proposal.id, FALSE>> \notin said'
  BY <1>2 DEF RulesInv, VotesCounted
<1> QED BY <1>3, <1>4, <1>5, <1>6, <1>7

\* Rules change by the agreement of everybody seated, whatever votes come late, twice or
\* from users who have left, in every instance.
THEOREM Unanimous == RulesSpec => AgreedByAll
<1>1. RulesInv /\ [RulesNext]_ruleVars =>
        [rules' # rules =>
           /\ proposal'.proposed = rules'
           /\ \A u \in Seated : <<u, proposal'.id, TRUE>> \in said'
           /\ \A u \in Users : <<u, proposal'.id, FALSE>> \notin said']_ruleVars
  BY RulesChange, ProposeAgreed, VoteAgreed
<1> QED BY <1>1, Invariance, PTL DEF RulesSpec, AgreedByAll

\* No rule changes in the middle of a match, in every instance.
THEOREM Fixed == RulesSpec => FixedOnceStarted
<1>1. RulesInv /\ [RulesNext]_ruleVars => [started => rules' = rules]_ruleVars
  BY RulesChange, ProposeAgreed, VoteAgreed
<1> QED BY <1>1, Invariance, PTL DEF RulesSpec, FixedOnceStarted

\* What a proposal was resolved to it stays, in every instance.
THEOREM Final == RulesSpec => ResolvedIsFinal
<1>1. RulesInv /\ [RulesNext]_ruleVars =>
        [proposal.id > 0 /\ ~Pending /\ proposal'.id = proposal.id => proposal' = proposal]_ruleVars
  <2> SUFFICES ASSUME RulesInv, [RulesNext]_ruleVars, ~Pending, proposal'.id = proposal.id
               PROVE  proposal' = proposal
    OBVIOUS
  <2>1. proposal \in [id : Nat, status : Statuses, voters : Seq(Users), accepted : SUBSET Users,
                      proposed : Rules]
    BY DEF RulesInv, RulesTypeOK
  <2>2. ASSUME NEW u \in Users, NEW r \in Rules, Propose(u, r) PROVE FALSE
    BY <2>1, <2>2 DEF Propose, Effect
  <2>3. ASSUME NEW u \in Users, NEW id \in 1..MaxProposals, NEW accept \in BOOLEAN,
               Vote(u, id, accept)
        PROVE FALSE
    BY <2>3 DEF Vote
  <2>4. ASSUME NEW new \in Rosters, Reseat(new) \/ NextMatch(new) PROVE proposal' = proposal
    BY <2>1, <2>4 DEF Reseat, NextMatch, Synced, Pending
  <2>5. CASE End
    BY <2>5 DEF End, Synced, Pending
  <2>6. CASE RoundOver \/ (\E u \in Users : Lock(u) \/ Start(u) \/ Show(u)) \/ UNCHANGED ruleVars
    BY <2>6 DEF RoundOver, Lock, Start, Show, ruleVars
  <2> QED BY <2>2, <2>3, <2>4, <2>5, <2>6 DEF RulesNext
<1> QED BY <1>1, Invariance, PTL DEF RulesSpec, ResolvedIsFinal

\* A Flush round starts with the rules its starter is shown, in every instance.
THEOREM Shown == RulesSpec => StartsAsShown
<1>1. RulesInv /\ [RulesNext]_ruleVars =>
        [kind = "flush" /\ phase # "STARTED" /\ phase' = "STARTED" =>
           shown[Creator].rules = rules]_ruleVars
  <2> SUFFICES ASSUME RulesInv, [RulesNext]_ruleVars, kind = "flush", phase # "STARTED", phase' = "STARTED"
               PROVE  shown[Creator].rules = rules
    OBVIOUS
  <2>1. \E u \in Users : Start(u)
    BY DEF RulesNext, ruleVars, Propose, Vote, Lock, Show, Reseat, NextMatch, RoundOver, End
  <2>2. PICK u \in Users : u = Creator /\ shown[u].revision = revision
    BY <2>1 DEF Start
  <2> QED BY <2>2 DEF RulesInv, RevisionsTell
<1> QED BY <1>1, Invariance, PTL DEF RulesSpec, StartsAsShown
-------------------------------------------------------------------------------
(* The tables of a room *)

CtlFields == {"snap", "busy", "command", "synced", "failed", "live", "open", "selected", "conflict",
              "active", "linked", "asked", "invited", "entered"}
OpTypes == op = NoOp \/ (op.kind \in Operations /\ op.phase \in {"sent", "ok", "refused"})
PollTypes ==
    \/ poll = Due
    \/ /\ poll = [phase |-> poll.phase, valid |-> poll.valid, had |-> poll.had, snap |-> poll.snap]
       /\ poll.phase \in {"told", "acting", "acted"} /\ poll.valid \in BOOLEAN /\ poll.had \in BOOLEAN
ControlTypes ==
    /\ CtlFields \subseteq DOMAIN ctl /\ ctl.busy \in BOOLEAN
    /\ lobby.version \in Nat /\ ctl.snap.version \in Nat /\ renewals \in Nat
    /\ OpTypes /\ PollTypes

Unresolved == op # NoOp \/ ctl.command # NoId
\* What is unresolved disables the controls, and it is one thing only; a new client forgets an action.
OneUnresolved ==
    /\ Unresolved => ctl.busy
    /\ ctl.busy /\ renewals = 0 => Unresolved
    /\ op # NoOp => ctl.command = NoId
\* A refresh knows whether an action is pending; it counts only if no operation has begun since.
PollFits ==
    poll # Due => /\ poll.had <=> ctl.command # NoId
                  /\ poll.phase \in {"acting", "acted"} => poll.had /\ poll.valid
                  /\ poll.valid /\ op # NoOp => op.kind = "leavePrevious"
\* No answer under way is older than what is shown.
Fresher ==
    /\ ctl.snap.version <= lobby.version
    /\ poll # Due /\ poll.valid => poll.snap.version \in Nat /\ ctl.snap.version <= poll.snap.version
                                   /\ poll.snap.version <= lobby.version
    /\ op # NoOp /\ op.phase = "ok" /\ op.kind # "leavePrevious" =>
         op.snap.version \in Nat /\ ctl.snap.version <= op.snap.version /\ op.snap.version <= lobby.version

\* What is asked of a table, by a link or an invitation, is one of its entries.
AskedFits == ctl.asked.entry \in Entries /\ ctl.linked.entry \in Entries

ControlInv == ControlTypes /\ OneUnresolved /\ PollFits /\ Fresher

LEMMA OpShapes ==
    /\ NoOp.kind = "none"
    /\ \A f : f.kind \in Operations => f # NoOp
BY DEF NoOp, Operations, Entries

LEMMA PollShapes ==
    /\ Due.phase = "due" /\ \A p : p.phase \in {"told", "acting", "acted"} => p # Due
BY DEF Due

LEMMA SnapshotVersion == \A s, t : Snapshot(s, t).version = s.version
BY DEF Snapshot

\* A new snapshot, and what follows from it, concerns only what is shown.
LEMMA RenderedFacts ==
    ASSUME NEW c, CtlFields \subseteq DOMAIN c, NEW snap
    PROVE  /\ CtlFields \subseteq DOMAIN Rendered(c, snap)
           /\ Rendered(c, snap).snap = snap /\ Rendered(c, snap).busy = c.busy
           /\ Rendered(c, snap).command = c.command
           /\ Rendered(c, snap).asked = c.asked /\ Rendered(c, snap).linked = c.linked
<1> DEFINE cleared == IF c.conflict \in Ids \ snap.tables THEN [c EXCEPT !.conflict = NoId] ELSE c
           opens == /\ c.asked.entry = "watch" /\ c.asked.match = snap.match /\ snap.match # NoId
                    /\ snap.stage # "ended" /\ c.invited # c.asked.match
           opened == IF opens THEN [cleared EXCEPT !.invited = snap.match, !.live = TRUE, !.open = TRUE] ELSE cleared
           ends == snap.stage = "ended" /\ <<c.snap.match, c.snap.stage>> # <<snap.match, snap.stage>>
<1>1. Rendered(c, snap) = [opened EXCEPT !.snap = snap, !.selected = IF ends THEN NoId ELSE @,
                                         !.live = @ /\ ~ends, !.open = @ /\ ~ends]
  BY DEF Rendered
<1>2. /\ CtlFields \subseteq DOMAIN cleared /\ cleared.busy = c.busy /\ cleared.command = c.command
      /\ cleared.asked = c.asked /\ cleared.linked = c.linked
  BY DEF CtlFields
<1> HIDE DEF cleared, opens, ends
<1>3. /\ CtlFields \subseteq DOMAIN opened /\ opened.busy = c.busy /\ opened.command = c.command
      /\ opened.asked = c.asked /\ opened.linked = c.linked
  BY <1>2 DEF CtlFields
<1> HIDE DEF opened
<1>4. QED BY <1>1, <1>3 DEF CtlFields

LEMMA ControlInitially == TableInit => ControlInv
<1> SUFFICES ASSUME TableInit PROVE ControlInv
  OBVIOUS
<1>1. PICK asked :
         ctl = [snap |-> NoSnapshot, live |-> FALSE, open |-> FALSE, selected |-> asked.match, busy |-> FALSE,
                synced |-> FALSE, failed |-> FALSE, command |-> NoId, conflict |-> NoId, active |-> TRUE,
                linked |-> asked, asked |-> asked, invited |-> NoId, entered |-> [match |-> NoId, entry |-> "watch"]]
  BY DEF TableInit
<1>2. poll = Due /\ op = NoOp /\ renewals = 0 /\ lobby.version = 0
  BY DEF TableInit
<1>3. CtlFields \subseteq DOMAIN ctl /\ ctl.busy \in BOOLEAN /\ ~ctl.busy /\ ctl.command = NoId /\ ctl.snap.version = 0
  BY <1>1 DEF CtlFields, NoSnapshot
<1>4. ControlTypes
  BY <1>2, <1>3 DEF ControlTypes, OpTypes, PollTypes
<1>5. OneUnresolved /\ PollFits
  BY <1>2, <1>3 DEF OneUnresolved, Unresolved, PollFits
<1>6. Fresher
  BY <1>2, <1>3 DEF Fresher
<1>7. QED BY <1>4, <1>5, <1>6 DEF ControlInv

LEMMA AskedInitially == TableInit => AskedFits
<1> SUFFICES ASSUME TableInit PROVE AskedFits
  OBVIOUS
<1>1. PICK asked \in {[match |-> NoId, entry |-> "watch"]} \cup [match : Known, entry : Entries] :
         ctl.asked = asked /\ ctl.linked = asked
  BY DEF TableInit
<1>2. asked.entry \in Entries
  BY DEF Entries
<1>3. QED BY <1>1, <1>2 DEF AskedFits

\* A step that touches nothing but the windows, or the server.
LEMMA ShownKept ==
    ASSUME ControlInv, CtlFields \subseteq DOMAIN ctl', ctl'.busy = ctl.busy, ctl'.command = ctl.command,
           ctl'.snap = ctl.snap, UNCHANGED <<poll, op, renewals>>,
           lobby'.version \in Nat, lobby.version <= lobby'.version
    PROVE  ControlInv'
<1>1. ControlTypes' /\ OneUnresolved' /\ PollFits'
  BY DEF ControlInv, ControlTypes, OpTypes, PollTypes, OneUnresolved, Unresolved, PollFits
<1>2. Fresher'
  <2>1. ctl'.snap.version <= lobby'.version
    BY DEF ControlInv, ControlTypes, Fresher
  <2>2. poll # Due /\ poll.valid => poll.snap.version \in Nat /\ ctl'.snap.version <= poll.snap.version
                                    /\ poll.snap.version <= lobby'.version
    BY DEF ControlInv, ControlTypes, Fresher
  <2>3. op # NoOp /\ op.phase = "ok" /\ op.kind # "leavePrevious" =>
         op.snap.version \in Nat /\ ctl'.snap.version <= op.snap.version /\ op.snap.version <= lobby'.version
    BY DEF ControlInv, ControlTypes, Fresher
  <2>4. QED BY <2>1, <2>2, <2>3 DEF Fresher
<1>3. QED BY <1>1, <1>2 DEF ControlInv

LEMMA ChangedVersion ==
    ASSUME lobby.version \in Nat
    PROVE  /\ \A t, stage : Stage(t, stage).version = lobby.version + 1
           /\ \A t, mine : Seat(t, mine).version = lobby.version + 1
           /\ \A mine : Added(mine).version = lobby.version + 1
           /\ lobby.version + 1 \in Nat /\ lobby.version <= lobby.version + 1
BY DEF Stage, Seat, Added, Changed

LEMMA WindowsKeep ==
    ASSUME ControlInv, CollapseGame \/ OpenDialog \/ StayAsObserver \/ TablesElsewhere \/ UNCHANGED tableVars
    PROVE  ControlInv' /\ ctl'.snap.version >= ctl.snap.version
<1>1. CtlFields \subseteq DOMAIN ctl /\ lobby.version \in Nat /\ ctl.snap.version \in Nat
  BY DEF ControlInv, ControlTypes
<1>2. UNCHANGED <<poll, op, renewals>>
  BY DEF CollapseGame, OpenDialog, StayAsObserver, TablesElsewhere, Window, tableVars
<1>3. CtlFields \subseteq DOMAIN ctl' /\ ctl'.busy = ctl.busy /\ ctl'.command = ctl.command /\ ctl'.snap = ctl.snap
  BY <1>1 DEF CollapseGame, OpenDialog, StayAsObserver, TablesElsewhere, Window, tableVars, CtlFields
<1>4. lobby' = lobby \/ lobby'.version = lobby.version + 1
  BY <1>1, ChangedVersion DEF CollapseGame, OpenDialog, StayAsObserver, TablesElsewhere, Window, tableVars
<1>5. lobby'.version \in Nat /\ lobby.version <= lobby'.version
  BY <1>1, <1>4
<1>6. QED BY <1>1, <1>2, <1>3, <1>5, ShownKept

\* The effect of refreshing runs again.
LEMMA TickedKeeps ==
    ASSUME ControlInv, NEW c, CtlFields \subseteq DOMAIN c, c.busy \in BOOLEAN, c.snap = ctl.snap,
           Ticked(c), UNCHANGED lobby,
           \/ c.busy = ctl.busy /\ c.command = ctl.command /\ UNCHANGED renewals
           \/ c.busy = TRUE /\ c.command # NoId /\ op = NoOp /\ UNCHANGED renewals
           \/ c.busy = ctl.busy /\ c.command = NoId /\ renewals' = renewals + 1
    PROVE  ControlInv' /\ ctl'.snap.version >= ctl.snap.version
<1>1. /\ CtlFields \subseteq DOMAIN ctl' /\ ctl'.command = c.command /\ ctl'.snap = ctl.snap /\ ctl'.busy \in BOOLEAN
      /\ ctl'.busy <=> c.busy /\ (op = NoOp \/ ~Aborts)
  <2> DEFINE idle == c.busy /\ (op = NoOp \/ ~Aborts)
  <2>1. ctl' = [c EXCEPT !.synced = FALSE, !.busy = idle] /\ idle \in BOOLEAN
    BY DEF Ticked
  <2>2. idle <=> c.busy /\ (op = NoOp \/ ~Aborts)
    OBVIOUS
  <2> HIDE DEF idle
  <2>3. CtlFields \subseteq DOMAIN ctl' /\ ctl'.command = c.command /\ ctl'.snap = c.snap /\ ctl'.busy = idle
    BY <2>1 DEF CtlFields
  <2>4. QED BY <2>1, <2>2, <2>3
<1>2. poll' = Due /\ op' = IF Aborts THEN NoOp ELSE op
  BY DEF Ticked
<1>3. (op = NoOp => Aborts) /\ (op # NoOp /\ ~Aborts => op.kind = "leavePrevious")
  BY OpShapes DEF Aborts
<1>4. lobby.version \in Nat /\ ctl.snap.version \in Nat /\ renewals \in Nat /\ OpTypes /\ lobby' = lobby
  BY DEF ControlInv, ControlTypes
<1>5. renewals' \in Nat /\ (renewals' = 0 => UNCHANGED renewals)
  BY <1>4
<1>6. OpTypes'
  BY <1>2, <1>4 DEF OpTypes
<1>7. PollTypes' /\ PollFits'
  BY <1>2 DEF PollTypes, PollFits
<1>8. ControlTypes'
  BY <1>1, <1>4, <1>5, <1>6, <1>7 DEF ControlTypes
<1>9. OneUnresolved'
  BY <1>1, <1>2, <1>3, <1>5 DEF ControlInv, OneUnresolved, Unresolved
<1>10. Fresher'
  BY <1>1, <1>2, <1>3, <1>4 DEF ControlInv, Fresher
<1>11. ctl'.snap.version >= ctl.snap.version
  BY <1>1, <1>4
<1>12. QED BY <1>7, <1>8, <1>9, <1>10, <1>11 DEF ControlInv

LEMMA TicksKeep ==
    ASSUME ControlInv, GameAction \/ RetryShown \/ Expire \/ Renew \/ \E t \in Ids : Invited(t)
    PROVE  ControlInv' /\ ctl'.snap.version >= ctl.snap.version
<1>1. CtlFields \subseteq DOMAIN ctl /\ ctl.busy \in BOOLEAN
  BY DEF ControlInv, ControlTypes
<1>2. CASE GameAction
  <2> DEFINE c == [ctl EXCEPT !.command = ctl.snap.match, !.busy = TRUE]
  <2>1. CtlFields \subseteq DOMAIN c /\ c.busy = TRUE /\ c.snap = ctl.snap /\ c.command = ctl.snap.match
    BY <1>1 DEF CtlFields
  <2> HIDE DEF c
  <2>2. Ticked(c) /\ UNCHANGED <<lobby, renewals>> /\ op = NoOp /\ ctl.snap.match # NoId
    BY <1>2 DEF GameAction, CanSend, Visible, c
  <2>3. c.busy \in BOOLEAN
    BY <2>1
  <2>4. QED BY <2>1, <2>2, <2>3, TickedKeeps
<1>3. CASE RetryShown
  BY <1>1, <1>3, TickedKeeps DEF RetryShown
<1>4. CASE Expire
  <2> DEFINE c == [ctl EXCEPT !.active = FALSE]
  <2>1. CtlFields \subseteq DOMAIN c /\ c.busy = ctl.busy /\ c.snap = ctl.snap /\ c.command = ctl.command
    BY <1>1 DEF CtlFields
  <2> HIDE DEF c
  <2>2. Ticked(c) /\ UNCHANGED <<lobby, renewals>>
    BY <1>4 DEF Expire, c
  <2>3. QED BY <1>1, <2>1, <2>2, TickedKeeps
<1>5. CASE Renew
  <2> DEFINE c == [ctl EXCEPT !.active = TRUE, !.command = NoId]
  <2>1. CtlFields \subseteq DOMAIN c /\ c.busy = ctl.busy /\ c.snap = ctl.snap /\ c.command = NoId
    BY <1>1 DEF CtlFields
  <2> HIDE DEF c
  <2>2. Ticked(c) /\ UNCHANGED lobby /\ renewals' = renewals + 1
    BY <1>5 DEF Renew, c
  <2>3. QED BY <1>1, <2>1, <2>2, TickedKeeps
<1>6. ASSUME NEW t \in Ids, Invited(t) PROVE ControlInv' /\ ctl'.snap.version >= ctl.snap.version
  <2>1. PICK asked : Ticked(Rendered([ctl EXCEPT !.asked = asked, !.selected = t], ctl.snap))
    BY <1>6 DEF Invited
  <2> DEFINE c == [ctl EXCEPT !.asked = asked, !.selected = t]
             d == Rendered(c, ctl.snap)
  <2>2. CtlFields \subseteq DOMAIN c /\ c.busy = ctl.busy /\ c.command = ctl.command
    BY <1>1 DEF CtlFields
  <2>3. Ticked(d)
    BY <2>1
  <2> HIDE DEF c
  <2>4. CtlFields \subseteq DOMAIN d /\ d.busy = ctl.busy /\ d.snap = ctl.snap /\ d.command = ctl.command
    BY <2>2, RenderedFacts
  <2> HIDE DEF d
  <2>5. UNCHANGED <<lobby, renewals>>
    BY <1>6 DEF Invited
  <2>6. QED BY <1>1, <2>3, <2>4, <2>5, TickedKeeps
<1>7. QED BY <1>2, <1>3, <1>4, <1>5, <1>6

\* ---- Refreshing
LEMMA PollReadKeeps == ASSUME ControlInv, PollRead PROVE ControlInv' /\ ctl'.snap.version >= ctl.snap.version
<1> DEFINE had == ctl.command # NoId
           snap == Snapshot(lobby, ctl.selected)
<1>1. poll' = [phase |-> "told", valid |-> TRUE, had |-> had, snap |-> snap] /\ UNCHANGED <<lobby, ctl, op, renewals>> /\ op = NoOp
  BY DEF PollRead
<1>2. had \in BOOLEAN /\ (had <=> ctl.command # NoId) /\ snap.version = lobby.version
  BY SnapshotVersion
<1> HIDE DEF had, snap
<1>3. poll'.phase = "told" /\ poll'.valid = TRUE /\ poll'.had = had /\ poll'.snap = snap
  BY <1>1
<1>4. ControlTypes'
  BY <1>1, <1>2, <1>3 DEF ControlInv, ControlTypes, OpTypes, PollTypes
<1>5. OneUnresolved'
  BY <1>1 DEF ControlInv, OneUnresolved, Unresolved
<1>6. PollFits'
  BY <1>1, <1>2, <1>3 DEF PollFits
<1>7. Fresher'
  BY <1>1, <1>2, <1>3 DEF ControlInv, ControlTypes, Fresher
<1>8. QED BY <1>1, <1>4, <1>5, <1>6, <1>7 DEF ControlInv, ControlTypes

\* What a refresh settles, once it has been told.
LEMMA SettledKeeps ==
    ASSUME ControlInv, poll # Due, poll' = Due, UNCHANGED <<lobby, op, renewals>>,
           NEW c, CtlFields \subseteq DOMAIN c, c.busy = ctl.busy, c.snap = ctl.snap,
           \/ c.command = ctl.command /\ (poll.valid => ~poll.had)
           \/ c.command = NoId /\ poll.had /\ poll.valid,
           Settled(c, poll.snap)
    PROVE  ControlInv' /\ ctl'.snap.version >= ctl.snap.version
<1>1. poll.valid \in BOOLEAN /\ poll.had \in BOOLEAN /\ ctl.busy \in BOOLEAN /\ ctl.snap.version \in Nat
  BY DEF ControlInv, ControlTypes, PollTypes
<1>2. CASE ~poll.valid
  <2>1. ctl' = c /\ c.command = ctl.command
    BY <1>2 DEF Settled
  <2>2. ControlTypes'
    BY <1>1, <2>1 DEF ControlInv, ControlTypes, OpTypes, PollTypes
  <2>3. OneUnresolved' /\ PollFits'
    BY <1>1, <2>1 DEF ControlInv, OneUnresolved, Unresolved, PollFits
  <2>4. Fresher'
    BY <2>1 DEF ControlInv, Fresher
  <2>5. QED BY <1>1, <2>1, <2>2, <2>3, <2>4 DEF ControlInv
<1>3. CASE poll.valid
  <2> DEFINE busy == c.busy /\ ~poll.had
             d == [c EXCEPT !.synced = TRUE, !.failed = FALSE, !.busy = busy]
  <2>1. busy \in BOOLEAN /\ (busy <=> ctl.busy /\ ~poll.had) /\ ctl' = Rendered(d, poll.snap)
    BY <1>3 DEF Settled
  <2> HIDE DEF busy
  <2>2. CtlFields \subseteq DOMAIN d /\ d.busy = busy /\ d.command = c.command
    BY DEF CtlFields
  <2> HIDE DEF d
  <2>3. CtlFields \subseteq DOMAIN ctl' /\ ctl'.busy = busy /\ ctl'.command = c.command /\ ctl'.snap = poll.snap
    BY <2>1, <2>2, RenderedFacts
  <2>4. poll.snap.version \in Nat /\ ctl.snap.version <= poll.snap.version /\ poll.snap.version <= lobby.version
    BY <1>3 DEF ControlInv, Fresher
  <2>5. ControlTypes'
    BY <2>1, <2>3, <2>4 DEF ControlInv, ControlTypes, OpTypes, PollTypes
  <2>6. (op # NoOp => op.kind = "leavePrevious") /\ (poll.had <=> ctl.command # NoId)
    BY <1>3 DEF ControlInv, PollFits
  <2>7. OneUnresolved'
    BY <1>3, <2>1, <2>3, <2>6 DEF ControlInv, OneUnresolved, Unresolved
  <2>8. PollFits'
    BY DEF PollFits
  <2>9. Fresher'
    BY <2>3, <2>4, <2>6 DEF Fresher
  <2>10. QED BY <1>1, <2>3, <2>4, <2>5, <2>7, <2>8, <2>9 DEF ControlInv
<1>4. QED BY <1>1, <1>2, <1>3

\* An action on its way, and after it.
LEMMA ActingKeeps ==
    ASSUME ControlInv, poll # Due, poll.had, poll.valid, NEW acting \in {"acting", "acted"}, NEW snap,
           poll' = [poll EXCEPT !.phase = acting, !.snap = snap], UNCHANGED <<ctl, op, renewals>>,
           lobby'.version \in Nat, lobby.version <= lobby'.version,
           snap = poll.snap \/ snap.version = lobby'.version
    PROVE  ControlInv' /\ ctl'.snap.version >= ctl.snap.version
<1>1. /\ poll = [phase |-> poll.phase, valid |-> poll.valid, had |-> poll.had, snap |-> poll.snap]
      /\ poll.valid \in BOOLEAN /\ poll.had \in BOOLEAN /\ ctl.snap.version \in Nat /\ lobby.version \in Nat
  BY DEF ControlInv, ControlTypes, PollTypes
<1>2. poll' = [phase |-> acting, valid |-> poll.valid, had |-> poll.had, snap |-> snap]
  BY <1>1
<1>3. poll'.phase = acting /\ poll'.valid = poll.valid /\ poll'.had = poll.had /\ poll'.snap = snap
  BY <1>2
<1>4. PollTypes'
  BY <1>1, <1>2, <1>3 DEF PollTypes
<1>5. ControlTypes' /\ OneUnresolved'
  BY <1>4 DEF ControlInv, ControlTypes, OpTypes, OneUnresolved, Unresolved
<1>6. PollFits'
  BY <1>3 DEF ControlInv, PollFits
<1>7. snap.version \in Nat /\ ctl.snap.version <= snap.version /\ snap.version <= lobby'.version
  BY <1>1 DEF ControlInv, Fresher
<1>8. Fresher'
  <2>1. ctl'.snap.version <= lobby'.version /\ ctl'.snap = ctl.snap
    BY <1>1 DEF ControlInv, Fresher
  <2>2. op # NoOp /\ op.phase = "ok" /\ op.kind # "leavePrevious" =>
         op.snap.version \in Nat /\ ctl.snap.version <= op.snap.version /\ op.snap.version <= lobby'.version
    BY <1>1 DEF ControlInv, Fresher
  <2>3. QED BY <1>3, <1>7, <2>1, <2>2 DEF Fresher
<1>9. QED BY <1>1, <1>5, <1>6, <1>8 DEF ControlInv, ControlTypes

LEMMA PollToldKeeps == ASSUME ControlInv, PollTold PROVE ControlInv' /\ ctl'.snap.version >= ctl.snap.version
<1>1. poll # Due /\ UNCHANGED <<lobby, op, renewals>> /\ CtlFields \subseteq DOMAIN ctl
  BY PollShapes DEF PollTold, ControlInv, ControlTypes
<1>2. poll.valid \in BOOLEAN /\ poll.had \in BOOLEAN /\ ctl.snap.version \in Nat
  BY <1>1 DEF ControlInv, ControlTypes, PollTypes
<1>3. CASE poll.had /\ poll.valid /\ poll.snap.match = ctl.command
  <2>1. poll' = [poll EXCEPT !.phase = "acting"] /\ UNCHANGED ctl
    BY <1>3 DEF PollTold
  <2>2. poll'.phase = "acting" /\ poll'.snap = poll.snap
    BY <1>1, <2>1 DEF ControlInv, ControlTypes, PollTypes
  <2>3. poll' = [poll EXCEPT !.phase = "acting", !.snap = poll.snap]
    BY <1>1, <2>1 DEF ControlInv, ControlTypes, PollTypes
  <2>4. lobby'.version \in Nat /\ lobby.version <= lobby'.version
    BY <1>1 DEF ControlInv, ControlTypes
  <2>5. QED BY <1>1, <1>2, <1>3, <2>1, <2>3, <2>4, ActingKeeps
<1>4. CASE ~(poll.had /\ poll.valid /\ poll.snap.match = ctl.command)
  <2> DEFINE c == IF poll.had /\ poll.valid THEN [ctl EXCEPT !.command = NoId] ELSE ctl
  <2>1. CtlFields \subseteq DOMAIN c /\ c.busy = ctl.busy /\ c.snap = ctl.snap
    BY <1>1 DEF CtlFields
  <2>2. \/ c.command = ctl.command /\ (poll.valid => ~poll.had)
        \/ c.command = NoId /\ poll.had /\ poll.valid
    BY <1>1, <1>2 DEF CtlFields
  <2>3. poll' = Due /\ Settled(c, poll.snap)
    BY <1>4 DEF PollTold
  <2> HIDE DEF c
  <2>4. QED BY <1>1, <2>1, <2>2, <2>3, SettledKeeps
<1>5. QED BY <1>3, <1>4

LEMMA ActsKeep ==
    ASSUME ControlInv, ActServed \/ ActTaken \/ PollFails
    PROVE  ControlInv' /\ ctl'.snap.version >= ctl.snap.version
<1>1. CtlFields \subseteq DOMAIN ctl /\ lobby.version \in Nat /\ ctl.snap.version \in Nat /\ PollTypes
  BY DEF ControlInv, ControlTypes
<1>2. CASE ActServed
  <2>1. poll # Due /\ poll.had /\ poll.valid /\ UNCHANGED <<ctl, op, renewals>>
    BY <1>2, PollShapes DEF ActServed, ControlInv, PollFits
  <2>2. CASE poll' = [poll EXCEPT !.phase = "acted", !.snap = Snapshot(lobby', ctl.command)]
             /\ (lobby' = lobby \/ \E stage \in {"started", "finished"} : lobby' = Stage(ctl.command, stage))
    <3>1. lobby' = lobby \/ lobby'.version = lobby.version + 1
      BY <1>1, <2>2, ChangedVersion
    <3>2. lobby'.version \in Nat /\ lobby.version <= lobby'.version
      BY <1>1, <3>1
    <3>3. Snapshot(lobby', ctl.command).version = lobby'.version
      BY SnapshotVersion
    <3>4. QED BY <2>1, <2>2, <3>2, <3>3, ActingKeeps
  <2>3. CASE UNCHANGED lobby /\ poll' = [poll EXCEPT !.phase = "acted"]
    <3>1. poll' = [poll EXCEPT !.phase = "acted", !.snap = poll.snap]
      BY <1>1, <2>1, <2>3 DEF PollTypes
    <3>2. lobby'.version \in Nat /\ lobby.version <= lobby'.version
      BY <1>1, <2>3
    <3>3. QED BY <2>1, <3>1, <3>2, ActingKeeps
  <2>4. QED BY <1>2, <2>2, <2>3 DEF ActServed
<1>3. CASE ActTaken
  <2> DEFINE c == [ctl EXCEPT !.command = NoId]
  <2>1. CtlFields \subseteq DOMAIN c /\ c.busy = ctl.busy /\ c.snap = ctl.snap /\ c.command = NoId
    BY <1>1 DEF CtlFields
  <2> HIDE DEF c
  <2>2. poll # Due /\ poll.had /\ poll.valid
    BY <1>3, PollShapes DEF ActTaken, ControlInv, PollFits
  <2>3. Settled(c, poll.snap) /\ poll' = Due /\ UNCHANGED <<lobby, op, renewals>>
    BY <1>3 DEF ActTaken, c
  <2>4. QED BY <2>1, <2>2, <2>3, SettledKeeps
<1>4. CASE PollFails
  <2>1. CtlFields \subseteq DOMAIN ctl' /\ ctl'.busy = ctl.busy /\ ctl'.command = ctl.command /\ ctl'.snap = ctl.snap
    BY <1>1, <1>4 DEF PollFails, CtlFields
  <2>2. poll' = Due /\ UNCHANGED <<lobby, op, renewals>>
    BY <1>4 DEF PollFails
  <2>3. ControlTypes' /\ OneUnresolved' /\ PollFits'
    BY <2>1, <2>2 DEF ControlInv, ControlTypes, OpTypes, PollTypes, OneUnresolved, Unresolved, PollFits
  <2>4. Fresher'
    BY <2>1, <2>2 DEF ControlInv, Fresher
  <2>5. QED BY <1>1, <2>1, <2>3, <2>4 DEF ControlInv
<1>5. QED BY <1>2, <1>3, <1>4

\* ---- Operations
LEMMA WithdrawnFacts ==
    ASSUME NEW p, NEW q, p = [phase |-> p.phase, valid |-> p.valid, had |-> p.had, snap |-> p.snap],
           q = [p EXCEPT !.valid = FALSE]
    PROVE  /\ q = [phase |-> p.phase, valid |-> FALSE, had |-> p.had, snap |-> p.snap]
           /\ q.phase = p.phase /\ q.valid = FALSE /\ q.had = p.had /\ q.snap = p.snap
OBVIOUS

LEMMA BeganKeeps ==
    ASSUME ControlInv, ~ctl.busy, NEW which \in Operations, NEW t, NEW c, CtlFields \subseteq DOMAIN c,
           c.busy \in BOOLEAN, c.busy, c.snap = ctl.snap, c.command = ctl.command, ctl' = c,
           op' = [kind |-> which, table |-> t, valid |-> TRUE, phase |-> "sent"],
           poll' = IF poll = Due \/ which = "leavePrevious" THEN poll ELSE [poll EXCEPT !.valid = FALSE],
           UNCHANGED <<lobby, renewals>>
    PROVE  ControlInv' /\ ctl'.snap.version >= ctl.snap.version
<1>1. op'.kind = which /\ op'.phase = "sent" /\ op' # NoOp /\ op = NoOp /\ ctl.command = NoId
  BY OpShapes DEF ControlInv, OneUnresolved, Unresolved
<1>2. \/ poll' = Due \/ (poll' = poll /\ which = "leavePrevious")
      \/ poll # Due /\ poll' = [poll EXCEPT !.valid = FALSE]
  OBVIOUS
<1>3. PollTypes /\ ctl.snap.version \in Nat
  BY DEF ControlInv, ControlTypes
<1>4. CASE poll' = Due \/ (poll' = poll /\ which = "leavePrevious")
  <2>1. PollTypes' /\ PollFits'
    BY <1>1, <1>3, <1>4 DEF ControlInv, PollTypes, PollFits
  <2>2. ControlTypes' /\ OneUnresolved'
    BY <1>1, <2>1 DEF ControlInv, ControlTypes, OpTypes, OneUnresolved, Unresolved
  <2>3. Fresher'
    BY <1>1, <1>4 DEF ControlInv, Fresher
  <2>4. QED BY <1>3, <2>1, <2>2, <2>3 DEF ControlInv, ControlTypes
<1>5. CASE poll # Due /\ poll' = [poll EXCEPT !.valid = FALSE]
  <2>1. poll = [phase |-> poll.phase, valid |-> poll.valid, had |-> poll.had, snap |-> poll.snap]
    BY <1>3, <1>5 DEF PollTypes
  <2>2. /\ poll' = [phase |-> poll.phase, valid |-> FALSE, had |-> poll.had, snap |-> poll.snap]
        /\ poll'.phase = poll.phase /\ poll'.valid = FALSE /\ poll'.had = poll.had /\ poll'.snap = poll.snap
    BY <1>5, <2>1, WithdrawnFacts
  <2>3. poll.phase \notin {"acting", "acted"} /\ ~poll.had
    BY <1>1, <1>5 DEF ControlInv, PollFits
  <2>4. PollTypes'
    BY <1>3, <1>5, <2>2 DEF PollTypes
  <2>5. PollFits'
    BY <1>1, <2>2, <2>3 DEF PollFits
  <2>6. ControlTypes' /\ OneUnresolved'
    <3>1. ControlTypes'
      BY <1>1, <2>4 DEF ControlInv, ControlTypes, OpTypes
    <3>2. OneUnresolved'
      BY <1>1 DEF OneUnresolved, Unresolved
    <3>3. QED BY <3>1, <3>2
  <2>7. Fresher'
    BY <1>1, <2>2 DEF ControlInv, Fresher
  <2>8. QED BY <1>3, <2>5, <2>6, <2>7 DEF ControlInv, ControlTypes
<1>6. QED BY <1>2, <1>4, <1>5

LEMMA StartsKeep ==
    ASSUME ControlInv, AskedFits,
           \/ ReturnToGame \/ Join \/ CreateTable \/ LobbyAction \/ AutoEnter \/ LeavePrevious
           \/ \E t \in Ids : \E entry \in CardEntries(t) : EnterTable(t, entry)
    PROVE  ControlInv' /\ ctl'.snap.version >= ctl.snap.version
<1>1. CtlFields \subseteq DOMAIN ctl /\ ctl.busy \in BOOLEAN
  BY DEF ControlInv, ControlTypes
<1>2. ASSUME NEW which \in Operations, NEW t, Began(which, t), ~ctl.busy
      PROVE  ControlInv' /\ ctl'.snap.version >= ctl.snap.version
  <2> DEFINE c == [ctl EXCEPT !.busy = TRUE]
  <2>1. CtlFields \subseteq DOMAIN c /\ c.busy = TRUE /\ c.snap = ctl.snap /\ c.command = ctl.command
    BY <1>1 DEF CtlFields
  <2>2. /\ ctl' = c /\ op' = [kind |-> which, table |-> t, valid |-> TRUE, phase |-> "sent"]
        /\ poll' = IF poll = Due \/ which = "leavePrevious" THEN poll ELSE [poll EXCEPT !.valid = FALSE]
        /\ UNCHANGED <<lobby, renewals>>
    BY <1>2 DEF Began
  <2> HIDE DEF c
  <2>3. c.busy \in BOOLEAN /\ c.busy
    BY <2>1
  <2>4. QED BY <1>2, <2>1, <2>2, <2>3, BeganKeeps
<1>3. CASE AutoEnter
  <2>1. PICK which, t, entered :
           /\ which = ctl.asked.entry /\ t = ctl.asked.match /\ entered = ctl.asked
           /\ op' = [kind |-> which, table |-> t, valid |-> TRUE, phase |-> "sent"]
           /\ ctl' = [ctl EXCEPT !.busy = TRUE, !.entered = entered]
           /\ poll' = IF poll = Due THEN poll ELSE [poll EXCEPT !.valid = FALSE]
           /\ UNCHANGED <<lobby, renewals>> /\ ~ctl.busy
    BY <1>3 DEF AutoEnter, UiBusy
  <2>2. which \in Operations /\ which # "leavePrevious"
    BY <2>1 DEF AskedFits, Operations, Entries
  <2> DEFINE c == [ctl EXCEPT !.busy = TRUE, !.entered = entered]
  <2>3. CtlFields \subseteq DOMAIN c /\ c.busy = TRUE /\ c.snap = ctl.snap /\ c.command = ctl.command
    BY <1>1 DEF CtlFields
  <2>4. ctl' = c
    BY <2>1
  <2> HIDE DEF c
  <2>5. c.busy \in BOOLEAN /\ c.busy
    BY <2>3
  <2>6. QED BY <2>1, <2>2, <2>3, <2>4, <2>5, BeganKeeps
<1>4. CASE ReturnToGame \/ Join \/ CreateTable \/ LobbyAction \/ LeavePrevious
  <2>1. \E which \in Operations : \E t : Began(which, t) /\ ~ctl.busy
    BY <1>4 DEF ReturnToGame, Join, CreateTable, LobbyAction, LeavePrevious, UiBusy, Operations
  <2>2. QED BY <1>2, <2>1
<1>5. ASSUME NEW t \in Ids, NEW entry \in CardEntries(t), EnterTable(t, entry)
      PROVE  ControlInv' /\ ctl'.snap.version >= ctl.snap.version
  <2>1. entry \in Operations /\ ~ctl.busy /\ Began(entry, t)
    BY <1>5 DEF CardEntries, Operations, Entries, EnterTable, UiBusy
  <2>2. QED BY <1>2, <2>1
<1>6. QED BY <1>3, <1>4, <1>5

LEMMA OpServedKeeps == ASSUME ControlInv, OpServed PROVE ControlInv' /\ ctl'.snap.version >= ctl.snap.version
<1>1. lobby.version \in Nat /\ ctl.snap.version \in Nat /\ op # NoOp /\ op.kind \in Operations
  BY DEF OpServed, ControlInv, ControlTypes, OpTypes
<1>2. UNCHANGED <<ctl, poll, renewals>>
  BY DEF OpServed
<1>3. \/ (lobby' = lobby \/ lobby'.version = lobby.version + 1) /\ \E t : Replied(lobby', t)
      \/ UNCHANGED lobby /\ \E t : Refused(t)
  BY <1>1, ChangedVersion DEF OpServed
<1>4. lobby'.version \in Nat /\ lobby.version <= lobby'.version
  BY <1>1, <1>3
<1>5. /\ op' # NoOp /\ op'.kind = op.kind /\ op'.phase \in {"ok", "refused"}
      /\ op'.phase = "ok" => op'.snap.version = lobby'.version
  <2>1. CASE \E t : Replied(lobby', t)
    <3>1. PICK t : op' = [kind |-> op.kind, table |-> op.table, valid |-> op.valid, phase |-> "ok", snap |-> Snapshot(lobby', t)]
      BY <2>1 DEF Replied
    <3> DEFINE snap == Snapshot(lobby', t)
    <3>2. snap.version = lobby'.version
      BY SnapshotVersion
    <3> HIDE DEF snap
    <3>3. op'.kind = op.kind /\ op'.phase = "ok" /\ op'.snap = snap
      BY <3>1 DEF snap
    <3>4. QED BY <1>1, <3>2, <3>3, OpShapes
  <2>2. CASE \E t : Refused(t)
    <3>1. PICK t : op' = [kind |-> op.kind, table |-> op.table, valid |-> op.valid, phase |-> "refused", conflict |-> t]
      BY <2>2 DEF Refused
    <3>2. op'.kind = op.kind /\ op'.phase = "refused"
      BY <3>1
    <3>3. QED BY <1>1, <3>2, OpShapes
  <2>3. QED BY <1>3, <2>1, <2>2
<1>6. ControlTypes'
  BY <1>1, <1>2, <1>4, <1>5 DEF ControlInv, ControlTypes, OpTypes, PollTypes
<1>7. OneUnresolved' /\ PollFits'
  BY <1>1, <1>2, <1>5 DEF ControlInv, OneUnresolved, Unresolved, PollFits
<1>8. ctl'.snap = ctl.snap /\ poll' = poll /\ ctl.snap.version <= lobby'.version
  BY <1>1, <1>2, <1>4 DEF ControlInv, Fresher
<1>9. poll # Due /\ poll.valid => poll.snap.version \in Nat /\ ctl.snap.version <= poll.snap.version
                                  /\ poll.snap.version <= lobby'.version
  BY <1>1, <1>4 DEF ControlInv, Fresher
<1>10. Fresher'
  BY <1>4, <1>5, <1>8, <1>9 DEF Fresher
<1>11. QED BY <1>1, <1>6, <1>7, <1>8, <1>10 DEF ControlInv

\* What an operation that is over makes of the screen.
LEMMA ShownFacts ==
    ASSUME ControlInv, op # NoOp, op.phase \in {"ok", "refused"}, NEW c, CtlFields \subseteq DOMAIN c,
           NEW view, view = IF ~op.valid THEN c ELSE IF op.phase = "ok" THEN Succeeded(c) ELSE Declined(c)
    PROVE  /\ CtlFields \subseteq DOMAIN view /\ view.busy = c.busy /\ view.command = c.command
           /\ view.asked = c.asked /\ view.linked = c.linked
           /\ view.snap = c.snap \/ (view.snap = op.snap /\ op.phase = "ok" /\ op.kind # "leavePrevious")
<1>1. op.kind \in Operations
  BY DEF ControlInv, ControlTypes, OpTypes
<1>2. ASSUME NEW d, CtlFields \subseteq DOMAIN d, d.busy = c.busy, d.command = c.command,
              d.asked = c.asked, d.linked = c.linked, view = Rendered(d, op.snap)
      PROVE  /\ CtlFields \subseteq DOMAIN view /\ view.busy = c.busy /\ view.command = c.command
             /\ view.asked = c.asked /\ view.linked = c.linked /\ view.snap = op.snap
  BY <1>2, RenderedFacts
<1>3. CASE op.valid /\ op.phase = "ok" /\ op.kind \in {"join", "create"} \cup Entries
  <2> DEFINE d == [c EXCEPT !.selected = op.snap.match, !.live = TRUE, !.open = TRUE]
  <2>1. CtlFields \subseteq DOMAIN d /\ d.busy = c.busy /\ d.command = c.command /\ d.asked = c.asked /\ d.linked = c.linked
    BY DEF CtlFields
  <2>2. view = Rendered(d, op.snap) /\ op.kind # "leavePrevious"
    BY <1>3 DEF Succeeded, Entries
  <2> HIDE DEF d
  <2>3. QED BY <1>2, <1>3, <2>1, <2>2
<1>4. CASE op.valid /\ op.phase = "ok" /\ op.kind = "return"
  <2> DEFINE live == op.snap.match # NoId
             d == [c EXCEPT !.live = live, !.open = TRUE]
  <2>1. op.kind \notin {"join", "create"} \cup Entries /\ op.kind \notin {"leave", "lobby", "end", "leavePrevious"}
    BY <1>4 DEF Entries
  <2>2. Succeeded(c) = Rendered(d, op.snap)
    BY <1>4, <2>1, Zenon DEF Succeeded
  <2>3. view = Rendered(d, op.snap)
    BY <1>4, <2>2, Zenon
  <2> HIDE DEF live
  <2>4. CtlFields \subseteq DOMAIN d /\ d.busy = c.busy /\ d.command = c.command /\ d.asked = c.asked /\ d.linked = c.linked
    BY DEF CtlFields
  <2> HIDE DEF d
  <2>5. QED BY <1>2, <1>4, <2>1, <2>3, <2>4
<1>5. CASE op.valid /\ op.phase = "ok" /\ op.kind = "leave"
  <2> DEFINE d == [c EXCEPT !.selected = op.snap.match, !.live = FALSE, !.open = FALSE]
  <2>1. CtlFields \subseteq DOMAIN d /\ d.busy = c.busy /\ d.command = c.command /\ d.asked = c.asked /\ d.linked = c.linked
    BY DEF CtlFields
  <2>2. view = Rendered(d, op.snap) /\ op.kind # "leavePrevious"
    BY <1>5 DEF Succeeded, Entries
  <2> HIDE DEF d
  <2>3. QED BY <1>2, <1>5, <2>1, <2>2
<1>6. CASE op.valid /\ op.phase = "ok" /\ op.kind \in {"lobby", "end"}
  <2> DEFINE d == [c EXCEPT !.selected = op.snap.match]
  <2>1. CtlFields \subseteq DOMAIN d /\ d.busy = c.busy /\ d.command = c.command /\ d.asked = c.asked /\ d.linked = c.linked
    BY DEF CtlFields
  <2>2. view = Rendered(d, op.snap) /\ op.kind # "leavePrevious"
    BY <1>6 DEF Succeeded, Entries
  <2> HIDE DEF d
  <2>3. QED BY <1>2, <1>6, <2>1, <2>2
<1>7. CASE op.valid /\ op.phase = "ok" /\ op.kind = "leavePrevious"
  <2>1. view = [c EXCEPT !.conflict = NoId]
    BY <1>7 DEF Succeeded, Entries
  <2>2. QED BY <2>1 DEF CtlFields
<1>8. CASE op.valid /\ op.phase = "refused"
  <2>1. view = Declined(c)
    BY <1>8
  <2>2. QED BY <2>1 DEF Declined, CtlFields
<1>9. CASE ~op.valid
  BY <1>9
<1>10. QED BY <1>1, <1>3, <1>7, <1>8, <1>9, <1>4, <1>5, <1>6 DEF Operations

\* The end of an operation, with a result or without.
LEMMA EndKeeps ==
    ASSUME ControlInv, op # NoOp, op' = NoOp, UNCHANGED <<lobby, renewals>>,
           CtlFields \subseteq DOMAIN ctl', ctl'.busy \in BOOLEAN, ~ctl'.busy, ctl'.command = ctl.command,
           \/ ctl'.snap = ctl.snap
           \/ ctl'.snap = op.snap /\ op.phase = "ok" /\ op.kind # "leavePrevious",
           poll' = Due \/ poll' = poll
    PROVE  ControlInv' /\ ctl'.snap.version >= ctl.snap.version
<1>1. lobby.version \in Nat /\ ctl.snap.version \in Nat /\ ctl.command = NoId
  BY DEF ControlInv, ControlTypes, OneUnresolved
<1>2. ctl'.snap.version \in Nat /\ ctl.snap.version <= ctl'.snap.version /\ ctl'.snap.version <= lobby.version
  BY <1>1 DEF ControlInv, Fresher
<1>3. ControlTypes' /\ OneUnresolved'
  BY <1>1, <1>2 DEF ControlInv, ControlTypes, OpTypes, PollTypes, OneUnresolved, Unresolved
<1>4. PollFits'
  BY DEF ControlInv, PollFits
<1>5. Fresher'
  <2>1. CASE poll' = Due
    BY <1>2, <2>1 DEF Fresher
  <2>2. CASE poll # Due /\ poll' = poll /\ poll.valid
    <3>1. op.kind = "leavePrevious"
      BY <2>2 DEF ControlInv, PollFits
    <3>2. QED BY <2>2, <3>1, <1>2 DEF ControlInv, Fresher
  <2>3. CASE poll # Due /\ poll' = poll /\ ~poll.valid
    BY <1>2, <2>3 DEF Fresher
  <2>4. QED BY <2>1, <2>2, <2>3
<1>6. QED BY <1>1, <1>2, <1>3, <1>4, <1>5 DEF ControlInv

LEMMA EndsKeep == ASSUME ControlInv, OpAnswered \/ OpLost PROVE ControlInv' /\ ctl'.snap.version >= ctl.snap.version
<1>1. CtlFields \subseteq DOMAIN ctl /\ op # NoOp /\ op' = NoOp /\ UNCHANGED <<lobby, renewals>> /\ (poll' = Due \/ poll' = poll)
  BY DEF ControlInv, ControlTypes, OpAnswered, OpLost
<1>2. CASE OpAnswered
  <2> DEFINE c == [ctl EXCEPT !.busy = FALSE]
             view == IF ~op.valid THEN c ELSE IF op.phase = "ok" THEN Succeeded(c) ELSE Declined(c)
  <2>1. op.phase \in {"ok", "refused"} /\ ctl' \in {view, [view EXCEPT !.synced = FALSE]}
    BY <1>2 DEF OpAnswered
  <2>2. CtlFields \subseteq DOMAIN c /\ c.busy \in BOOLEAN /\ ~c.busy /\ c.snap = ctl.snap /\ c.command = ctl.command
    BY <1>1 DEF CtlFields
  <2> HIDE DEF c
  <2>3. /\ CtlFields \subseteq DOMAIN view /\ view.busy = c.busy /\ view.command = c.command
        /\ view.snap = c.snap \/ (view.snap = op.snap /\ op.phase = "ok" /\ op.kind # "leavePrevious")
    BY <1>1, <2>1, <2>2, ShownFacts
  <2> HIDE DEF view
  <2>4. CtlFields \subseteq DOMAIN ctl' /\ ctl'.busy = c.busy /\ ctl'.command = c.command /\ ctl'.snap = view.snap
    BY <2>1, <2>3 DEF CtlFields
  <2>5. QED BY <1>1, <2>2, <2>3, <2>4, EndKeeps
<1>3. CASE OpLost
  <2>1. CtlFields \subseteq DOMAIN ctl' /\ ctl'.busy \in BOOLEAN /\ ~ctl'.busy /\ ctl'.command = ctl.command /\ ctl'.snap = ctl.snap
    BY <1>1, <1>3 DEF OpLost, CtlFields
  <2>2. QED BY <1>1, <2>1, EndKeeps
<1>4. QED BY <1>2, <1>3

\* Only an invitation changes what is asked, to what a link had asked for or to a look at the table.
LEMMA AskedKept == ASSUME ControlInv, AskedFits, [TableNext]_tableVars PROVE AskedFits'
<1> DEFINE Asks(c) == CtlFields \subseteq DOMAIN c /\ c.asked.entry \in Entries /\ c.linked.entry \in Entries
<1>1. Asks(ctl)
  BY DEF ControlInv, ControlTypes, AskedFits
<1>2. ASSUME NEW c, Asks(c), Ticked(c) PROVE Asks(ctl')
  <2> DEFINE idle == c.busy /\ (op = NoOp \/ ~Aborts)
  <2>1. ctl' = [c EXCEPT !.synced = FALSE, !.busy = idle]
    BY <1>2 DEF Ticked
  <2> HIDE DEF idle
  <2>2. QED BY <1>2, <2>1 DEF CtlFields
<1>3. ASSUME NEW c, Asks(c), Settled(c, poll.snap) PROVE Asks(ctl')
  <2> DEFINE busy == c.busy /\ ~poll.had
             d == [c EXCEPT !.synced = TRUE, !.failed = FALSE, !.busy = busy]
  <2>1. ctl' = Rendered(d, poll.snap) \/ ctl' = c
    BY <1>3 DEF Settled
  <2> HIDE DEF busy
  <2>2. Asks(d)
    BY <1>3 DEF CtlFields
  <2> HIDE DEF d
  <2>3. QED BY <1>3, <2>1, <2>2, RenderedFacts
<1>4. CASE CollapseGame \/ OpenDialog \/ StayAsObserver \/ TablesElsewhere \/ UNCHANGED tableVars
  <2>1. Asks(ctl')
    BY <1>1, <1>4 DEF CollapseGame, OpenDialog, StayAsObserver, TablesElsewhere, Window, tableVars, CtlFields
  <2>2. QED BY <2>1 DEF AskedFits
<1>5. CASE GameAction \/ RetryShown \/ Expire \/ Renew
  <2>1. Asks([ctl EXCEPT !.command = ctl.snap.match, !.busy = TRUE]) /\ Asks([ctl EXCEPT !.active = FALSE])
        /\ Asks([ctl EXCEPT !.active = TRUE, !.command = NoId])
    BY <1>1 DEF CtlFields
  <2> HIDE DEF Asks
  <2>2. Asks(ctl')
    BY <1>1, <1>2, <1>5, <2>1 DEF GameAction, RetryShown, Expire, Renew
  <2>3. QED BY <2>2 DEF Asks, AskedFits
<1>6. ASSUME NEW t \in Ids, Invited(t) PROVE Asks(ctl')
  <2>1. PICK asked : /\ asked = ctl.linked \/ asked = [match |-> t, entry |-> "watch"]
                     /\ Ticked(Rendered([ctl EXCEPT !.asked = asked, !.selected = t], ctl.snap))
    BY <1>6 DEF Invited
  <2> DEFINE c == [ctl EXCEPT !.asked = asked, !.selected = t]
             d == Rendered(c, ctl.snap)
  <2>2. asked.entry \in Entries
    BY <1>1, <2>1 DEF Entries
  <2>3. Asks(c)
    BY <1>1, <2>2 DEF CtlFields
  <2>4. Ticked(d)
    BY <2>1
  <2> HIDE DEF c
  <2>5. Asks(d)
    BY <2>3, RenderedFacts
  <2> HIDE DEF d, Asks
  <2>6. QED BY <1>2, <2>4, <2>5
<1>7. CASE PollRead \/ ActServed \/ OpServed
  BY <1>7 DEF PollRead, ActServed, OpServed, AskedFits
<1>8. CASE PollTold \/ ActTaken \/ PollFails
  <2>1. Asks([ctl EXCEPT !.command = NoId])
    BY <1>1 DEF CtlFields
  <2>2. ASSUME PollFails PROVE Asks(ctl')
    BY <1>1, <2>2 DEF PollFails, CtlFields
  <2> HIDE DEF Asks
  <2>3. Asks(ctl')
    BY <1>1, <1>3, <1>8, <2>1, <2>2 DEF PollTold, ActTaken
  <2>4. QED BY <2>3 DEF Asks, AskedFits
<1>9. CASE \/ ReturnToGame \/ Join \/ CreateTable \/ LobbyAction \/ AutoEnter \/ LeavePrevious
           \/ \E t \in Ids : \E entry \in CardEntries(t) : EnterTable(t, entry)
  <2>1. \E entered : ctl' \in {[ctl EXCEPT !.busy = TRUE], [ctl EXCEPT !.busy = TRUE, !.entered = entered]}
    BY <1>9 DEF ReturnToGame, Join, CreateTable, LobbyAction, AutoEnter, LeavePrevious, EnterTable, Began
  <2>2. ctl'.asked = ctl.asked /\ ctl'.linked = ctl.linked
    BY <1>1, <2>1 DEF CtlFields
  <2>3. QED BY <1>1, <2>2 DEF AskedFits
<1>10. CASE OpAnswered
  <2> DEFINE c == [ctl EXCEPT !.busy = FALSE]
             view == IF ~op.valid THEN c ELSE IF op.phase = "ok" THEN Succeeded(c) ELSE Declined(c)
  <2>1. op # NoOp /\ op.phase \in {"ok", "refused"} /\ ctl' \in {view, [view EXCEPT !.synced = FALSE]}
    BY <1>10 DEF OpAnswered
  <2>2. CtlFields \subseteq DOMAIN c /\ c.asked = ctl.asked /\ c.linked = ctl.linked
    BY <1>1 DEF CtlFields
  <2> HIDE DEF c
  <2>3. CtlFields \subseteq DOMAIN view /\ view.asked = c.asked /\ view.linked = c.linked
    BY <2>1, <2>2, ShownFacts
  <2> HIDE DEF view
  <2>4. ctl'.asked = ctl.asked /\ ctl'.linked = ctl.linked
    BY <2>1, <2>2, <2>3 DEF CtlFields
  <2>5. QED BY <1>1, <2>4 DEF AskedFits
<1>11. CASE OpLost
  <2>1. Asks(ctl')
    BY <1>1, <1>11 DEF OpLost, CtlFields
  <2>2. QED BY <2>1 DEF AskedFits
<1>12. CASE \E t \in Ids : Invited(t)
  BY <1>6, <1>12 DEF AskedFits
<1>13. QED BY <1>4, <1>5, <1>7, <1>8, <1>9, <1>10, <1>11, <1>12 DEF TableNext, Refreshing, Operating

LEMMA ControlStep ==
    ControlInv /\ AskedFits /\ [TableNext]_tableVars => ControlInv' /\ AskedFits' /\ ctl'.snap.version >= ctl.snap.version
<1> SUFFICES ASSUME ControlInv, AskedFits, [TableNext]_tableVars PROVE ControlInv' /\ ctl'.snap.version >= ctl.snap.version
  BY AskedKept
<1>1. CASE CollapseGame \/ OpenDialog \/ StayAsObserver \/ TablesElsewhere \/ UNCHANGED tableVars
  BY <1>1, WindowsKeep
<1>2. CASE GameAction \/ RetryShown \/ Expire \/ Renew \/ \E t \in Ids : Invited(t)
  BY <1>2, TicksKeep
<1>3. CASE Refreshing
  BY <1>3, PollReadKeeps, PollToldKeeps, ActsKeep DEF Refreshing
<1>4. CASE Operating
  BY <1>4, StartsKeep, OpServedKeeps, EndsKeep DEF Operating
<1>5. QED BY <1>1, <1>2, <1>3, <1>4 DEF TableNext

\* Until there is a new session or another language, the controls are disabled exactly while an
\* operation or an action is unresolved, whichever answers are lost, late or aborted; and after
\* that they may be disabled for longer, but are still disabled by whatever is unresolved
\* (pendingAction of RoomGameControl, the renewed commandClient).
THEOREM ControlsDisabled ==
    TableSpec => []((renewals = 0 => DisabledWhileUnresolved) /\ (op # NoOp \/ ctl.command # NoId => ctl.busy))
<1>1. ControlInv => (renewals = 0 => DisabledWhileUnresolved) /\ (op # NoOp \/ ctl.command # NoId => ctl.busy)
  BY DEF ControlInv, ControlTypes, OneUnresolved, Unresolved, DisabledWhileUnresolved
<1>2. ControlInv /\ AskedFits /\ [TableNext]_tableVars => (ControlInv /\ AskedFits)'
  BY ControlStep
<1>3. TableInit => ControlInv /\ AskedFits
  BY ControlInitially, AskedInitially
<1>4. QED BY <1>1, <1>2, <1>3, PTL DEF TableSpec

\* What is shown of the room never goes back, whatever order answers come in, and also with a
\* new session or another language.
THEOREM NothingShownIsOlder == TableSpec => ShownNeverStale
<1>1. ControlInv /\ AskedFits /\ [TableNext]_tableVars => [ctl'.snap.version >= ctl.snap.version]_tableVars
  BY ControlStep
<1>2. QED BY <1>1, ControlInitially, AskedInitially, ControlStep, PTL DEF TableSpec, ShownNeverStale

===============================================================================
