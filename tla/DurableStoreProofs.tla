-------------------------- MODULE DurableStoreProofs --------------------------
(***************************************************************************)
(* Theorems about DurableStore, for any number of games, processes,        *)
(* commands and concurrent calls.                                          *)
(***************************************************************************)
EXTENDS DurableStore, SequenceTheorems, TLAPS

(* What a decision looks like. *)
LEMMA DecisionFacts ==
    ASSUME TypeOK, StoreAssumption,
           NEW g \in Games, NEW q \in Request, NEW d \in Decisions(g, q)
    PROVE  /\ d.status \in {"accepted", "rejected"}
           /\ d.revision \in Nat
           /\ d.events \in Nat
           /\ d.events = 0 => d.revision = revision[g]
           /\ d.events # 0 => /\ d.status = "accepted"
                              /\ d.revision > revision[g]
                              /\ q.expected = revision[g]
  <1>1. revision[g] \in Nat /\ sequence[g] \in Nat
    BY DEF TypeOK
  <1>2. MaxRevision \in Nat /\ MaxSequence \in Nat
    BY DEF StoreAssumption
  <1>3. QED
    BY <1>1, <1>2 DEF Decisions

(* The record a decided command leaves. *)
LEMMA NewReceiptFacts ==
    ASSUME TypeOK, StoreAssumption,
           NEW g \in Games, NEW q \in Request, NEW d \in Decisions(g, q)
    PROVE  /\ NewReceipt(g, q, d) \in Receipt
           /\ NewReceipt(g, q, d).actor = q.actor
           /\ NewReceipt(g, q, d).id = q.id
           /\ NewReceipt(g, q, d).expected = q.expected
           /\ NewReceipt(g, q, d).status = d.status
           /\ NewReceipt(g, q, d).revision = d.revision
  <1>1. sequence[g] \in Nat
    BY DEF TypeOK
  <1>2. d.status \in {"accepted", "rejected"} /\ d.revision \in Nat /\ d.events \in Nat
    BY DecisionFacts
  <1>3. QED
    BY <1>1, <1>2 DEF NewReceipt, Receipt, Request

(* The events a decided command appends. *)
LEMMA NewEntriesFacts ==
    ASSUME NEW b \in Begun, NEW d, d.events \in Nat, d.revision \in Nat
    PROVE  /\ NewEntries(b, d) \in Seq(Entry)
           /\ Len(NewEntries(b, d)) = d.events
           /\ \A n \in 1..d.events :
                NewEntries(b, d)[n] = [actor |-> b.request.actor, id |-> b.request.id,
                                       revision |-> d.revision, epoch |-> b.epoch]
  <1> DEFINE e == [actor |-> b.request.actor, id |-> b.request.id,
                   revision |-> d.revision, epoch |-> b.epoch]
  <1>1. e \in Entry
    BY DEF Begun, Request, Entry
  <1>2. NewEntries(b, d) = [n \in 1..d.events |-> e]
    BY DEF NewEntries
  <1> HIDE DEF e
  <1>3. [n \in 1..d.events |-> e] \in [1..d.events -> Entry]
    BY <1>1
  <1>4. [n \in 1..d.events |-> e] \in Seq(Entry)
    BY <1>3, SeqDef
  <1>5. Len([n \in 1..d.events |-> e]) = d.events
    BY <1>4, LenProperties
  <1>6. QED
    BY <1>2, <1>4, <1>5 DEF e

(* What a journal holds. *)
LEMMA JournalFacts ==
    ASSUME TypeOK, NEW g \in Games
    PROVE  /\ journal[g] \in Seq(Entry)
           /\ Len(journal[g]) \in Nat
           /\ \A n \in 1..Len(journal[g]) :
                /\ journal[g][n] \in Entry
                /\ journal[g][n].epoch \in Nat
                /\ journal[g][n].revision \in Nat
  <1> DEFINE s == journal[g]
  <1>1. s \in Seq(Entry)
    BY DEF TypeOK
  <1> HIDE DEF s
  <1>2. Len(s) \in Nat /\ s \in [1..Len(s) -> Entry]
    BY <1>1, LenProperties
  <1>3. \A e \in Entry : e.epoch \in Nat /\ e.revision \in Nat
    BY DEF Entry
  <1>4. QED
    BY <1>1, <1>2, <1>3 DEF s

(* The journal of the game a command is decided in. *)
LEMMA AppendFacts ==
    ASSUME TypeOK, StoreAssumption, NEW b \in begun,
           NEW d \in Decisions(b.game, b.request), Decide(b, d)
    PROVE  LET g == b.game IN
           /\ g \in Games
           /\ journal'[g] \in Seq(Entry)
           /\ Len(journal'[g]) = Len(journal[g]) + d.events
           /\ \A n \in 1..Len(journal[g]) : journal'[g][n] = journal[g][n]
           /\ \A n \in (Len(journal[g]) + 1)..Len(journal'[g]) :
                journal'[g][n] = [actor |-> b.request.actor, id |-> b.request.id,
                                  revision |-> d.revision, epoch |-> b.epoch]
           /\ \A h \in Games \ {g} : journal'[h] = journal[h]
  <1> DEFINE g == b.game
  <1>1. b \in Begun /\ g \in Games /\ b.request \in Request
    BY DEF TypeOK, Begun
  <1>2. d.events \in Nat /\ d.revision \in Nat
    BY <1>1, DecisionFacts
  <1>3. journal[g] \in Seq(Entry)
    BY <1>1 DEF TypeOK
  <1>4. /\ journal'[g] = journal[g] \o NewEntries(b, d)
        /\ \A h \in Games \ {g} : journal'[h] = journal[h]
    BY <1>1 DEF Decide, TypeOK
  <1>5. /\ NewEntries(b, d) \in Seq(Entry)
        /\ Len(NewEntries(b, d)) = d.events
        /\ \A n \in 1..d.events :
             NewEntries(b, d)[n] = [actor |-> b.request.actor, id |-> b.request.id,
                                    revision |-> d.revision, epoch |-> b.epoch]
    BY <1>1, <1>2, NewEntriesFacts
  <1>6. Len(journal[g]) \in Nat
    BY <1>3, LenProperties
  <1> DEFINE old == journal[g]
             new == NewEntries(b, d)
  <1>7. /\ journal'[g] \in Seq(Entry)
        /\ Len(journal'[g]) = Len(journal[g]) + d.events
        /\ \A n \in 1..(Len(journal[g]) + d.events) :
             journal'[g][n] = IF n <= Len(journal[g]) THEN journal[g][n]
                              ELSE NewEntries(b, d)[n - Len(journal[g])]
    <2>1. old \in Seq(Entry) /\ new \in Seq(Entry) /\ Len(new) = d.events
      BY <1>3, <1>5
    <2> HIDE DEF old, new
    <2>2. /\ old \o new \in Seq(Entry)
          /\ Len(old \o new) = Len(old) + Len(new)
          /\ \A n \in 1..(Len(old) + Len(new)) :
               (old \o new)[n] = IF n <= Len(old) THEN old[n] ELSE new[n - Len(old)]
      BY <2>1, ConcatProperties
    <2>3. QED
      BY <1>4, <2>1, <2>2 DEF old, new
  <1>8. \A n \in (Len(journal[g]) + 1)..Len(journal'[g]) :
           n - Len(journal[g]) \in 1..d.events /\ ~(n <= Len(journal[g]))
    BY <1>2, <1>6, <1>7
  <1>9. QED
    BY <1>1, <1>2, <1>4, <1>5, <1>6, <1>7, <1>8

-------------------------------------------------------------------------------
(* Type correctness *)

LEMMA TypeInit == ASSUME StoreAssumption, Init PROVE TypeOK
  <1>1. << >> \in Seq(Entry)
    BY EmptySeq
  <1>2. QED
    BY <1>1 DEF Init, TypeOK, StoreAssumption

LEMMA OwnershipType == ASSUME TypeOK, StoreAssumption, Ownership PROVE TypeOK'
  <1> USE DEF rows, journals, reservations, replies
  <1>1. ASSUME NEW g \in Games, Create(g) PROVE TypeOK'
    BY <1>1 DEF Create, TypeOK
  <1>2. ASSUME NEW i \in Instances, NEW g \in Games, NEW roster \in SUBSET Players,
               Start(i, g, roster)
        PROVE  TypeOK'
    BY <1>2 DEF Start, TypeOK, StoreAssumption
  <1>3. ASSUME NEW i \in Instances, NEW g \in Games, Acquire(i, g) PROVE TypeOK'
    BY <1>3 DEF Acquire, TypeOK, StoreAssumption
  <1>4. ASSUME NEW i \in Instances, NEW g \in Games, Renew(i, g) PROVE TypeOK'
    BY <1>4 DEF Renew, TypeOK, StoreAssumption
  <1>5. ASSUME Tick PROVE TypeOK'
    BY <1>5 DEF Tick, TypeOK
  <1>6. ASSUME NEW i \in Instances, Crash(i) PROVE TypeOK'
    BY <1>6 DEF Crash, TypeOK
  <1>7. QED
    BY <1>1, <1>2, <1>3, <1>4, <1>5, <1>6 DEF Ownership

LEMMA DecideType ==
    ASSUME TypeOK, StoreAssumption, NEW b \in begun,
           NEW d \in Decisions(b.game, b.request), Decide(b, d)
    PROVE  TypeOK'
  <1> USE DEF rows, journals, reservations, replies
  <1> DEFINE g == b.game
             receipt == NewReceipt(b.game, b.request, d)
  <1>1. b \in Begun /\ b.slot \in Slots /\ b.instance \in Instances /\ g \in Games
        /\ b.request \in Request
    BY DEF TypeOK, Begun
  <1>2. d.status \in {"accepted", "rejected"} /\ d.revision \in Nat /\ d.events \in Nat
    BY <1>1, DecisionFacts
  <1>3. receipt \in Receipt
    BY <1>1, NewReceiptFacts
  <1>4. journal' \in [Games -> Seq(Entry)]
    <2>1. DOMAIN journal' = Games /\ journal' = [h \in Games |-> journal'[h]]
      BY DEF Decide, TypeOK
    <2>2. \A h \in Games : journal'[h] \in Seq(Entry)
      BY AppendFacts DEF TypeOK
    <2>3. QED
      BY <2>1, <2>2
  <1>5. receipts' \in [Games -> SUBSET Receipt]
    <2> HIDE DEF receipt
    <2>1. receipts' = [receipts EXCEPT ![g] = @ \cup {receipt}]
      BY DEF Decide, receipt
    <2>2. QED
      BY <1>1, <1>3, <2>1 DEF TypeOK
  <1>6. committed' \subseteq Committed
    <2> HIDE DEF receipt
    <2>1. committed' = committed \cup {[slot |-> b.slot, instance |-> b.instance,
                                         game |-> g, receipt |-> receipt, duplicate |-> FALSE]}
      BY DEF Decide, receipt
    <2>2. [slot |-> b.slot, instance |-> b.instance, game |-> g, receipt |-> receipt,
           duplicate |-> FALSE] \in Committed
      BY <1>1, <1>3 DEF Committed
    <2>3. QED
      BY <2>1, <2>2 DEF TypeOK
  <1>7. sequence' \in [Games -> Nat] /\ revision' \in [Games -> Nat] /\ begun' \subseteq Begun
    BY <1>1, <1>2 DEF Decide, TypeOK
  <1>8. QED
    BY <1>4, <1>5, <1>6, <1>7 DEF Decide, TypeOK

LEMMA CommandsType == ASSUME TypeOK, StoreAssumption, Commands PROVE TypeOK'
  <1> USE DEF rows, journals, reservations, replies
  <1>1. ASSUME NEW s \in Slots, NEW i \in Instances, NEW g \in Games, NEW a \in Actors,
               NEW id \in CommandIds, NEW e \in InitialRevision..MaxRevision,
               NEW body \in Bodies,
               Begin(s, i, g, [actor |-> a, id |-> id, expected |-> e, body |-> body])
        PROVE  TypeOK'
    <2> DEFINE q == [actor |-> a, id |-> id, expected |-> e, body |-> body]
               b == [slot |-> s, instance |-> i, game |-> g, request |-> q,
                     epoch |-> held[i][g], live |-> lease[g] > 0]
    <2>1. e \in Nat
      BY DEF StoreAssumption
    <2>2. q \in Request
      BY <2>1 DEF Request
    <2> HIDE DEF q
    <2>3. held[i][g] \in Nat /\ (lease[g] > 0) \in BOOLEAN
      BY DEF TypeOK
    <2>4. b \in Begun
      BY <2>2, <2>3 DEF Begun
    <2>5. begun' = begun \cup {b}
      BY <1>1 DEF Begin, q
    <2> HIDE DEF b
    <2>6. begun' \subseteq Begun
      BY <2>4, <2>5 DEF TypeOK
    <2>7. QED
      BY <1>1, <2>6 DEF Begin, TypeOK
  <1>2. ASSUME NEW b \in begun, Fenced(b) PROVE TypeOK'
    BY <1>2 DEF Fenced, TypeOK
  <1>3. ASSUME NEW b \in begun, Repeat(b) PROVE TypeOK'
    <2>1. PICK r \in Prior(b.game, b.request) :
             committed' = IF SameRequest(r, b.request)
                          THEN committed \cup {[slot |-> b.slot, instance |-> b.instance,
                                 game |-> b.game, receipt |-> r, duplicate |-> TRUE]}
                          ELSE committed
      BY <1>3 DEF Repeat
    <2>2. b.slot \in Slots /\ b.instance \in Instances /\ b.game \in Games
      BY DEF TypeOK, Begun
    <2>3. r \in Receipt
      BY <2>2 DEF Prior, TypeOK
    <2>4. [slot |-> b.slot, instance |-> b.instance, game |-> b.game, receipt |-> r,
           duplicate |-> TRUE] \in Committed
      BY <2>2, <2>3 DEF Committed
    <2>5. committed' \subseteq Committed
      BY <2>1, <2>4 DEF TypeOK
    <2>6. QED
      BY <1>3, <2>5 DEF Repeat, TypeOK
  <1>4. ASSUME NEW b \in begun, NEW d \in Decisions(b.game, b.request), Decide(b, d)
        PROVE  TypeOK'
    BY <1>4, DecideType
  <1>5. ASSUME NEW c \in committed, Deliver(c) PROVE TypeOK'
    <2>1. c.game \in Games /\ c.receipt \in Receipt
      BY DEF TypeOK, Committed
    <2>2. [game |-> c.game, actor |-> c.receipt.actor, id |-> c.receipt.id,
           status |-> c.receipt.status, revision |-> c.receipt.revision] \in Ack
      BY <2>1 DEF Receipt, Ack
    <2>3. c.receipt.first..c.receipt.last \subseteq Nat
      BY <2>1 DEF Receipt
    <2>4. acks' \subseteq Ack /\ committed' \subseteq Committed
      BY <1>5, <2>2 DEF Deliver, TypeOK
    <2>5. delivered' \in [Games -> SUBSET Nat]
      BY <1>5, <2>1, <2>3 DEF Deliver, TypeOK
    <2>6. QED
      BY <1>5, <2>4, <2>5 DEF Deliver, TypeOK
  <1>6. ASSUME NEW s \in Slots, NEW g \in Games, LoadRow(s, g) PROVE TypeOK'
    <2>1. [slot |-> s, game |-> g, sequence |-> sequence[g], revision |-> revision[g]] \in Reading
      BY DEF TypeOK, Reading
    <2>2. reading' \subseteq Reading
      BY <1>6, <2>1 DEF LoadRow, TypeOK
    <2>3. QED
      BY <1>6, <2>2 DEF LoadRow, TypeOK
  <1>7. ASSUME NEW r \in reading, LoadEvents(r) PROVE TypeOK'
    BY <1>7 DEF LoadEvents, TypeOK
  <1>8. QED
    BY <1>1, <1>2, <1>3, <1>4, <1>5, <1>6, <1>7 DEF Commands

LEMMA ReservationsType == ASSUME TypeOK, StoreAssumption, Reservations PROVE TypeOK'
  <1> USE DEF rows, journals, reservations, replies
  <1>1. ASSUME NEW t \in Tables, NEW roster \in SUBSET Players, ReserveTable(t, roster)
        PROVE  TypeOK'
    BY <1>1 DEF ReserveTable, TypeOK
  <1>2. ASSUME NEW t \in Tables, ReleaseTable(t) PROVE TypeOK'
    BY <1>2 DEF ReleaseTable, TypeOK
  <1>3. ASSUME NEW g \in Games, NEW roster \in SUBSET Players, ReservePlayers(g, roster)
        PROVE  TypeOK'
    BY <1>3 DEF ReservePlayers, TypeOK
  <1>4. ASSUME NEW g \in Games, ReleasePlayers(g) PROVE TypeOK'
    BY <1>4 DEF ReleasePlayers, TypeOK
  <1>5. ASSUME NEW g \in Games \cup {NoGame}, NEW t \in Tables, NEW p \in Players,
               ReleaseDepartedPlayer(g, t, p)
        PROVE  TypeOK'
    BY <1>5 DEF ReleaseDepartedPlayer, TypeOK
  <1>6. QED
    BY <1>1, <1>2, <1>3, <1>4, <1>5 DEF Reservations

LEMMA TypeStep == ASSUME TypeOK, StoreAssumption, [Next]_vars PROVE TypeOK'
  <1>1. CASE Next
    BY <1>1, OwnershipType, CommandsType, ReservationsType DEF Next
  <1>2. CASE UNCHANGED vars
    BY <1>2 DEF vars, rows, journals, reservations, replies, TypeOK
  <1>3. QED
    BY <1>1, <1>2

\* Every variable of the store keeps its type: rows, journals, receipts, reservations,
\* and what the processes and the clients hold. (app/durable_games/store.py)
THEOREM TypeCorrect == Spec => []TypeOK
  <1>1. Init => TypeOK
    BY TypeInit, StoreAssumption
  <1>2. TypeOK /\ [Next]_vars => TypeOK'
    BY TypeStep, StoreAssumption
  <1>3. QED
    BY <1>1, <1>2, PTL DEF Spec

-------------------------------------------------------------------------------
(* Ownership: why a fenced process stays fenced *)

\* A game nobody started has epoch 0, and no process holds a token newer than the row's
\* epoch; so the token a takeover issues is held by nobody else, and an entry committed
\* under the current epoch is the newest in the journal.
OwnershipInv ==
    /\ \A g \in Games : g \notin exists => epoch[g] = 0
    /\ \A i \in Instances, g \in Games : held[i][g] <= epoch[g]
    /\ OneOwner
    /\ EpochsNeverRegress

LEMMA OwnershipInit == ASSUME Init PROVE OwnershipInv
  BY DEF Init, OwnershipInv, OneOwner, EpochsNeverRegress

\* Steps that leave the rows' epochs, the tokens and the journals alone.
LEMMA OwnershipFrame ==
    ASSUME TypeOK, OwnershipInv, UNCHANGED <<exists, epoch, held, journal>>
    PROVE  OwnershipInv'
  BY DEF OwnershipInv, OneOwner, EpochsNeverRegress

\* Steps that only raise the epoch of one game and give its token to one process.
LEMMA OwnershipIssued ==
    ASSUME TypeOK, OwnershipInv, NEW i \in Instances, NEW g \in Games,
           exists' = exists \cup {g}, UNCHANGED journal,
           epoch' = [epoch EXCEPT ![g] = epoch[g] + 1],
           held' = [held EXCEPT ![i] = [held[i] EXCEPT ![g] = epoch[g] + 1]]
    PROVE  OwnershipInv'
  <1> DEFINE n == epoch[g] + 1
  <1>1. /\ \A h \in Games : epoch[h] \in Nat
        /\ \A j \in Instances, h \in Games : held[j][h] \in Nat /\ held[j][h] <= epoch[h]
    BY DEF TypeOK, OwnershipInv
  <1>2. \A h \in Games : epoch'[h] = IF h = g THEN n ELSE epoch[h]
    BY DEF TypeOK
  <1>3. \A j \in Instances, h \in Games :
           held'[j][h] = IF j = i /\ h = g THEN n ELSE held[j][h]
    BY DEF TypeOK
  <1>4. \A h \in Games : h \notin exists' => epoch'[h] = 0
    BY <1>2 DEF OwnershipInv
  <1>5. \A j \in Instances, h \in Games : held'[j][h] <= epoch'[h]
    BY <1>1, <1>2, <1>3
  <1>6. OneOwner'
    <2> SUFFICES ASSUME NEW h \in Games, NEW j \in Instances, NEW k \in Instances,
                        held'[j][h] = epoch'[h], held'[k][h] = epoch'[h], epoch'[h] # 0
                 PROVE  j = k
      BY DEF OneOwner
    <2>1. CASE h = g
      BY <1>1, <1>2, <1>3, <2>1
    <2>2. CASE h # g
      BY <1>2, <1>3, <2>2 DEF OwnershipInv, OneOwner
    <2>3. QED
      BY <2>1, <2>2
  <1>7. EpochsNeverRegress'
    <2>2. \A h \in Games : \A m \in 1..Len(journal[h]) : journal[h][m].epoch \in Nat
      BY JournalFacts
    <2>3. \A h \in Games : \A m \in 1..Len(journal[h]) : journal[h][m].epoch <= epoch'[h]
      BY <1>1, <1>2, <2>2 DEF OwnershipInv, EpochsNeverRegress
    <2>4. QED
      BY <2>3 DEF OwnershipInv, EpochsNeverRegress
  <1>8. QED
    BY <1>4, <1>5, <1>6, <1>7 DEF OwnershipInv

LEMMA OwnershipStep ==
    ASSUME TypeOK, StoreAssumption, OwnershipInv, [Next]_vars
    PROVE  OwnershipInv'
  <1> USE DEF rows, journals, reservations, replies
  <1>1. ASSUME NEW g \in Games, Create(g) PROVE OwnershipInv'
    BY <1>1 DEF Create, OwnershipInv, OneOwner, EpochsNeverRegress
  <1>2. ASSUME NEW i \in Instances, NEW g \in Games, NEW roster \in SUBSET Players,
               Start(i, g, roster)
        PROVE  OwnershipInv'
    <2>1. epoch[g] = 0
      BY <1>2 DEF Start, OwnershipInv
    <2>2. /\ exists' = exists \cup {g}
          /\ UNCHANGED journal
          /\ epoch' = [epoch EXCEPT ![g] = epoch[g] + 1]
          /\ held' = [held EXCEPT ![i] = [held[i] EXCEPT ![g] = epoch[g] + 1]]
      BY <1>2, <2>1 DEF Start
    <2>3. QED
      BY <2>2, OwnershipIssued
  <1>3. ASSUME NEW i \in Instances, NEW g \in Games, Acquire(i, g) PROVE OwnershipInv'
    <2>1. /\ exists' = exists \cup {g}
          /\ UNCHANGED journal
          /\ epoch' = [epoch EXCEPT ![g] = epoch[g] + 1]
          /\ held' = [held EXCEPT ![i] = [held[i] EXCEPT ![g] = epoch[g] + 1]]
      BY <1>3 DEF Acquire
    <2>2. QED
      BY <2>1, OwnershipIssued
  <1>4. ASSUME NEW i \in Instances, NEW g \in Games, Renew(i, g) PROVE OwnershipInv'
    BY <1>4, OwnershipFrame DEF Renew
  <1>5. ASSUME Tick PROVE OwnershipInv'
    BY <1>5, OwnershipFrame DEF Tick
  <1>6. ASSUME NEW i \in Instances, Crash(i) PROVE OwnershipInv'
    <2>1. \A j \in Instances, g \in Games : held'[j][g] = 0 \/ held'[j][g] = held[j][g]
      BY <1>6 DEF Crash, TypeOK
    <2>2. \A g \in Games : epoch[g] \in Nat
      BY DEF TypeOK
    <2>3. UNCHANGED <<exists, epoch, journal>>
      BY <1>6 DEF Crash
    <2>4. \A j \in Instances, g \in Games : held'[j][g] <= epoch'[g]
      BY <2>1, <2>2, <2>3 DEF OwnershipInv
    <2>5. OneOwner'
      BY <2>1, <2>3 DEF OwnershipInv, OneOwner
    <2>6. QED
      BY <2>3, <2>4, <2>5 DEF OwnershipInv, EpochsNeverRegress
  <1>7. ASSUME NEW b \in begun, NEW d \in Decisions(b.game, b.request), Decide(b, d)
        PROVE  OwnershipInv'
    <2> DEFINE g == b.game
    <2>1. b.game \in Games /\ b.epoch \in Nat
      BY DEF TypeOK, Begun
    <2>2. UNCHANGED <<exists, epoch, held>> /\ b.epoch = epoch[g]
      BY <1>7 DEF Decide, ValidOwner
    <2>3. \A h \in Games \ {g} : journal'[h] = journal[h]
      BY <1>7, AppendFacts
    <2>4. /\ \A n \in 1..Len(journal[g]) : journal'[g][n] = journal[g][n]
          /\ \A n \in (Len(journal[g]) + 1)..Len(journal'[g]) : journal'[g][n].epoch = epoch[g]
          /\ Len(journal[g]) \in Nat /\ Len(journal'[g]) \in Nat
      <3>1. /\ Len(journal[g]) \in Nat
            /\ d.events \in Nat
        BY <2>1, JournalFacts, DecisionFacts DEF TypeOK, Begun
      <3>2. /\ Len(journal'[g]) = Len(journal[g]) + d.events
            /\ \A n \in 1..Len(journal[g]) : journal'[g][n] = journal[g][n]
            /\ \A n \in (Len(journal[g]) + 1)..Len(journal'[g]) :
                 journal'[g][n] = [actor |-> b.request.actor, id |-> b.request.id,
                                   revision |-> d.revision, epoch |-> b.epoch]
        BY <1>7, AppendFacts
      <3>3. \A n \in (Len(journal[g]) + 1)..Len(journal'[g]) :
               journal'[g][n].epoch = b.epoch
        BY <3>2
      <3>4. Len(journal'[g]) \in Nat
        BY <3>1, <3>2
      <3>5. QED
        BY <2>2, <3>1, <3>2, <3>3, <3>4
    <2>5. \A n \in 1..Len(journal[g]) : journal[g][n].epoch <= epoch[g]
      BY <2>1 DEF OwnershipInv, EpochsNeverRegress
    <2>6. \A n \in 1..Len(journal'[g]) :
             n \in 1..Len(journal[g]) \/ n \in (Len(journal[g]) + 1)..Len(journal'[g])
      BY <2>4
    <2>7. epoch[g] \in Nat
      BY <2>1 DEF TypeOK
    <2>8. \A n \in 1..Len(journal'[g]) : journal'[g][n].epoch <= epoch[g]
      BY <2>4, <2>5, <2>6, <2>7
    <2>9. \A m, n \in 1..Len(journal'[g]) :
             m <= n => journal'[g][m].epoch <= journal'[g][n].epoch
      <3> SUFFICES ASSUME NEW m \in 1..Len(journal'[g]), NEW n \in 1..Len(journal'[g]), m <= n
                   PROVE  journal'[g][m].epoch <= journal'[g][n].epoch
        OBVIOUS
      <3>1. CASE n \in 1..Len(journal[g])
        <4>1. m \in 1..Len(journal[g])
          BY <2>4, <3>1
        <4>2. QED
          BY <2>1, <2>4, <3>1, <4>1 DEF OwnershipInv, EpochsNeverRegress
      <3>2. CASE n \in (Len(journal[g]) + 1)..Len(journal'[g])
        BY <2>4, <2>8, <3>2
      <3>3. QED
        BY <2>6, <3>1, <3>2
    <2>10. EpochsNeverRegress'
      <3> SUFFICES ASSUME NEW h \in Games
                   PROVE  /\ \A m, n \in 1..Len(journal'[h]) :
                               m <= n => journal'[h][m].epoch <= journal'[h][n].epoch
                          /\ \A n \in 1..Len(journal'[h]) : journal'[h][n].epoch <= epoch'[h]
        BY DEF EpochsNeverRegress
      <3>1. CASE h = g
        BY <2>2, <2>8, <2>9, <3>1
      <3>2. CASE h # g
        BY <2>2, <2>3, <3>2 DEF OwnershipInv, EpochsNeverRegress
      <3>3. QED
        BY <3>1, <3>2
    <2>11. QED
      BY <2>2, <2>10 DEF OwnershipInv, OneOwner
  <1>8. ASSUME Commands, \A b \in begun : \A d \in Decisions(b.game, b.request) : ~Decide(b, d)
        PROVE  OwnershipInv'
    <2>1. UNCHANGED <<exists, epoch, held, journal>>
      BY <1>8 DEF Commands, Begin, Fenced, Repeat, Deliver, LoadRow, LoadEvents
    <2>2. QED
      BY <2>1, OwnershipFrame
  <1>9. ASSUME Reservations PROVE OwnershipInv'
    <2>1. UNCHANGED <<exists, epoch, held, journal>>
      BY <1>9 DEF Reservations, ReserveTable, ReleaseTable, ReservePlayers, ReleasePlayers,
                  ReleaseDepartedPlayer
    <2>2. QED
      BY <2>1, OwnershipFrame
  <1>10. CASE UNCHANGED vars
    BY <1>10, OwnershipFrame DEF vars
  <1>11. QED
    BY <1>1, <1>2, <1>3, <1>4, <1>5, <1>6, <1>7, <1>8, <1>9, <1>10 DEF Next, Ownership

\* Two processes never hold a game's current ownership token, for any number of games,
\* processes, takeovers and crashes. (acquire, start)
THEOREM OwnerUnique == Spec => []OneOwner
  <1>1. Init => TypeOK /\ OwnershipInv
    BY TypeInit, OwnershipInit, StoreAssumption
  <1>2. TypeOK /\ OwnershipInv /\ [Next]_vars => TypeOK' /\ OwnershipInv'
    BY TypeStep, OwnershipStep, StoreAssumption
  <1>3. OwnershipInv => OneOwner
    BY DEF OwnershipInv
  <1>4. QED
    BY <1>1, <1>2, <1>3, PTL DEF Spec

\* Fencing: once an epoch has committed, no earlier one commits after it.
\* (_validate_owner, execute)
THEOREM Fencing == Spec => []EpochsNeverRegress
  <1>1. Init => TypeOK /\ OwnershipInv
    BY TypeInit, OwnershipInit, StoreAssumption
  <1>2. TypeOK /\ OwnershipInv /\ [Next]_vars => TypeOK' /\ OwnershipInv'
    BY TypeStep, OwnershipStep, StoreAssumption
  <1>3. OwnershipInv => EpochsNeverRegress
    BY DEF OwnershipInv
  <1>4. QED
    BY <1>1, <1>2, <1>3, PTL DEF Spec

-------------------------------------------------------------------------------
(* The journal: receipts, replay, answers and deliveries *)

\* A receipt claims nothing, or a non-empty stretch of the journal; a call about to
\* deliver holds a receipt of its game.
JournalInv ==
    /\ ReplayMatchesRow
    /\ OneReceiptPerCommand
    /\ NoLostUpdate
    /\ \A g \in Games : \A r \in receipts[g] :
         \/ r.first = 0 /\ r.last = 0
         \/ 1 <= r.first /\ r.first <= r.last /\ r.last <= Len(journal[g])
    /\ \A c \in committed : c.receipt \in receipts[c.game]
    /\ AnswersAgree
    /\ DeliverOnce

LEMMA JournalInit == ASSUME Init PROVE JournalInv
  BY DEF Init, JournalInv, ReplayMatchesRow, OneReceiptPerCommand, NoLostUpdate, AnswersAgree,
         DeliverOnce

\* Steps that leave journals, receipts and the clients alone and start no delivery.
LEMMA JournalFrame ==
    ASSUME TypeOK, JournalInv, UNCHANGED <<journals, replies>>, committed' \subseteq committed
    PROVE  JournalInv'
  BY DEF journals, replies, JournalInv, ReplayMatchesRow, OneReceiptPerCommand, NoLostUpdate,
         AnswersAgree, DeliverOnce, Claimed

\* Answering from the receipt adds a call that will deliver nothing.
LEMMA JournalRepeat ==
    ASSUME TypeOK, JournalInv, NEW b \in begun, Repeat(b)
    PROVE  JournalInv'
  <1> USE DEF journals, replies
  <1>1. PICK r \in Prior(b.game, b.request) :
           committed' = IF SameRequest(r, b.request)
                        THEN committed \cup {[slot |-> b.slot, instance |-> b.instance,
                               game |-> b.game, receipt |-> r, duplicate |-> TRUE]}
                        ELSE committed
    BY DEF Repeat
  <1> DEFINE new == [slot |-> b.slot, instance |-> b.instance, game |-> b.game,
                     receipt |-> r, duplicate |-> TRUE]
  <1>2. r \in receipts[b.game]
    BY DEF Prior
  <1>3. new.game = b.game /\ new.receipt = r /\ new.duplicate = TRUE
    OBVIOUS
  <1> HIDE DEF new
  <1>4. committed' \subseteq committed \cup {new}
    BY <1>1 DEF new
  <1>5. UNCHANGED <<journal, sequence, revision, receipts, delivered, acks>>
    BY DEF Repeat
  <1>6. /\ ReplayMatchesRow' /\ OneReceiptPerCommand' /\ NoLostUpdate' /\ AnswersAgree'
        /\ \A g \in Games : \A t \in receipts'[g] :
             \/ t.first = 0 /\ t.last = 0
             \/ 1 <= t.first /\ t.first <= t.last /\ t.last <= Len(journal'[g])
    BY <1>5 DEF JournalInv, ReplayMatchesRow, OneReceiptPerCommand, NoLostUpdate, AnswersAgree,
                Claimed
  <1>7. \A c \in committed' : c.receipt \in receipts'[c.game]
    BY <1>2, <1>3, <1>4, <1>5 DEF JournalInv
  <1>8. DeliverOnce'
    BY <1>3, <1>4, <1>5 DEF JournalInv, DeliverOnce, Claimed
  <1>9. QED
    BY <1>6, <1>7, <1>8 DEF JournalInv

\* A delivery hands over the events its receipt claims, which nobody else holds.
LEMMA JournalDeliver ==
    ASSUME TypeOK, JournalInv, NEW c \in committed, Deliver(c)
    PROVE  JournalInv'
  <1> USE DEF journals, replies
  <1>1. c.game \in Games /\ c.receipt \in receipts[c.game]
    BY DEF TypeOK, Committed, JournalInv
  <1>2. UNCHANGED <<journal, sequence, revision, receipts>> /\ committed' = committed \ {c}
    BY DEF Deliver
  <1>3. /\ ReplayMatchesRow' /\ OneReceiptPerCommand' /\ NoLostUpdate'
        /\ \A g \in Games : \A t \in receipts'[g] :
             \/ t.first = 0 /\ t.last = 0
             \/ 1 <= t.first /\ t.first <= t.last /\ t.last <= Len(journal'[g])
    BY <1>2 DEF JournalInv, ReplayMatchesRow, OneReceiptPerCommand, NoLostUpdate, Claimed
  <1>4. \A d \in committed' : d.receipt \in receipts'[d.game]
    BY <1>2 DEF JournalInv
  <1>5. AnswersAgree'
    BY <1>1, <1>2 DEF Deliver, JournalInv, AnswersAgree
  <1>6. DeliverOnce'
    <2>1. \A g \in Games :
             delivered'[g] = IF ~c.duplicate /\ g = c.game
                             THEN delivered[g] \cup Claimed(c.receipt) ELSE delivered[g]
      BY <1>1 DEF Deliver, TypeOK, Claimed
    <2>2. \A g \in Games : delivered'[g] \subseteq 1..Len(journal'[g])
      BY <1>2, <2>1 DEF JournalInv, DeliverOnce
    <2>3. \A d \in committed' : d \in committed /\ d # c /\ d.game \in Games
      BY <1>2 DEF TypeOK, Committed
    <2>4. ASSUME NEW d \in committed', ~d.duplicate
          PROVE  /\ Claimed(d.receipt) \subseteq 1..Len(journal'[d.game])
                 /\ Claimed(d.receipt) \cap delivered'[d.game] = {}
      BY <1>2, <2>1, <2>3, <2>4 DEF JournalInv, DeliverOnce
    <2>5. \A d, e \in committed' :
             d # e /\ ~d.duplicate /\ ~e.duplicate /\ d.game = e.game =>
               Claimed(d.receipt) \cap Claimed(e.receipt) = {}
      BY <2>3 DEF JournalInv, DeliverOnce
    <2>6. QED
      BY <2>2, <2>4, <2>5 DEF DeliverOnce, Claimed
  <1>7. QED
    BY <1>3, <1>4, <1>5, <1>6 DEF JournalInv

\* What a decision does to its game, in the terms of JournalInv.
LEMMA DecideFacts ==
    ASSUME TypeOK, StoreAssumption, JournalInv, NEW b \in begun,
           NEW d \in Decisions(b.game, b.request), Decide(b, d)
    PROVE  LET g == b.game
               new == NewReceipt(b.game, b.request, d) IN
           /\ g \in Games
           /\ Len(journal[g]) \in Nat
           /\ d.events \in Nat /\ d.revision \in Nat /\ revision[g] \in Nat
           /\ sequence[g] = Len(journal[g])
           /\ Len(journal'[g]) = Len(journal[g]) + d.events
           /\ \A n \in 1..Len(journal[g]) : journal'[g][n] = journal[g][n]
           /\ \A n \in (Len(journal[g]) + 1)..(Len(journal[g]) + d.events) :
                /\ journal'[g][n].actor = new.actor
                /\ journal'[g][n].id = new.id
                /\ journal'[g][n].revision = d.revision
           /\ \A h \in Games \ {g} : /\ journal'[h] = journal[h]
                                      /\ sequence'[h] = sequence[h]
                                      /\ revision'[h] = revision[h]
                                      /\ receipts'[h] = receipts[h]
           /\ sequence'[g] = Len(journal[g]) + d.events
           /\ revision'[g] = d.revision
           /\ receipts'[g] = receipts[g] \cup {new}
           /\ \A r \in receipts[g] : ~(r.actor = new.actor /\ r.id = new.id)
           /\ d.events = 0 => /\ new.first = 0 /\ new.last = 0
                              /\ d.revision = revision[g]
           /\ d.events # 0 => /\ new.first = Len(journal[g]) + 1
                              /\ new.last = Len(journal[g]) + d.events
                              /\ d.revision > revision[g]
                              /\ new.expected = revision[g]
                              /\ new.status = "accepted"
  <1> DEFINE g == b.game
             new == NewReceipt(b.game, b.request, d)
  <1>1. b \in Begun /\ g \in Games /\ b.request \in Request
    BY DEF TypeOK, Begun
  <1>2. /\ d.events \in Nat /\ d.revision \in Nat
        /\ d.events = 0 => d.revision = revision[g]
        /\ d.events # 0 => /\ d.status = "accepted"
                           /\ d.revision > revision[g]
                           /\ b.request.expected = revision[g]
    BY <1>1, DecisionFacts
  <1>3. Len(journal[g]) \in Nat
    BY <1>1, JournalFacts
  <1>4. sequence[g] = Len(journal[g]) /\ revision[g] \in Nat
    BY <1>1 DEF JournalInv, ReplayMatchesRow, TypeOK
  <1>5. /\ new.actor = b.request.actor /\ new.id = b.request.id
        /\ new.expected = b.request.expected /\ new.status = d.status
        /\ new.first = IF d.events = 0 THEN 0 ELSE sequence[g] + 1
        /\ new.last = IF d.events = 0 THEN 0 ELSE sequence[g] + d.events
    BY DEF NewReceipt
  <1>6. /\ Len(journal'[g]) = Len(journal[g]) + d.events
        /\ \A n \in 1..Len(journal[g]) : journal'[g][n] = journal[g][n]
        /\ \A n \in (Len(journal[g]) + 1)..Len(journal'[g]) :
             journal'[g][n] = [actor |-> b.request.actor, id |-> b.request.id,
                               revision |-> d.revision, epoch |-> b.epoch]
        /\ \A h \in Games \ {g} : journal'[h] = journal[h]
    BY AppendFacts
  <1>7. /\ sequence' = [sequence EXCEPT ![g] = @ + d.events]
        /\ revision' = [revision EXCEPT ![g] = d.revision]
        /\ receipts' = [receipts EXCEPT ![g] = @ \cup {new}]
        /\ Prior(g, b.request) = {}
    BY DEF Decide
  <1>8. \A r \in receipts[g] : ~(r.actor = new.actor /\ r.id = new.id)
    BY <1>5, <1>7 DEF Prior
  <1>9. /\ \A h \in Games \ {g} : /\ sequence'[h] = sequence[h]
                                   /\ revision'[h] = revision[h]
                                   /\ receipts'[h] = receipts[h]
        /\ sequence'[g] = sequence[g] + d.events
        /\ revision'[g] = d.revision
        /\ receipts'[g] = receipts[g] \cup {new}
    BY <1>1, <1>7 DEF TypeOK
  <1>10. \A n \in (Len(journal[g]) + 1)..(Len(journal[g]) + d.events) :
            /\ journal'[g][n].actor = new.actor
            /\ journal'[g][n].id = new.id
            /\ journal'[g][n].revision = d.revision
    BY <1>5, <1>6
  <1>11. QED
    BY <1>1, <1>2, <1>3, <1>4, <1>5, <1>6, <1>8, <1>9, <1>10

\* A decision appends its own events behind everything anyone has claimed.
LEMMA JournalDecide ==
    ASSUME TypeOK, StoreAssumption, JournalInv, NEW b \in begun,
           NEW d \in Decisions(b.game, b.request), Decide(b, d)
    PROVE  JournalInv'
  <1> DEFINE g == b.game
             new == NewReceipt(b.game, b.request, d)
             L == Len(journal[g])
  <1>1. /\ g \in Games
        /\ L \in Nat
        /\ d.events \in Nat /\ d.revision \in Nat /\ revision[g] \in Nat
        /\ sequence[g] = L
        /\ Len(journal'[g]) = L + d.events
        /\ \A n \in 1..L : journal'[g][n] = journal[g][n]
        /\ \A n \in (L + 1)..(L + d.events) :
             /\ journal'[g][n].actor = new.actor
             /\ journal'[g][n].id = new.id
             /\ journal'[g][n].revision = d.revision
        /\ sequence'[g] = L + d.events
        /\ revision'[g] = d.revision
        /\ receipts'[g] = receipts[g] \cup {new}
        /\ \A r \in receipts[g] : ~(r.actor = new.actor /\ r.id = new.id)
        /\ d.events = 0 => /\ new.first = 0 /\ new.last = 0
                           /\ d.revision = revision[g]
        /\ d.events # 0 => /\ new.first = L + 1
                           /\ new.last = L + d.events
                           /\ d.revision > revision[g]
                           /\ new.expected = revision[g]
                           /\ new.status = "accepted"
    BY DecideFacts
  <1>2. \A h \in Games \ {g} : /\ journal'[h] = journal[h]
                               /\ sequence'[h] = sequence[h]
                               /\ revision'[h] = revision[h]
                               /\ receipts'[h] = receipts[h]
    BY DecideFacts
  <1>3. /\ UNCHANGED <<delivered, acks>>
        /\ committed' = committed \cup {[slot |-> b.slot, instance |-> b.instance,
                             game |-> g, receipt |-> new, duplicate |-> FALSE]}
    BY DEF Decide, replies
  <1> HIDE DEF new, L
  <1>4. \A r \in receipts[g] :
           /\ r.first \in Nat /\ r.last \in Nat
           /\ \/ r.first = 0 /\ r.last = 0
              \/ 1 <= r.first /\ r.first <= r.last /\ r.last <= L
    BY <1>1 DEF TypeOK, Receipt, JournalInv, L
  <1>5. \A r \in receipts[g] : Claimed(r) \subseteq 1..L
    BY <1>1, <1>4 DEF Claimed
  <1>6. /\ Claimed(new) \cap (1..L) = {}
        /\ Claimed(new) \subseteq 1..(L + d.events)
        /\ Claimed(new) \subseteq Nat
        /\ \A n \in (L + 1)..(L + d.events) : d.events # 0 /\ n \in Claimed(new)
    BY <1>1 DEF Claimed
  <1>7. \A n \in 1..(L + d.events) : n \in 1..L \/ n \in (L + 1)..(L + d.events)
    BY <1>1
  <1>8. ReplayMatchesRow'
    <2>1. Len(journal'[g]) = sequence'[g]
      BY <1>1
    <2>2. revision[g] = IF L = 0 THEN InitialRevision ELSE journal[g][L].revision
      BY <1>1 DEF JournalInv, ReplayMatchesRow
    <2>3. revision'[g] = IF sequence'[g] = 0 THEN InitialRevision
                         ELSE journal'[g][sequence'[g]].revision
      <3>1. CASE d.events = 0
        <4>1. L # 0 => L \in 1..L
          BY <1>1
        <4>2. QED
          BY <1>1, <2>2, <3>1, <4>1
      <3>2. CASE d.events # 0
        <4>1. L + d.events \in (L + 1)..(L + d.events) /\ L + d.events # 0
          BY <1>1, <3>2
        <4>2. QED
          BY <1>1, <4>1
      <3>3. QED
        BY <3>1, <3>2
    <2>4. \A n \in 1..L : journal[g][n].revision \in Nat /\ journal[g][n].revision <= revision[g]
      <3>1. \A n \in 1..L : journal[g][n].revision \in Nat
        BY <1>1, JournalFacts DEF L
      <3>2. \A n \in 1..L : L \in 1..L /\ n <= L
        BY <1>1
      <3>3. \A n \in 1..L : journal[g][n].revision <= journal[g][L].revision
        BY <1>1, <3>2 DEF JournalInv, ReplayMatchesRow, L
      <3>4. QED
        BY <1>1, <2>2, <3>1, <3>3
    <2>5. \A m, n \in 1..(L + d.events) :
             m <= n => journal'[g][m].revision <= journal'[g][n].revision
      <3> SUFFICES ASSUME NEW m \in 1..(L + d.events), NEW n \in 1..(L + d.events), m <= n
                   PROVE  journal'[g][m].revision <= journal'[g][n].revision
        OBVIOUS
      <3>1. CASE n \in 1..L
        <4>1. m \in 1..L
          BY <1>1, <3>1
        <4>2. journal[g][m].revision <= journal[g][n].revision
          BY <1>1, <3>1, <4>1 DEF JournalInv, ReplayMatchesRow, L
        <4>3. QED
          BY <1>1, <3>1, <4>1, <4>2
      <3>2. CASE n \in (L + 1)..(L + d.events)
        <4>1. journal'[g][n].revision = d.revision /\ d.revision > revision[g]
          BY <1>1, <1>6, <3>2
        <4>2. CASE m \in 1..L
          <5>1. journal'[g][m].revision = journal[g][m].revision
            BY <1>1, <4>2
          <5>2. journal[g][m].revision \in Nat /\ journal[g][m].revision <= revision[g]
            BY <2>4, <4>2
          <5>3. d.revision \in Nat /\ revision[g] \in Nat
            BY <1>1
          <5>4. QED
            BY <4>1, <5>1, <5>2, <5>3
        <4>3. CASE m \in (L + 1)..(L + d.events)
          BY <1>1, <4>1, <4>3
        <4>4. QED
          BY <1>7, <4>2, <4>3
      <3>3. QED
        BY <1>7, <3>1, <3>2
    <2>6. ASSUME NEW h \in Games
          PROVE  /\ Len(journal'[h]) = sequence'[h]
                 /\ revision'[h] = IF sequence'[h] = 0 THEN InitialRevision
                                   ELSE journal'[h][sequence'[h]].revision
                 /\ \A m, n \in 1..Len(journal'[h]) :
                      m <= n => journal'[h][m].revision <= journal'[h][n].revision
      <3>1. CASE h = g
        BY <1>1, <2>1, <2>3, <2>5, <3>1
      <3>2. CASE h # g
        BY <1>2, <3>2 DEF JournalInv, ReplayMatchesRow
      <3>3. QED
        BY <3>1, <3>2
    <2>7. QED
      BY <2>6 DEF ReplayMatchesRow
  <1>9. OneReceiptPerCommand'
    <2>1. \A r, t \in receipts'[g] : r.actor = t.actor /\ r.id = t.id => r = t
      BY <1>1 DEF JournalInv, OneReceiptPerCommand
    <2>2. ASSUME NEW n \in 1..(L + d.events)
          PROVE  \E r \in receipts'[g] :
                   /\ r.status = "accepted" /\ n \in Claimed(r)
                   /\ journal'[g][n].actor = r.actor /\ journal'[g][n].id = r.id
      <3>1. CASE n \in 1..L
        <4>1. PICK r \in receipts[g] :
                 /\ r.status = "accepted" /\ n \in Claimed(r)
                 /\ journal[g][n].actor = r.actor /\ journal[g][n].id = r.id
          BY <1>1, <3>1 DEF JournalInv, OneReceiptPerCommand, L
        <4>2. QED
          BY <1>1, <3>1, <4>1
      <3>2. CASE n \in (L + 1)..(L + d.events)
        BY <1>1, <1>6, <3>2
      <3>3. QED
        BY <1>7, <3>1, <3>2
    <2>3. \A r, t \in receipts'[g] : r # t => Claimed(r) \cap Claimed(t) = {}
      <3>1. \A r, t \in receipts[g] : r # t => Claimed(r) \cap Claimed(t) = {}
        BY <1>1 DEF JournalInv, OneReceiptPerCommand
      <3>2. \A r \in receipts[g] : Claimed(r) \cap Claimed(new) = {}
        BY <1>5, <1>6
      <3>3. QED
        BY <1>1, <3>1, <3>2
    <2>4. \A r \in receipts'[g] : Claimed(r) \subseteq 1..(L + d.events)
      <3>1. 1..L \subseteq 1..(L + d.events)
        BY <1>1
      <3>2. QED
        BY <1>1, <1>5, <1>6, <3>1
    <2>5. ASSUME NEW h \in Games
          PROVE  /\ \A r, t \in receipts'[h] : r.actor = t.actor /\ r.id = t.id => r = t
                 /\ \A n \in 1..Len(journal'[h]) : \E r \in receipts'[h] :
                       /\ r.status = "accepted" /\ n \in Claimed(r)
                       /\ journal'[h][n].actor = r.actor /\ journal'[h][n].id = r.id
                 /\ \A r, t \in receipts'[h] : r # t => Claimed(r) \cap Claimed(t) = {}
                 /\ \A r \in receipts'[h] : Claimed(r) \subseteq 1..Len(journal'[h])
      <3>1. CASE h = g
        BY <1>1, <2>1, <2>2, <2>3, <2>4, <3>1
      <3>2. CASE h # g
        BY <1>2, <3>2 DEF JournalInv, OneReceiptPerCommand
      <3>3. QED
        BY <3>1, <3>2
    <2>6. QED
      BY <2>5 DEF OneReceiptPerCommand, Claimed
  <1>10. NoLostUpdate'
    <2>1. \A r \in receipts[g] :
             r.first # 0 => r.expected = IF r.first = 1 THEN InitialRevision
                                         ELSE journal'[g][r.first - 1].revision
      <3> SUFFICES ASSUME NEW r \in receipts[g], r.first # 0
                   PROVE  r.expected = IF r.first = 1 THEN InitialRevision
                                       ELSE journal'[g][r.first - 1].revision
        OBVIOUS
      <3>1. r.expected = IF r.first = 1 THEN InitialRevision ELSE journal[g][r.first - 1].revision
        BY <1>1 DEF JournalInv, NoLostUpdate
      <3>2. r.first # 1 => r.first - 1 \in 1..L
        BY <1>1, <1>4
      <3>3. QED
        BY <1>1, <3>1, <3>2
    <2>2. new.first # 0 => new.expected = IF new.first = 1 THEN InitialRevision
                                          ELSE journal'[g][new.first - 1].revision
      <3> SUFFICES ASSUME new.first # 0
                   PROVE  new.expected = IF new.first = 1 THEN InitialRevision
                                         ELSE journal'[g][new.first - 1].revision
        OBVIOUS
      <3>1. new.first = L + 1 /\ new.expected = revision[g]
        BY <1>1
      <3>2. revision[g] = IF L = 0 THEN InitialRevision ELSE journal[g][L].revision
        BY <1>1 DEF JournalInv, ReplayMatchesRow
      <3>3. QED
        BY <1>1, <3>1, <3>2
    <2>3. ASSUME NEW h \in Games
          PROVE  \A r \in receipts'[h] :
                   r.first # 0 => r.expected = IF r.first = 1 THEN InitialRevision
                                               ELSE journal'[h][r.first - 1].revision
      <3>1. CASE h = g
        BY <1>1, <2>1, <2>2, <3>1
      <3>2. CASE h # g
        BY <1>2, <3>2 DEF JournalInv, NoLostUpdate
      <3>3. QED
        BY <3>1, <3>2
    <2>4. QED
      BY <2>3 DEF NoLostUpdate
  <1>11. \A h \in Games : \A r \in receipts'[h] :
            \/ r.first = 0 /\ r.last = 0
            \/ 1 <= r.first /\ r.first <= r.last /\ r.last <= Len(journal'[h])
    <2>1. \A r \in receipts'[g] :
             \/ r.first = 0 /\ r.last = 0
             \/ 1 <= r.first /\ r.first <= r.last /\ r.last <= Len(journal'[g])
      BY <1>1, <1>4
    <2>2. QED
      BY <1>2, <2>1 DEF JournalInv
  <1>12. \A c \in committed : /\ c.game \in Games
                              /\ c.receipt \in receipts[c.game]
    BY DEF TypeOK, Committed, JournalInv
  <1> DEFINE call == [slot |-> b.slot, instance |-> b.instance, game |-> g, receipt |-> new,
                      duplicate |-> FALSE]
  <1>13. call.game = g /\ call.receipt = new /\ committed' = committed \cup {call}
    BY <1>3
  <1> HIDE DEF call
  <1>14. \A c \in committed' : c.receipt \in receipts'[c.game]
    BY <1>1, <1>2, <1>12, <1>13
  <1>15. AnswersAgree'
    <2>1. \A a \in acks : a.game \in Games
      BY DEF TypeOK, Ack
    <2>2. \A h \in Games : receipts[h] \subseteq receipts'[h]
      BY <1>1, <1>2
    <2>3. QED
      BY <1>3, <2>1, <2>2 DEF JournalInv, AnswersAgree
  <1>16. DeliverOnce'
    <2>1. \A h \in Games : 1..Len(journal[h]) \subseteq 1..Len(journal'[h])
      <3>1. 1..L \subseteq 1..(L + d.events)
        BY <1>1
      <3>2. QED
        BY <1>1, <1>2, <3>1 DEF L
    <2>2. delivered[g] \subseteq 1..L
      BY <1>1 DEF JournalInv, DeliverOnce, L
    <2>3. \A c \in committed : c.game = g => Claimed(c.receipt) \cap Claimed(new) = {}
      BY <1>5, <1>6, <1>12
    <2>4. \A h \in Games : delivered'[h] \subseteq 1..Len(journal'[h])
      BY <1>3, <2>1 DEF JournalInv, DeliverOnce
    <2>5. ASSUME NEW c \in committed', ~c.duplicate
          PROVE  /\ Claimed(c.receipt) \subseteq 1..Len(journal'[c.game])
                 /\ Claimed(c.receipt) \cap delivered'[c.game] = {}
      <3>1. CASE c \in committed
        BY <1>3, <1>12, <2>1, <2>5, <3>1 DEF JournalInv, DeliverOnce
      <3>2. CASE c = call
        BY <1>1, <1>3, <1>6, <1>13, <2>2, <3>2
      <3>3. QED
        BY <1>13, <3>1, <3>2
    <2>6. ASSUME NEW c \in committed', NEW e \in committed', c # e,
                 ~c.duplicate, ~e.duplicate, c.game = e.game
          PROVE  Claimed(c.receipt) \cap Claimed(e.receipt) = {}
      <3>1. CASE c \in committed /\ e \in committed
        BY <2>6, <3>1 DEF JournalInv, DeliverOnce
      <3>2. CASE c = call /\ e \in committed
        BY <1>13, <2>3, <2>6, <3>2
      <3>3. CASE c \in committed /\ e = call
        BY <1>13, <2>3, <2>6, <3>3
      <3>4. QED
        BY <1>13, <2>6, <3>1, <3>2, <3>3
    <2>7. QED
      BY <2>4, <2>5, <2>6 DEF DeliverOnce, Claimed
  <1>17. QED
    BY <1>8, <1>9, <1>10, <1>11, <1>14, <1>15, <1>16 DEF JournalInv

LEMMA JournalStep ==
    ASSUME TypeOK, StoreAssumption, JournalInv, [Next]_vars
    PROVE  JournalInv'
  <1> USE DEF rows, journals, reservations, replies
  <1>1. ASSUME Ownership PROVE JournalInv'
    <2>1. UNCHANGED <<journals, replies>> /\ committed' \subseteq committed
      BY <1>1 DEF Ownership, Create, Start, Acquire, Renew, Tick, Crash
    <2>2. QED
      BY <2>1, JournalFrame
  <1>2. ASSUME Reservations PROVE JournalInv'
    <2>1. UNCHANGED <<journals, replies>> /\ committed' \subseteq committed
      BY <1>2 DEF Reservations, ReserveTable, ReleaseTable, ReservePlayers, ReleasePlayers,
                  ReleaseDepartedPlayer
    <2>2. QED
      BY <2>1, JournalFrame
  <1>3. ASSUME NEW b \in begun, Repeat(b) PROVE JournalInv'
    BY <1>3, JournalRepeat
  <1>4. ASSUME NEW b \in begun, NEW d \in Decisions(b.game, b.request), Decide(b, d)
        PROVE  JournalInv'
    BY <1>4, JournalDecide
  <1>5. ASSUME NEW c \in committed, Deliver(c) PROVE JournalInv'
    BY <1>5, JournalDeliver
  <1>6. ASSUME Commands,
               \A b \in begun : /\ ~Repeat(b)
                                /\ \A d \in Decisions(b.game, b.request) : ~Decide(b, d),
               \A c \in committed : ~Deliver(c)
        PROVE  JournalInv'
    <2>1. UNCHANGED <<journals, replies>> /\ committed' \subseteq committed
      BY <1>6 DEF Commands, Begin, Fenced, LoadRow, LoadEvents
    <2>2. QED
      BY <2>1, JournalFrame
  <1>7. CASE UNCHANGED vars
    BY <1>7, JournalFrame DEF vars
  <1>8. QED
    BY <1>1, <1>2, <1>3, <1>4, <1>5, <1>6, <1>7 DEF Next

\* The journal invariant holds of every behaviour of the store.
LEMMA JournalCorrect == Spec => []JournalInv
  <1>1. Init => TypeOK /\ JournalInv
    BY TypeInit, JournalInit, StoreAssumption
  <1>2. TypeOK /\ JournalInv /\ [Next]_vars => TypeOK' /\ JournalInv'
    BY TypeStep, JournalStep, StoreAssumption
  <1>3. QED
    BY <1>1, <1>2, PTL DEF Spec

\* Exactly once: one receipt per command, and every event of a journal belongs to the one
\* accepted command that caused it, however often it is sent and whoever owns the game.
\* (game_commands, execute)
THEOREM ExactlyOnce == Spec => []OneReceiptPerCommand
  <1>1. JournalInv => OneReceiptPerCommand
    BY DEF JournalInv
  <1>2. QED
    BY <1>1, JournalCorrect, PTL

\* Every command that changed a game was decided against the revision its client saw.
\* (_decide)
THEOREM Serialised == Spec => []NoLostUpdate
  <1>1. JournalInv => NoLostUpdate
    BY DEF JournalInv
  <1>2. QED
    BY <1>1, JournalCorrect, PTL

\* A stored game can always be replayed to the revision and sequence of its row. (_loaded)
THEOREM Replayable == Spec => []ReplayMatchesRow
  <1>1. JournalInv => ReplayMatchesRow
    BY DEF JournalInv
  <1>2. QED
    BY <1>1, JournalCorrect, PTL

\* No two answers to one command differ, across retries, processes and crashes. (receipts)
THEOREM Answers == Spec => []AnswersAgree
  <1>1. JournalInv => AnswersAgree
    BY DEF JournalInv
  <1>2. QED
    BY <1>1, JournalCorrect, PTL

\* No event is handed to the clients twice, or before it is committed.
\* (DurableCommandRuntime.execute)
THEOREM Deliveries == Spec => []DeliverOnce
  <1>1. JournalInv => DeliverOnce
    BY DEF JournalInv
  <1>2. QED
    BY <1>1, JournalCorrect, PTL

\* No step removes or changes a receipt or an event.
THEOREM Permanent == Spec => JournalAppendOnly
  <1> DEFINE Kept == \A g \in Games :
                       /\ receipts[g] \subseteq receipts'[g]
                       /\ Len(journal[g]) <= Len(journal'[g])
                       /\ \A n \in 1..Len(journal[g]) : journal'[g][n] = journal[g][n]
  <1>1. ASSUME TypeOK, JournalInv, [Next]_vars PROVE Kept
    <2> USE DEF rows, journals, reservations, replies
    <2>1. ASSUME NEW b \in begun, NEW d \in Decisions(b.game, b.request), Decide(b, d)
          PROVE  Kept
      <3>1. b.game \in Games /\ b.request \in Request
        BY <1>1 DEF TypeOK, Begun
      <3>2. d.events \in Nat /\ Len(journal[b.game]) \in Nat
        BY <1>1, <3>1, DecisionFacts, JournalFacts, StoreAssumption
      <3>3. /\ Len(journal'[b.game]) = Len(journal[b.game]) + d.events
            /\ \A n \in 1..Len(journal[b.game]) : journal'[b.game][n] = journal[b.game][n]
            /\ \A h \in Games \ {b.game} : journal'[h] = journal[h]
        BY <1>1, <2>1, AppendFacts, StoreAssumption
      <3>4. \A h \in Games : receipts[h] \subseteq receipts'[h]
        BY <1>1, <2>1, <3>1 DEF Decide, TypeOK
      <3>5. \A h \in Games : Len(journal[h]) \in Nat
        BY <1>1, JournalFacts
      <3>6. ASSUME NEW h \in Games
            PROVE  /\ Len(journal[h]) <= Len(journal'[h])
                   /\ \A n \in 1..Len(journal[h]) : journal'[h][n] = journal[h][n]
        <4>1. CASE h = b.game
          BY <3>2, <3>3, <4>1
        <4>2. CASE h # b.game
          BY <3>3, <3>5, <4>2
        <4>3. QED
          BY <4>1, <4>2
      <3>7. QED
        BY <3>4, <3>6
    <2>2. ASSUME UNCHANGED journals PROVE Kept
      <3>1. \A h \in Games : Len(journal[h]) \in Nat
        BY <1>1, JournalFacts
      <3>2. QED
        BY <2>2, <3>1
    <2>3. ASSUME Next, \A b \in begun : \A d \in Decisions(b.game, b.request) : ~Decide(b, d)
          PROVE  UNCHANGED journals
      <3>1. ASSUME Ownership PROVE UNCHANGED journals
        BY <3>1 DEF Ownership, Create, Start, Acquire, Renew, Tick, Crash
      <3>2. ASSUME Commands PROVE UNCHANGED journals
        BY <2>3, <3>2 DEF Commands, Begin, Fenced, Repeat, Deliver, LoadRow, LoadEvents
      <3>3. ASSUME Reservations PROVE UNCHANGED journals
        BY <3>3 DEF Reservations, ReserveTable, ReleaseTable, ReservePlayers, ReleasePlayers,
                    ReleaseDepartedPlayer
      <3>4. QED
        BY <2>3, <3>1, <3>2, <3>3 DEF Next
    <2>4. UNCHANGED vars => UNCHANGED journals
      BY DEF vars
    <2>5. QED
      BY <1>1, <2>1, <2>2, <2>3, <2>4
  <1>2. TypeOK /\ JournalInv /\ [Next]_vars => [Kept]_vars
    BY <1>1
  <1>3. Spec => [][Next]_vars
    BY DEF Spec
  <1>4. QED
    BY <1>2, <1>3, TypeCorrect, JournalCorrect, PTL DEF JournalAppendOnly
-------------------------------------------------------------------------------
(* Reservations *)

\* A reservation is released before it is made for another game or table: no step moves
\* one, whatever the processes do at once. (reserve_players, start, reserve_table)
THEOREM ReservationsHeld == Spec => NoReservationStolen
  <1> DEFINE Kept == \A p \in Players :
               /\ activePlayers[p] # NoGame => activePlayers'[p] \in {activePlayers[p], NoGame}
               /\ tablePlayers[p] # NoTable => tablePlayers'[p] \in {tablePlayers[p], NoTable}
  <1>1. ASSUME TypeOK, [Next]_vars PROVE Kept
    <2> USE DEF rows, journals, reservations, replies
    <2>1. ASSUME UNCHANGED reservations PROVE Kept
      BY <2>1
    <2>2. ASSUME NEW i \in Instances, NEW g \in Games, NEW roster \in SUBSET Players,
                 Start(i, g, roster)
          PROVE  Kept
      BY <1>1, <2>2 DEF Start, TypeOK
    <2>3. ASSUME Reservations PROVE Kept
      <3>1. ASSUME NEW t \in Tables, NEW roster \in SUBSET Players, ReserveTable(t, roster)
            PROVE  Kept
        BY <1>1, <3>1 DEF ReserveTable, TypeOK
      <3>2. ASSUME NEW t \in Tables, ReleaseTable(t) PROVE Kept
        BY <1>1, <3>2 DEF ReleaseTable, TypeOK
      <3>3. ASSUME NEW g \in Games, NEW roster \in SUBSET Players, ReservePlayers(g, roster)
            PROVE  Kept
        BY <1>1, <3>3 DEF ReservePlayers, TypeOK
      <3>4. ASSUME NEW g \in Games, ReleasePlayers(g) PROVE Kept
        BY <1>1, <3>4 DEF ReleasePlayers, TypeOK
      <3>5. ASSUME NEW g, NEW t, NEW p \in Players, ReleaseDepartedPlayer(g, t, p) PROVE Kept
        BY <1>1, <3>5 DEF ReleaseDepartedPlayer, TypeOK
      <3>6. QED
        BY <2>3, <3>1, <3>2, <3>3, <3>4, <3>5 DEF Reservations
    <2>4. ASSUME Commands PROVE UNCHANGED reservations
      BY <2>4 DEF Commands, Begin, Fenced, Repeat, Decide, Deliver, LoadRow, LoadEvents
    <2>5. ASSUME Ownership,
                 \A i \in Instances, g \in Games, roster \in SUBSET Players : ~Start(i, g, roster)
          PROVE  UNCHANGED reservations
      BY <2>5 DEF Ownership, Create, Acquire, Renew, Tick, Crash
    <2>6. UNCHANGED vars => UNCHANGED reservations
      BY DEF vars
    <2>7. QED
      BY <1>1, <2>1, <2>2, <2>3, <2>4, <2>5, <2>6 DEF Next
  <1>2. TypeOK /\ [Next]_vars => [Kept]_vars
    BY <1>1
  <1>3. Spec => [][Next]_vars
    BY DEF Spec
  <1>4. QED
    BY <1>2, <1>3, TypeCorrect, PTL DEF NoReservationStolen

-------------------------------------------------------------------------------
(* The store implements CommandLog *)

\* The abstract variables, as the mapping of Log gives them.
LogOf == [g \in Games |-> Effects(g)]
Decision(g, r) == [game |-> g, key |-> <<r.actor, r.id>>, status |-> r.status]
DecidedOf == UNION {{Decision(g, r) : r \in receipts[g]} : g \in Games}
ToldOf == {[game |-> a.game, key |-> <<a.actor, a.id>>, status |-> a.status] : a \in acks}

LEMMA DecisionsOfGame ==
    ASSUME NEW x
    PROVE  x \in DecidedOf <=> \E g \in Games : \E r \in receipts[g] : x = Decision(g, r)
  BY DEF DecidedOf

LEMMA EmptyLog == ASSUME Init PROVE Log!Init
  <1>1. LogOf = [g \in Games |-> << >>]
    <2>1. \A g \in Games : Effects(g) = << >>
      BY DEF Init, Effects
    <2>2. QED
      BY <2>1 DEF LogOf
  <1>2. DecidedOf = {}
    BY DecisionsOfGame DEF Init
  <1>3. ToldOf = {}
    BY DEF Init, ToldOf
  <1>4. QED
    BY <1>1, <1>2, <1>3 DEF Log!Init, LogOf, DecidedOf, Decision, ToldOf

\* A step that leaves journals, receipts and answers alone is not seen in the log.
LEMMA LogStutters ==
    ASSUME UNCHANGED <<journal, receipts, acks>>
    PROVE  UNCHANGED Log!logVars
  <1>1. LogOf' = LogOf
    BY DEF LogOf, Effects
  <1>2. DecidedOf' = DecidedOf /\ ToldOf' = ToldOf
    BY DEF DecidedOf, Decision, ToldOf
  <1>3. QED
    BY <1>1, <1>2 DEF Log!logVars, LogOf, DecidedOf, Decision, ToldOf

\* An answer tells a decision that was taken.
LEMMA DeliverTells ==
    ASSUME TypeOK, JournalInv, NEW c \in committed, Deliver(c)
    PROVE  Log!Next
  <1> DEFINE told == Decision(c.game, c.receipt)
             ack == [game |-> c.game, actor |-> c.receipt.actor, id |-> c.receipt.id,
                     status |-> c.receipt.status, revision |-> c.receipt.revision]
  <1>1. c.game \in Games /\ c.receipt \in receipts[c.game]
    BY DEF TypeOK, Committed, JournalInv
  <1>2. told \in DecidedOf
    BY <1>1, DecisionsOfGame
  <1>3. /\ acks' = acks \cup {ack} /\ UNCHANGED <<journal, receipts>>
        /\ told = [game |-> ack.game, key |-> <<ack.actor, ack.id>>, status |-> ack.status]
    BY DEF Deliver, Decision, journals
  <1> HIDE DEF told, ack
  <1>4. ToldOf' = ToldOf \cup {told}
    BY <1>3 DEF ToldOf
  <1>5. LogOf' = LogOf /\ DecidedOf' = DecidedOf
    BY <1>3 DEF LogOf, Effects, DecidedOf, Decision
  <1>6. Log!Tell(told)
    BY <1>4, <1>5 DEF Log!Tell, ToldOf, LogOf, DecidedOf, Decision
  <1>7. QED
    BY <1>2, <1>6 DEF Log!Next, DecidedOf, Decision

\* A command is decided once; if it is accepted its events, and no others, join the log.
LEMMA DecideLogs ==
    ASSUME TypeOK, StoreAssumption, JournalInv, NEW b \in begun,
           NEW d \in Decisions(b.game, b.request), Decide(b, d)
    PROVE  Log!Next
  <1> DEFINE g == b.game
             key == <<b.request.actor, b.request.id>>
             receipt == NewReceipt(b.game, b.request, d)
             decision == [game |-> g, key |-> key, status |-> d.status]
  <1>1. b \in Begun /\ g \in Games /\ b.request \in Request
    BY DEF TypeOK, Begun
  <1>2. key \in Log!Keys
    BY <1>1 DEF Request, Log!Keys
  <1>3. d.status \in {"accepted", "rejected"} /\ d.events \in Nat
        /\ (d.events # 0 => d.status = "accepted")
    BY <1>1, DecisionFacts
  <1>4. Decision(g, receipt) = decision
    BY <1>1, NewReceiptFacts DEF Decision
  <1>5. UNCHANGED acks /\ Prior(g, b.request) = {}
    BY DEF Decide, replies
  <1>6. receipts' = [receipts EXCEPT ![g] = receipts[g] \cup {receipt}]
    BY DEF Decide
  <1>7. /\ receipts'[g] = receipts[g] \cup {receipt}
        /\ \A h \in Games \ {g} : receipts'[h] = receipts[h]
    <2> HIDE DEF receipt
    <2>1. QED
      BY <1>1, <1>6 DEF TypeOK
  <1> HIDE DEF receipt
  <1>8. DecidedOf' = DecidedOf \cup {decision}
    <2>1. ASSUME NEW x
          PROVE  x \in DecidedOf' <=> x \in DecidedOf \cup {decision}
      <3>1. x \in DecidedOf' <=> \E h \in Games : \E r \in receipts'[h] : x = Decision(h, r)
        BY DEF DecidedOf, Decision
      <3>2. QED
        BY <1>1, <1>4, <1>7, <3>1, DecisionsOfGame
    <2>2. QED
      BY <2>1
  <1>9. \A x \in DecidedOf : x.game # g \/ x.key # key
    <2>1. ASSUME NEW h \in Games, NEW r \in receipts[h]
          PROVE  Decision(h, r).game # g \/ Decision(h, r).key # key
      BY <1>5, <2>1 DEF Decision, Prior
    <2>2. QED
      BY <2>1, DecisionsOfGame
  <1>10. /\ Len(journal'[g]) = Len(journal[g]) + d.events
         /\ \A n \in 1..Len(journal[g]) : journal'[g][n] = journal[g][n]
         /\ \A n \in (Len(journal[g]) + 1)..Len(journal'[g]) :
              <<journal'[g][n].actor, journal'[g][n].id>> = key
         /\ \A h \in Games \ {g} : journal'[h] = journal[h]
    <2> DEFINE entry == [actor |-> b.request.actor, id |-> b.request.id,
                         revision |-> d.revision, epoch |-> b.epoch]
    <2>1. /\ Len(journal'[g]) = Len(journal[g]) + d.events
          /\ \A n \in 1..Len(journal[g]) : journal'[g][n] = journal[g][n]
          /\ \A n \in (Len(journal[g]) + 1)..Len(journal'[g]) : journal'[g][n] = entry
          /\ \A h \in Games \ {g} : journal'[h] = journal[h]
      BY AppendFacts, StoreAssumption
    <2>2. <<entry.actor, entry.id>> = key
      OBVIOUS
    <2> HIDE DEF entry
    <2>3. QED
      BY <2>1, <2>2
  <1>11. Len(journal[g]) \in Nat
    BY <1>1, JournalFacts
  <1>12. ASSUME NEW h \in Games, Len(journal[h]) \in Nat
         PROVE  /\ Len(LogOf[h]) = Len(journal[h])
                /\ \A n \in 1..Len(journal[h]) :
                     LogOf[h][n] = <<journal[h][n].actor, journal[h][n].id>>
    BY <1>12 DEF LogOf, Effects
  <1>13. ASSUME NEW h \in Games, Len(journal'[h]) \in Nat
         PROVE  /\ Len(LogOf'[h]) = Len(journal'[h])
                /\ \A n \in 1..Len(journal'[h]) :
                     LogOf'[h][n] = <<journal'[h][n].actor, journal'[h][n].id>>
    BY <1>13 DEF LogOf, Effects
  <1>14. \A h \in Games \ {g} : LogOf'[h] = LogOf[h]
    BY <1>10 DEF LogOf, Effects
  <1>15. Log!Extends(LogOf[g], LogOf'[g], key)
    <2>1. Len(journal'[g]) \in Nat /\ Len(journal'[g]) >= Len(journal[g])
      BY <1>3, <1>10, <1>11
    <2>2. Len(LogOf[g]) = Len(journal[g]) /\ Len(LogOf'[g]) = Len(journal'[g])
      BY <1>1, <1>11, <1>12, <1>13, <2>1
    <2>3. ASSUME NEW n \in 1..Len(journal[g]) PROVE LogOf'[g][n] = LogOf[g][n]
      <3>1. n \in 1..Len(journal'[g])
        BY <1>11, <2>1
      <3>2. LogOf'[g][n] = <<journal'[g][n].actor, journal'[g][n].id>>
        BY <1>1, <1>13, <2>1, <3>1
      <3>3. LogOf[g][n] = <<journal[g][n].actor, journal[g][n].id>>
        BY <1>1, <1>11, <1>12
      <3>4. QED
        BY <1>10, <3>2, <3>3
    <2>4. \A n \in (Len(journal[g]) + 1)..Len(journal'[g]) : LogOf'[g][n] = key
      BY <1>1, <1>10, <1>11, <1>13, <2>1
    <2>5. QED
      BY <2>1, <2>2, <2>3, <2>4 DEF Log!Extends
  <1>16. ToldOf' = ToldOf
    BY <1>5 DEF ToldOf
  <1>17. CASE d.status = "accepted"
    <2>1. Log!Accept(g, key)
      BY <1>8, <1>9, <1>14, <1>15, <1>16, <1>17
         DEF Log!Accept, Log!Undecided, LogOf, DecidedOf, Decision, ToldOf
    <2>2. QED
      BY <1>1, <1>2, <2>1 DEF Log!Next
  <1>18. CASE d.status = "rejected"
    <2>1. d.events = 0
      BY <1>3, <1>18
    <2>2. journal' = journal
      <3>1. journal'[g] = journal[g]
        <4> USE DEF Decide
        <4>1. journal'[g] \in Seq(Entry) /\ journal[g] \in Seq(Entry)
          BY <1>1, AppendFacts DEF TypeOK
        <4>2. Len(journal'[g]) = Len(journal[g])
          BY <1>10, <1>11, <2>1
        <4>3. QED
          BY <1>10, <4>1, <4>2, SeqEqual
      <3>2. journal' \in [Games -> Seq(Entry)] /\ journal \in [Games -> Seq(Entry)]
        BY DecideType DEF TypeOK
      <3>3. QED
        BY <1>1, <1>10, <3>1, <3>2
    <2>3. LogOf' = LogOf
      BY <2>2 DEF LogOf, Effects
    <2>4. Log!Reject(g, key)
      BY <1>8, <1>9, <1>16, <1>18, <2>3
         DEF Log!Reject, Log!Undecided, LogOf, DecidedOf, Decision, ToldOf
    <2>5. QED
      BY <1>1, <1>2, <2>4 DEF Log!Next
  <1>19. QED
    BY <1>3, <1>17, <1>18

\* The store implements CommandLog: with leases, takeovers, crashes, retries and lost answers,
\* it decides every command at most once and appends its effects in one step.
\* (app/durable_games/store.py, docs/game-state-persistence.md)
THEOREM ImplementsLog == Spec => ImplementsCommandLog
  <1>1. Init => Log!Init
    BY EmptyLog
  <1>2. ASSUME TypeOK, JournalInv, [Next]_vars PROVE [Log!Next]_(Log!logVars)
    <2> USE DEF rows, journals, reservations, replies
    <2>1. ASSUME NEW b \in begun, NEW d \in Decisions(b.game, b.request), Decide(b, d)
          PROVE  Log!Next
      BY <1>2, <2>1, DecideLogs, StoreAssumption
    <2>2. ASSUME NEW c \in committed, Deliver(c) PROVE Log!Next
      BY <1>2, <2>2, DeliverTells
    <2>3. ASSUME Ownership PROVE UNCHANGED <<journal, receipts, acks>>
      BY <2>3 DEF Ownership, Create, Start, Acquire, Renew, Tick, Crash
    <2>4. ASSUME Reservations PROVE UNCHANGED <<journal, receipts, acks>>
      BY <2>4 DEF Reservations, ReserveTable, ReleaseTable, ReservePlayers, ReleasePlayers,
                  ReleaseDepartedPlayer
    <2>5. ASSUME Commands,
                 \A b \in begun : \A d \in Decisions(b.game, b.request) : ~Decide(b, d),
                 \A c \in committed : ~Deliver(c)
          PROVE  UNCHANGED <<journal, receipts, acks>>
      BY <2>5 DEF Commands, Begin, Fenced, Repeat, LoadRow, LoadEvents
    <2>6. UNCHANGED vars => UNCHANGED <<journal, receipts, acks>>
      BY DEF vars
    <2>7. QED
      BY <1>2, <2>1, <2>2, <2>3, <2>4, <2>5, <2>6, LogStutters DEF Next
  <1>3. QED
    BY <1>1, <1>2, TypeCorrect, JournalCorrect, PTL DEF Spec, ImplementsCommandLog, Log!Spec
=============================================================================
