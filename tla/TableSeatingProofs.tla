-------------------------- MODULE TableSeatingProofs --------------------------
(***************************************************************************)
(* Theorems about TableSeating, for any number of users, tables, matches   *)
(* and starts, and for any store calls that fail.                          *)
(***************************************************************************)
EXTENDS TableSeating, DataLemmas, SequenceTheorems, TLAPS

(* A table by itself *)

\* Seats that are given up are on offer at completed tables only, which hold a match.
Phases(t) ==
    /\ t.phase = "ENDED" => t.ended
    /\ t.phase = "COMPLETED" => t.kind # "flush" /\ t.engine # "none"
    /\ t.kind # "flush" /\ t.engine # "none" => t.phase \in {"STARTED", "COMPLETED", "ENDED"}
    /\ t.next # << >> => t.kind # "flush" /\ t.engine # "none" /\ t.phase \in {"COMPLETED", "ENDED"}
    /\ t.phase = "STARTED" => t.engine # "none"
    /\ t.phase = "LOCKED" => t.kind # "callbreak"
    /\ t.offers # {} => t.kind = "callbreak" /\ t.phase \in {"COMPLETED", "ENDED"}
    /\ t.releases # << >> => t.kind = "callbreak" /\ t.engine # "none" /\ t.phase \in {"COMPLETED", "ENDED"}
    /\ t.folded # {} => t.kind = "flush"

OffersFit(t) ==
    \A o \in t.offers :
      /\ t.next[o.seat] = Nobody
      /\ o.to \notin Seated(t)
      /\ \A p \in t.offers : p # o => p.seat # o.seat /\ p.to # o.to
NoRepeats(s) == \A i, j \in 1..Len(s) : s[i] = s[j] => i = j
ReleasesFit(t) ==
    /\ \A n \in 1..Len(t.releases) : t.next[t.releases[n].seat] = Nobody
    /\ \A n, k \in 1..Len(t.releases) : t.releases[n].seat = t.releases[k].seat => n = k
\* The seats of Call Break: everybody plays to the end, and who goes on sits where he sat.
CallBreakSeats(t) ==
    /\ t.phase = "STARTED" => Len(t.users) = Capacity
    /\ t.phase # "COMPLETED" => t.departed = {}
    /\ t.phase = "COMPLETED" =>
         /\ Len(t.users) = Capacity /\ Len(t.next) = Capacity
         /\ \A i \in 1..Capacity : t.next[i] = Nobody =>
              \E n \in 1..Len(t.releases) : t.releases[n].seat = i
         /\ \A i \in 1..Capacity : t.users[i] \notin t.departed => t.next[i] = t.users[i]
\* An engine that starts once is there as soon as the start is stored.
OneStart(t) == t.round # 0 => t.engine # "none"

Proper(t) ==
    /\ t \in Table
    /\ Len(t.users) <= Capacity /\ Len(t.next) <= Capacity
    /\ Phases(t)
    /\ NoRepeats(t.queue)
    /\ t.phase = "COMPLETED" => OffersFit(t) /\ ReleasesFit(t)
    /\ t.kind = "callbreak" /\ ~t.ended => CallBreakSeats(t)
    /\ t.kind # "flush" => OneStart(t)

(* A lock that is held across a call of the store *)
Starting(g) == lock[g].stage \in {"reserve", "start"}
LockFits(g) ==
    /\ lock[g].stage # "free" => tables[g] # NoTable
    /\ lock[g].stage = "commit" => tables[g].engine = "finished"
    /\ Starting(g) =>
         /\ tables[g].phase = "STARTED" /\ tables[g].engine = "playing" /\ ~tables[g].ended
         /\ tables[g].starts < MaxStarts
         /\ tables[g].kind # "flush" => lock[g].engine = "none" /\ tables[g].round = 0
         /\ lock[g].stage = "reserve" => ~tables[g].reserved /\ ~lock[g].reservedHere
         /\ tables[g].kind = "callbreak" /\ lock[g].stage = "start" => lock[g].reservedHere
         /\ lock[g].stage = "start" => tables[g].reserved

\* A match in progress, or whose last move is being committed, holds its players.
InPlay(t) == t.phase = "STARTED" /\ t.engine = "playing" /\ ~t.ended
Held(g) ==
    /\ tables[g].phase = "STARTED" /\ ~tables[g].ended
    /\ ~Starting(g) /\ (tables[g].engine = "playing" \/ lock[g].stage = "commit")
    => \A u \in ToSet(tables[g].users) \ tables[g].departed :
         gameRows[u] = <<g, tables[g].round>>

\* Matches are numbered as they are created, and those of one table are of one kind.
Places ==
    /\ tables \in [Games -> Table \cup {NoTable}]
    /\ \A g \in Hosted : Proper(tables[g])
    /\ \A g \in Hosted : g = 1 \/ g - 1 \in Hosted
    /\ \A g \in Hosted : tables[g].id \in Hosted /\ tables[tables[g].id].kind = tables[g].kind

Lock0 == [stage : {"free", "reserve", "start", "commit"},
          reservedHere : BOOLEAN, engine : {"none", "finished"}]
Rest ==
    /\ members \subseteq Users
    /\ lock \in [Games -> Lock0]
    /\ leaving \subseteq Users \X Games
    /\ ticking \subseteq Games
    /\ failures \in 0..MaxFailures
Rows ==
    /\ tableRows \in [Users -> Games \cup {0}]
    /\ gameRows \in [Users -> Match \cup {<<>>}]
    /\ stored \subseteq Match

\* A match that starts once has no rows of its table before the lock, and none at its end.
Unreserved(t) == t.kind # "flush" /\ (t.ended \/ t.phase = "OPEN") => ~t.reserved

\* A reply that is lost tells nothing of the rows, until the start of a match that starts
\* once is answered; what the tables know of these rows is true.
Sure(t) == RepliesLost => t.kind # "flush" /\ t.round # 0
GameRowsKnown ==
    \A u \in Users : gameRows[u] # << >> =>
      LET g == gameRows[u][1] IN
      /\ g \in Hosted
      /\ tables[g].kind # "flush" => gameRows[u][2] = 1
      /\ Sure(tables[g]) => /\ gameRows[u][2] = tables[g].round
                            /\ tables[g].ended => tables[g].kind = "flush"
TableRowsKnown ==
    \A u \in Users : tableRows[u] # 0 =>
      \E g \in Hosted : tables[g].id = tableRows[u] /\ (tables[g].reserved \/ ~Sure(tables[g]))

Inv ==
    /\ Places /\ Rest /\ Rows
    /\ \A g \in Hosted : Held(g) /\ Unreserved(tables[g])
    /\ \A g \in Games : LockFits(g)
    /\ GameRowsKnown /\ TableRowsKnown

-------------------------------------------------------------------------------
(* What _advance_table leaves alone *)

Kept(t, s) ==
    /\ s.kind = t.kind /\ s.departed = t.departed /\ s.engine = t.engine /\ s.ended = t.ended
    /\ s.id = t.id /\ s.previous = t.previous /\ s.round = t.round /\ s.starts = t.starts

LEMMA Members ==
    ASSUME NEW S, NEW s \in Seq(S)
    PROVE  /\ DOMAIN s = 1..Len(s) /\ Len(s) \in Nat
           /\ ToSet(s) \subseteq S
           /\ \A i \in 1..Len(s) : s[i] \in ToSet(s)
           /\ \A x \in ToSet(s) : \E i \in 1..Len(s) : s[i] = x
<1>1. DOMAIN s = 1..Len(s) /\ Len(s) \in Nat /\ \A i \in 1..Len(s) : s[i] \in S
  OBVIOUS
<1> QED BY <1>1 DEF ToSet

\* Without, in the words of this module.
LEMMA Left ==
    ASSUME NEW S, NEW s \in Seq(S), NEW D
    PROVE  /\ Without(s, D) \in Seq(S) /\ Len(Without(s, D)) \in Nat
           /\ Len(Without(s, D)) <= Len(s)
           /\ ToSet(Without(s, D)) = ToSet(s) \ D
           /\ NoRepeats(s) => NoRepeats(Without(s, D))
           /\ ToSet(s) \cap D = {} => Without(s, D) = s
<1> DEFINE r == Without(s, D)
<1>1. /\ r \in Seq(S) /\ Len(r) \in Nat /\ Len(r) <= Len(s)
      /\ {r[k] : k \in 1..Len(r)} = {s[i] : i \in 1..Len(s)} \ D
      /\ (\A i, j \in 1..Len(s) : s[i] = s[j] => i = j) =>
           \A i, j \in 1..Len(r) : r[i] = r[j] => i = j
      /\ (\A i \in 1..Len(s) : s[i] \notin D) => r = s
  BY WithoutFacts
<1> HIDE DEF r
<1>2. DOMAIN r = 1..Len(r) /\ DOMAIN s = 1..Len(s)
  BY <1>1
<1>3. ToSet(r) = {r[k] : k \in 1..Len(r)} /\ ToSet(s) = {s[i] : i \in 1..Len(s)}
  BY <1>2 DEF ToSet
<1>4. ToSet(r) = ToSet(s) \ D
  BY <1>1, <1>3
<1>5. NoRepeats(s) => NoRepeats(r)
  BY <1>1 DEF NoRepeats
<1>6. ToSet(s) \cap D = {} => r = s
  BY <1>1, <1>3
<1> QED BY <1>1, <1>4, <1>5, <1>6 DEF r

LEMMA WithoutFoldersFacts ==
    ASSUME NEW t \in Table
    PROVE  LET s == WithoutFolders(t) IN
           /\ s \in Table /\ Kept(t, s)
           /\ s.phase = t.phase /\ s.next = t.next /\ s.releases = t.releases
           /\ s.offers = t.offers /\ s.queue = t.queue /\ s.reserved = t.reserved
           /\ FoldersGo(t) => s.users = Without(t.users, t.folded) /\ s.folded = {}
           /\ ~FoldersGo(t) => s = t
<1> DEFINE s == WithoutFolders(t)
<1>1. CASE FoldersGo(t)
  <2>1. t.users \in Seq(Users)
    BY DEF Table
  <2>2. Without(t.users, t.folded) \in Seq(Users)
    BY <2>1, WithoutFacts
  <2>3. s = [t EXCEPT !.users = Without(t.users, t.folded), !.folded = {}]
    BY <1>1 DEF WithoutFolders
  <2> HIDE DEF s
  <2>4. s \in Table
    BY <2>2, <2>3 DEF Table
  <2>5. /\ s.phase = t.phase /\ s.next = t.next /\ s.releases = t.releases
        /\ s.offers = t.offers /\ s.queue = t.queue /\ s.reserved = t.reserved
        /\ s.users = Without(t.users, t.folded) /\ s.folded = {}
        /\ Kept(t, s)
    BY <2>3 DEF Table, Kept
  <2> QED BY <1>1, <2>4, <2>5 DEF s
<1>2. CASE ~FoldersGo(t)
  BY <1>2 DEF WithoutFolders, Kept
<1> QED BY <1>1, <1>2

LEMMA SyncedFacts ==
    ASSUME NEW t \in Table, SeatingAssumption
    PROVE  LET s == Synced(t) IN
           /\ s \in Table /\ Kept(t, s)
           /\ s.users = t.users /\ s.folded = t.folded /\ s.releases = t.releases
           /\ s.offers = t.offers /\ s.queue = t.queue /\ s.reserved = t.reserved
           /\ t.ended => s.phase = "ENDED" /\ s.next = t.next
           /\ ~t.ended /\ Finished(t) /\ t.phase # "COMPLETED" =>
                /\ s.phase = "COMPLETED"
                /\ s.next = [i \in 1..Len(t.users) |->
                               IF t.users[i] \in t.departed THEN Nobody ELSE t.users[i]]
           /\ ~t.ended /\ t.phase = "STARTED" /\ FlushOpen(t) => s.phase = "OPEN" /\ s.next = t.next
           /\ ~t.ended /\ ~(Finished(t) /\ t.phase # "COMPLETED")
                /\ ~(t.phase = "STARTED" /\ FlushOpen(t)) => s = t
<1> DEFINE s == Synced(t)
           went == [i \in 1..Len(t.users) |->
                      IF t.users[i] \in t.departed THEN Nobody ELSE t.users[i]]
<1>0. ~(Finished(t) /\ FlushOpen(t))
  BY DEF Finished, FlushOpen
<1>1. CASE t.ended
  <2>1. s = [t EXCEPT !.phase = "ENDED"]
    BY <1>1 DEF Synced
  <2> HIDE DEF s
  <2>2. s \in Table
    BY <2>1 DEF Table
  <2>3. /\ Kept(t, s)
        /\ s.users = t.users /\ s.folded = t.folded /\ s.releases = t.releases
        /\ s.offers = t.offers /\ s.queue = t.queue /\ s.reserved = t.reserved
        /\ s.phase = "ENDED" /\ s.next = t.next
    BY <2>1 DEF Table, Kept
  <2> QED BY <1>0, <1>1, <2>2, <2>3 DEF s
<1>2. CASE ~t.ended /\ Finished(t) /\ t.phase # "COMPLETED"
  <2>1. s = [t EXCEPT !.phase = "COMPLETED", !.next = went]
    BY <1>0, <1>2 DEF Synced
  <2>2. went \in Seq(Seat)
    <3>1. t.users \in Seq(Users) /\ Len(t.users) \in Nat
      BY DEF Table
    <3>2. went \in [1..Len(t.users) -> Seat]
      BY <3>1 DEF Seat
    <3> HIDE DEF went
    <3> QED BY <3>1, <3>2
  <2> HIDE DEF s, went
  <2>3. s \in Table
    BY <2>1, <2>2 DEF Table
  <2>4. /\ Kept(t, s)
        /\ s.users = t.users /\ s.folded = t.folded /\ s.releases = t.releases
        /\ s.offers = t.offers /\ s.queue = t.queue /\ s.reserved = t.reserved
        /\ s.phase = "COMPLETED" /\ s.next = went
    BY <2>1 DEF Table, Kept
  <2> QED BY <1>0, <1>2, <2>3, <2>4 DEF s, went
<1>3. CASE ~t.ended /\ ~Finished(t) /\ t.phase = "STARTED" /\ FlushOpen(t)
  <2>1. s = [t EXCEPT !.phase = "OPEN"]
    BY <1>3 DEF Synced
  <2> HIDE DEF s
  <2>2. s \in Table
    BY <2>1 DEF Table
  <2>3. /\ Kept(t, s)
        /\ s.users = t.users /\ s.folded = t.folded /\ s.releases = t.releases
        /\ s.offers = t.offers /\ s.queue = t.queue /\ s.reserved = t.reserved
        /\ s.phase = "OPEN" /\ s.next = t.next
    BY <2>1 DEF Table, Kept
  <2> QED BY <1>0, <1>3, <2>2, <2>3 DEF s
<1>4. CASE ~t.ended /\ ~(Finished(t) /\ t.phase # "COMPLETED") /\ ~(t.phase = "STARTED" /\ FlushOpen(t))
  <2>1. s = t
    BY <1>4 DEF Synced
  <2> QED BY <1>4, <2>1 DEF Kept
<1> QED BY <1>0, <1>1, <1>2, <1>3, <1>4

\* The waiters who are taken off the queue.
Gone(t, m, expired) == (Users \ m) \cup Seated(t) \cup {o.to : o \in Dead(t, m, expired)}

LEMMA PrunedFacts ==
    ASSUME NEW t \in Table, NEW m, NEW expired
    PROVE  LET s == Pruned(t, m, expired) IN
           /\ s \in Table /\ Kept(t, s)
           /\ s.users = t.users /\ s.folded = t.folded /\ s.releases = t.releases
           /\ s.phase = t.phase /\ s.next = t.next /\ s.reserved = t.reserved
           /\ s.offers = t.offers \ Dead(t, m, expired)
           /\ s.queue = Without(t.queue, Gone(t, m, expired))
<1> DEFINE s == Pruned(t, m, expired)
           gone == Gone(t, m, expired)
           dead == Dead(t, m, expired)
<1>1. s = [t EXCEPT !.offers = t.offers \ dead, !.queue = Without(t.queue, gone)]
  BY DEF Pruned, Gone
<1>2. Without(t.queue, gone) \in Seq(Users)
  <2> HIDE DEF gone
  <2> t.queue \in Seq(Users)
    BY DEF Table
  <2> QED BY WithoutFacts
<1> HIDE DEF gone, s, dead
<1>3. s \in Table
  BY <1>1, <1>2 DEF Table
<1>4. /\ Kept(t, s)
      /\ s.users = t.users /\ s.folded = t.folded /\ s.releases = t.releases
      /\ s.phase = t.phase /\ s.next = t.next /\ s.reserved = t.reserved
      /\ s.offers = t.offers \ dead /\ s.queue = Without(t.queue, gone)
  BY <1>1 DEF Table, Kept
<1> QED BY <1>3, <1>4 DEF s, gone, dead

LEMMA OfferingFacts ==
    ASSUME NEW t \in Table
    PROVE  LET s == Offering(t)
               new(o) == \E n \in 1..Len(t.releases), j \in 1..Len(t.queue) :
                   /\ o = [seat |-> t.releases[n].seat, to |-> t.queue[j]]
                   /\ t.next[o.seat] = Nobody
                   /\ \A p \in t.offers : p.seat # o.seat /\ p.to # o.to
           IN
           /\ s \in Table /\ Kept(t, s)
           /\ s.users = t.users /\ s.folded = t.folded /\ s.releases = t.releases
           /\ s.phase = t.phase /\ s.next = t.next /\ s.reserved = t.reserved
           /\ s.queue = t.queue
           /\ t.phase # "COMPLETED" => s.offers = t.offers
           /\ \A o \in s.offers : o \in t.offers \/ new(o)
           /\ NoRepeats(t.queue) /\ ReleasesFit(t) =>
                \A o, p \in s.offers : o \notin t.offers /\ p \notin t.offers /\ o # p =>
                    o.seat # p.seat /\ o.to # p.to
<1> DEFINE s == Offering(t)
           new(o) == \E n \in 1..Len(t.releases), j \in 1..Len(t.queue) :
               /\ o = [seat |-> t.releases[n].seat, to |-> t.queue[j]]
               /\ t.next[o.seat] = Nobody
               /\ \A p \in t.offers : p.seat # o.seat /\ p.to # o.to
           open == {n \in 1..Len(t.releases) :
                      /\ t.next[t.releases[n].seat] = Nobody
                      /\ \A o \in t.offers : o.seat # t.releases[n].seat}
           vacant == AtPositions(t.releases, open)
           waiting == Without(t.queue, Offered(t))
           both == {n \in 1..Len(vacant) : n <= Len(waiting)}
           added == {[seat |-> vacant[i].seat, to |-> waiting[i]] : i \in both}
           Release == [seat : 1..Capacity, by : Users]
           Offer == [seat : 1..Capacity, to : Users]
<1>1. CASE t.phase # "COMPLETED"
  BY <1>1 DEF Offering, Kept
<1>2. CASE t.phase = "COMPLETED"
  <2>1. s = [t EXCEPT !.offers = t.offers \cup added]
    BY <1>2 DEF Offering
  <2>2. t.releases \in Seq(Release) /\ t.queue \in Seq(Users) /\ t.offers \subseteq Offer
    BY DEF Table
  <2>3. open \in SUBSET (1..Len(t.releases))
    OBVIOUS
  <2>4. \A n \in open : /\ t.next[t.releases[n].seat] = Nobody
                        /\ \A o \in t.offers : o.seat # t.releases[n].seat
    OBVIOUS
  <2> HIDE DEF open, Release
  <2>5. /\ vacant \in Seq(Release) /\ Len(vacant) \in Nat
        /\ \A k \in 1..Len(vacant) :
             Position(open, k) \in open /\ vacant[k] = t.releases[Position(open, k)]
        /\ \A j, k \in 1..Len(vacant) : j < k => Position(open, j) < Position(open, k)
    BY <2>2, <2>3, AtPositionsFacts
  <2>6. /\ waiting \in Seq(Users) /\ Len(waiting) \in Nat
        /\ ToSet(waiting) = ToSet(t.queue) \ Offered(t)
        /\ NoRepeats(t.queue) => NoRepeats(waiting)
    BY <2>2, Left
  <2>7. \A i \in both : i \in 1..Len(vacant) /\ i \in 1..Len(waiting)
    BY <2>5, <2>6
  <2> HIDE DEF vacant, waiting, both
  <2>8. \A i \in both : /\ vacant[i] \in Release /\ waiting[i] \in Users
    BY <2>5, <2>6, <2>7
  <2>9. added \subseteq Offer
    BY <2>8 DEF Release
  <2>10. ASSUME NEW o \in added PROVE new(o)
    <3>1. PICK i \in both : o = [seat |-> vacant[i].seat, to |-> waiting[i]]
      OBVIOUS
    <3>2. PICK n \in open : vacant[i] = t.releases[n]
      BY <2>5, <2>7
    <3>3. waiting[i] \in ToSet(t.queue) \ Offered(t)
      BY <2>6, <2>7, Members
    <3>4. PICK j \in 1..Len(t.queue) : waiting[i] = t.queue[j]
      BY <2>2, <3>3, Members
    <3>5. n \in 1..Len(t.releases)
      BY <2>3
    <3>6. o = [seat |-> t.releases[n].seat, to |-> t.queue[j]]
      BY <3>1, <3>2, <3>4
    <3>7. t.next[o.seat] = Nobody
      BY <2>4, <3>6
    <3>8. \A p \in t.offers : p.seat # o.seat
      BY <2>4, <3>6
    <3>9. \A p \in t.offers : p.to # o.to
      BY <3>3, <3>4, <3>6 DEF Offered
    <3> QED BY <3>5, <3>6, <3>7, <3>8, <3>9
  <2>11. ASSUME NoRepeats(t.queue), ReleasesFit(t), NEW o \in added, NEW p \in added, o # p
         PROVE  o.seat # p.seat /\ o.to # p.to
    <3>1. PICK i \in both : o = [seat |-> vacant[i].seat, to |-> waiting[i]]
      OBVIOUS
    <3>2. PICK j \in both : p = [seat |-> vacant[j].seat, to |-> waiting[j]]
      OBVIOUS
    <3>3. i # j /\ i \in 1..Len(vacant) /\ j \in 1..Len(vacant)
      BY <2>7, <2>11, <3>1, <3>2
    <3>4. i \in Int /\ j \in Int
      BY <2>5, <3>3
    <3>5. waiting[i] # waiting[j]
      BY <2>6, <2>7, <2>11, <3>3 DEF NoRepeats
    <3>6. \A n \in open : n \in Int /\ n \in 1..Len(t.releases)
      BY <2>2, <2>3
    <3>7. /\ Position(open, i) \in open /\ Position(open, j) \in open
          /\ vacant[i] = t.releases[Position(open, i)] /\ vacant[j] = t.releases[Position(open, j)]
      BY <2>5, <3>3
    <3>8. Position(open, i) < Position(open, j) \/ Position(open, j) < Position(open, i)
      BY <2>5, <3>3, <3>4
    <3>9. Position(open, i) # Position(open, j)
      BY <3>6, <3>7, <3>8
    <3>10. vacant[i].seat # vacant[j].seat
      BY <2>11, <3>6, <3>7, <3>9 DEF ReleasesFit
    <3> QED BY <3>1, <3>2, <3>5, <3>10
  <2> HIDE DEF added, s, new
  <2>12. s \in Table
    BY <2>1, <2>2, <2>9 DEF Table
  <2>13. /\ Kept(t, s)
         /\ s.users = t.users /\ s.folded = t.folded /\ s.releases = t.releases
         /\ s.phase = t.phase /\ s.next = t.next /\ s.reserved = t.reserved
         /\ s.queue = t.queue /\ s.offers = t.offers \cup added
    BY <2>1 DEF Table, Kept
  <2>14. \A o \in s.offers : o \in t.offers \/ new(o)
    BY <2>10, <2>13
  <2>15. NoRepeats(t.queue) /\ ReleasesFit(t) =>
           \A o, p \in s.offers : o \notin t.offers /\ p \notin t.offers /\ o # p =>
               o.seat # p.seat /\ o.to # p.to
    BY <2>11, <2>13
  <2> QED BY <1>2, <2>12, <2>13, <2>14, <2>15 DEF s, new
<1> QED BY <1>1, <1>2

-------------------------------------------------------------------------------
(* _advance_table keeps a table proper *)

LEMMA SeatedFacts ==
    ASSUME NEW t \in Table
    PROVE  /\ t.next = << >> => Seated(t) = ToSet(t.users) \ t.departed
           /\ t.next # << >> => Seated(t) = ToSet(t.next) \ {Nobody}
           /\ Seated(t) \subseteq Users
<1>1. t.users \in Seq(Users) /\ t.next \in Seq(Seat)
  BY DEF Table
<1>2. ToSet(t.users) \subseteq Users /\ ToSet(t.next) \subseteq Seat
  BY <1>1, Members
<1> QED BY <1>2 DEF Seated, Seat

LEMMA ProperWithoutFolders ==
    ASSUME NEW t, Proper(t)
    PROVE  Proper(WithoutFolders(t))
<1> DEFINE s == WithoutFolders(t)
<1>1. t \in Table
  BY DEF Proper
<1>2. /\ s \in Table /\ Kept(t, s)
      /\ s.phase = t.phase /\ s.next = t.next /\ s.releases = t.releases
      /\ s.offers = t.offers /\ s.queue = t.queue /\ s.reserved = t.reserved
      /\ FoldersGo(t) => s.users = Without(t.users, t.folded) /\ s.folded = {}
      /\ ~FoldersGo(t) => s = t
  BY <1>1, WithoutFoldersFacts
<1> HIDE DEF s
<1>3. CASE ~FoldersGo(t)
  BY <1>2, <1>3 DEF s
<1>4. CASE FoldersGo(t)
  <2>1. t.kind = "flush" /\ t.phase # "COMPLETED"
    BY <1>4 DEF FoldersGo, Proper, Phases
  <2>2. Len(s.users) <= Capacity
    <3>1. t.users \in Seq(Users) /\ Len(t.users) \in Nat /\ Len(t.users) <= Capacity
      BY <1>1 DEF Table, Proper
    <3>2. Len(Without(t.users, t.folded)) \in Nat /\ Len(Without(t.users, t.folded)) <= Len(t.users)
      BY <3>1, Left
    <3> QED BY <1>2, <1>4, <3>1, <3>2, SeatingAssumption
  <2>3. Phases(s)
    BY <1>2, <1>4, <2>1 DEF Proper, Phases, Kept
  <2> QED BY <1>2, <2>1, <2>2, <2>3 DEF Proper, Kept, s
<1> QED BY <1>3, <1>4

LEMMA ProperSynced ==
    ASSUME NEW t, Proper(t)
    PROVE  Proper(Synced(t))
<1> DEFINE s == Synced(t)
           went == [i \in 1..Len(t.users) |->
                      IF t.users[i] \in t.departed THEN Nobody ELSE t.users[i]]
<1>1. t \in Table /\ SeatingAssumption
  BY SeatingAssumption DEF Proper
<1>2. /\ s \in Table /\ Kept(t, s)
      /\ s.users = t.users /\ s.folded = t.folded /\ s.releases = t.releases
      /\ s.offers = t.offers /\ s.queue = t.queue /\ s.reserved = t.reserved
      /\ t.ended => s.phase = "ENDED" /\ s.next = t.next
      /\ ~t.ended /\ Finished(t) /\ t.phase # "COMPLETED" => s.phase = "COMPLETED" /\ s.next = went
      /\ ~t.ended /\ t.phase = "STARTED" /\ FlushOpen(t) => s.phase = "OPEN" /\ s.next = t.next
      /\ ~t.ended /\ ~(Finished(t) /\ t.phase # "COMPLETED")
           /\ ~(t.phase = "STARTED" /\ FlushOpen(t)) => s = t
  BY <1>1, SyncedFacts
<1> HIDE DEF s
<1>3. CASE t.ended
  BY <1>2, <1>3 DEF Proper, Phases, Kept, OneStart, s
<1>4. CASE ~t.ended /\ Finished(t) /\ t.phase # "COMPLETED"
  <2>1. t.kind # "flush" /\ t.phase = "STARTED" /\ t.offers = {} /\ t.releases = << >>
    BY <1>4 DEF Finished, Proper, Phases
  <2>2. s.phase = "COMPLETED" /\ s.next = went
    BY <1>2, <1>4
  <2>3. Len(t.users) \in Nat /\ Len(went) = Len(t.users) /\ t.users \in Seq(Users)
    BY <1>1 DEF Table
  <2>4. Phases(s)
    BY <1>2, <1>4, <2>1, <2>2 DEF Proper, Phases, Kept, Finished
  <2>5. OffersFit(s)
    BY <1>2, <2>1 DEF OffersFit
  <2>6. ReleasesFit(s)
    BY <1>2, <2>1 DEF ReleasesFit
  <2>7. t.kind = "callbreak" => CallBreakSeats(s)
    <3>1. SUFFICES ASSUME t.kind = "callbreak" PROVE CallBreakSeats(s)
      OBVIOUS
    <3>2. Len(t.users) = Capacity /\ t.departed = {}
      BY <1>4, <2>1, <3>1 DEF Proper, CallBreakSeats
    <3>3. \A i \in 1..Capacity : went[i] = t.users[i] /\ t.users[i] \in Users
      BY <2>3, <3>2
    <3>4. \A i \in 1..Capacity : went[i] # Nobody
      BY <1>1, <3>3 DEF SeatingAssumption
    <3> HIDE DEF went
    <3> QED BY <1>2, <2>2, <2>3, <3>2, <3>3, <3>4 DEF CallBreakSeats, Kept
  <2>8. OneStart(s)
    BY <1>2, <1>4, <2>1, <2>2 DEF Proper, OneStart, Kept
  <2>9. Len(s.users) <= Capacity /\ Len(s.next) <= Capacity /\ NoRepeats(s.queue)
    BY <1>2, <2>2, <2>3 DEF Proper
  <2>10. s.kind = t.kind
    BY <1>2 DEF Kept
  <2> HIDE DEF went
  <2> QED BY <1>2, <2>4, <2>5, <2>6, <2>7, <2>8, <2>9, <2>10 DEF Proper, s
<1>5. CASE ~t.ended /\ t.phase = "STARTED" /\ FlushOpen(t)
  BY <1>2, <1>5 DEF Proper, Phases, Kept, FlushOpen, s
<1>6. CASE ~t.ended /\ ~(Finished(t) /\ t.phase # "COMPLETED") /\ ~(t.phase = "STARTED" /\ FlushOpen(t))
  BY <1>2, <1>6 DEF s
<1> QED BY <1>3, <1>4, <1>5, <1>6

LEMMA ProperPruned ==
    ASSUME NEW t, Proper(t), NEW m, NEW expired
    PROVE  LET s == Pruned(t, m, expired) IN
           /\ Proper(s) /\ ToSet(s.queue) \cap Seated(s) = {}
           /\ s.phase # "COMPLETED" => s.offers = {}
<1> DEFINE s == Pruned(t, m, expired)
           dead == Dead(t, m, expired)
           gone == Gone(t, m, expired)
<1>1. t \in Table
  BY DEF Proper
<1>2. /\ s \in Table /\ Kept(t, s)
      /\ s.users = t.users /\ s.folded = t.folded /\ s.releases = t.releases
      /\ s.phase = t.phase /\ s.next = t.next /\ s.reserved = t.reserved
      /\ s.offers = t.offers \ dead
      /\ s.queue = Without(t.queue, gone)
  BY <1>1, PrunedFacts
<1>3. t.phase # "COMPLETED" => t.offers \ dead = {}
  BY DEF Dead
<1> HIDE DEF s, dead
<1>4. Seated(s) = Seated(t)
  BY <1>2 DEF Seated, Kept
<1>5. Seated(t) \subseteq gone
  BY DEF Gone
<1> HIDE DEF gone
<1>6. NoRepeats(s.queue) /\ ToSet(s.queue) = ToSet(t.queue) \ gone
  <2>1. t.queue \in Seq(Users) /\ NoRepeats(t.queue)
    BY <1>1 DEF Table, Proper
  <2> QED BY ONLY <1>2, <2>1, Left
<1>7. t.phase = "COMPLETED" => OffersFit(s) /\ ReleasesFit(s)
  BY <1>2, <1>4 DEF Proper, OffersFit, ReleasesFit
<1>8. Phases(s)
  BY <1>2 DEF Proper, Phases, Kept
<1>9. t.kind = "callbreak" /\ ~t.ended => CallBreakSeats(s)
  BY <1>2 DEF Proper, CallBreakSeats, Kept
<1>10. t.kind # "flush" => OneStart(s)
  BY <1>2 DEF Proper, OneStart, Kept
<1>11. Proper(s)
  BY <1>2, <1>6, <1>7, <1>8, <1>9, <1>10 DEF Proper, Kept
<1> QED BY <1>2, <1>3, <1>4, <1>5, <1>6, <1>11 DEF s

LEMMA ProperOffering ==
    ASSUME NEW t, Proper(t), ToSet(t.queue) \cap Seated(t) = {}
    PROVE  Proper(Offering(t))
<1> DEFINE s == Offering(t)
           new(o) == \E n \in 1..Len(t.releases), j \in 1..Len(t.queue) :
               /\ o = [seat |-> t.releases[n].seat, to |-> t.queue[j]]
               /\ t.next[o.seat] = Nobody
               /\ \A p \in t.offers : p.seat # o.seat /\ p.to # o.to
<1>1. t \in Table
  BY DEF Proper
<1>2. /\ s \in Table /\ Kept(t, s)
      /\ s.users = t.users /\ s.folded = t.folded /\ s.releases = t.releases
      /\ s.phase = t.phase /\ s.next = t.next /\ s.reserved = t.reserved
      /\ s.queue = t.queue
      /\ t.phase # "COMPLETED" => s.offers = t.offers
      /\ \A o \in s.offers : o \in t.offers \/ new(o)
      /\ NoRepeats(t.queue) /\ ReleasesFit(t) =>
           \A o, p \in s.offers : o \notin t.offers /\ p \notin t.offers /\ o # p =>
               o.seat # p.seat /\ o.to # p.to
  BY <1>1, OfferingFacts
<1>3. \A j \in 1..Len(t.queue) : t.queue[j] \in ToSet(t.queue)
  BY <1>1, Members DEF Table
<1>4. \A o : new(o) => o.to \notin Seated(t)
  BY <1>3
<1>5. \A o : new(o) => t.next[o.seat] = Nobody /\ \A p \in t.offers : p.seat # o.seat /\ p.to # o.to
  OBVIOUS
<1> HIDE DEF s, new
<1>6. Seated(s) = Seated(t)
  BY <1>2 DEF Seated, Kept
<1>7. t.phase = "COMPLETED" => OffersFit(s)
  <2>1. SUFFICES ASSUME t.phase = "COMPLETED" PROVE OffersFit(s)
    OBVIOUS
  <2>2. OffersFit(t) /\ ReleasesFit(t) /\ NoRepeats(t.queue)
    BY <2>1 DEF Proper
  <2>3. ASSUME NEW o \in s.offers PROVE s.next[o.seat] = Nobody /\ o.to \notin Seated(s)
    BY <1>2, <1>4, <1>5, <1>6, <2>2 DEF OffersFit
  <2>4. ASSUME NEW o \in s.offers, NEW p \in s.offers, p # o PROVE p.seat # o.seat /\ p.to # o.to
    <3>1. CASE o \in t.offers /\ p \in t.offers
      BY <2>2, <2>4, <3>1 DEF OffersFit
    <3>2. CASE o \notin t.offers /\ p \in t.offers
      BY <1>2, <1>5, <3>2
    <3>3. CASE o \in t.offers /\ p \notin t.offers
      BY <1>2, <1>5, <3>3
    <3>4. CASE o \notin t.offers /\ p \notin t.offers
      BY <1>2, <2>2, <2>4, <3>4
    <3> QED BY <3>1, <3>2, <3>3, <3>4
  <2> QED BY <2>3, <2>4 DEF OffersFit
<1>8. t.phase = "COMPLETED" => ReleasesFit(s)
  BY <1>2 DEF Proper, ReleasesFit
<1>9. Phases(s)
  <2>1. t.phase # "COMPLETED" => s.offers = t.offers
    BY <1>2
  <2>2. s.offers # {} => t.offers # {} \/ t.releases # << >>
    <3>1. \A o : new(o) => t.releases # << >>
      BY DEF new
    <3> QED BY <1>2, <3>1
  <2> QED BY <1>2, <2>1, <2>2 DEF Proper, Phases, Kept
<1>10. t.kind = "callbreak" /\ ~t.ended => CallBreakSeats(s)
  BY <1>2 DEF Proper, CallBreakSeats, Kept
<1>11. t.kind # "flush" => OneStart(s)
  BY <1>2 DEF Proper, OneStart, Kept
<1> QED BY <1>2, <1>7, <1>8, <1>9, <1>10, <1>11 DEF Proper, Kept, s

LEMMA ReleasesFacts ==
    ASSUME NEW t \in Table
    PROVE  Releases(t) <=> \/ FoldersGo(t)
                           \/ t.phase = "STARTED" /\ (t.ended \/ Finished(t) \/ FlushOpen(t))
<1> DEFINE w == WithoutFolders(t)
<1>1. w \in Table /\ Kept(t, w) /\ w.phase = t.phase
  BY WithoutFoldersFacts
<1> HIDE DEF w
<1> DEFINE s == Synced(w)
<1>2. (Finished(w) <=> Finished(t)) /\ (FlushOpen(w) <=> FlushOpen(t))
  BY <1>1 DEF Kept, Finished, FlushOpen
<1>3. /\ w.ended => s.phase = "ENDED"
      /\ ~w.ended /\ Finished(w) /\ w.phase # "COMPLETED" => s.phase = "COMPLETED"
      /\ ~w.ended /\ w.phase = "STARTED" /\ FlushOpen(w) => s.phase = "OPEN"
      /\ ~w.ended /\ ~(Finished(w) /\ w.phase # "COMPLETED")
           /\ ~(w.phase = "STARTED" /\ FlushOpen(w)) => s = w
  BY <1>1, SyncedFacts, SeatingAssumption
<1> HIDE DEF s
<1>4. t.phase = "STARTED" =>
        (s.phase \in {"OPEN", "COMPLETED", "ENDED"} <=> t.ended \/ Finished(t) \/ FlushOpen(t))
  BY <1>1, <1>2, <1>3 DEF Kept
<1> QED BY <1>4 DEF Releases, s, w

\* What _advance_table makes of a table.
AdvanceMakes(t, s) ==
    /\ Proper(s) /\ Kept(t, s)
    /\ ToSet(s.users) \subseteq ToSet(t.users)
    /\ t.engine = "playing" /\ ~t.ended =>
         s.users = t.users /\ s.phase = t.phase /\ s.next = t.next
    /\ s.phase = "STARTED" => /\ t.phase = "STARTED" /\ s.users = t.users
                              /\ ~s.ended /\ ~Finished(s) /\ ~FlushOpen(s)
    /\ s.ended => s.phase = "ENDED"
    /\ t.kind # "flush" => s.users = t.users /\ (s.phase = "OPEN" => t.phase = "OPEN")
    /\ t.phase = "COMPLETED" /\ ~t.ended => s.phase = "COMPLETED" /\ s.next = t.next
    /\ ~FoldersGo(s)
    /\ s.phase # "COMPLETED" => s.offers = {}
    /\ s.releases = t.releases

LEMMA AdvancedForFacts ==
    ASSUME NEW t, Proper(t), NEW m, NEW expired
    PROVE  LET s == AdvancedFor(t, m, expired) IN
           AdvanceMakes(t, s) /\ s.reserved = t.reserved
<1> DEFINE w == WithoutFolders(t)
           y == Synced(w)
           p == Pruned(y, m, expired)
           s == Offering(p)
<1>1. t \in Table /\ SeatingAssumption
  BY SeatingAssumption DEF Proper
<1>2. /\ w \in Table /\ Kept(t, w)
      /\ w.phase = t.phase /\ w.next = t.next /\ w.releases = t.releases /\ w.reserved = t.reserved
      /\ FoldersGo(t) => w.users = Without(t.users, t.folded) /\ w.folded = {}
      /\ ~FoldersGo(t) => w = t
  BY <1>1, WithoutFoldersFacts
<1>3. Proper(w)
  BY ProperWithoutFolders
<1> HIDE DEF w
<1>4. /\ y \in Table /\ Kept(w, y)
      /\ y.users = w.users /\ y.folded = w.folded /\ y.releases = w.releases /\ y.reserved = w.reserved
      /\ w.ended => y.phase = "ENDED" /\ y.next = w.next
      /\ ~w.ended /\ Finished(w) /\ w.phase # "COMPLETED" => y.phase = "COMPLETED"
      /\ ~w.ended /\ w.phase = "STARTED" /\ FlushOpen(w) => y.phase = "OPEN" /\ y.next = w.next
      /\ ~w.ended /\ ~(Finished(w) /\ w.phase # "COMPLETED")
           /\ ~(w.phase = "STARTED" /\ FlushOpen(w)) => y = w
  BY <1>1, <1>2, SyncedFacts
<1>5. Proper(y)
  BY <1>3, ProperSynced
<1> HIDE DEF y
<1>6. /\ Kept(y, p) /\ p.users = y.users /\ p.folded = y.folded /\ p.releases = y.releases
      /\ p.phase = y.phase /\ p.next = y.next /\ p.reserved = y.reserved
      /\ Proper(p) /\ ToSet(p.queue) \cap Seated(p) = {}
      /\ p.phase # "COMPLETED" => p.offers = {}
  BY <1>4, <1>5, PrunedFacts, ProperPruned
<1> HIDE DEF p
<1>7. /\ Kept(p, s) /\ s.users = p.users /\ s.folded = p.folded /\ s.releases = p.releases
      /\ s.phase = p.phase /\ s.next = p.next /\ s.reserved = p.reserved
      /\ p.phase # "COMPLETED" => s.offers = p.offers
      /\ Proper(s)
  <2>1. p \in Table
    BY <1>6 DEF Proper
  <2> QED BY <1>6, <2>1, OfferingFacts, ProperOffering
<1>8. s = AdvancedFor(t, m, expired)
  BY DEF AdvancedFor, p, y, w
<1> HIDE DEF s
<1>9. /\ Kept(t, s) /\ s.users = w.users /\ s.folded = w.folded /\ s.releases = t.releases
      /\ s.phase = y.phase /\ s.next = y.next /\ s.reserved = t.reserved
      /\ s.phase # "COMPLETED" => s.offers = {}
  BY <1>2, <1>4, <1>6, <1>7 DEF Kept
<1>10. t.users \in Seq(Users)
  BY <1>1 DEF Table
<1>11. ToSet(s.users) \subseteq ToSet(t.users)
  BY <1>2, <1>9, <1>10, Left
<1>12. /\ (Finished(w) <=> Finished(t)) /\ (FlushOpen(w) <=> FlushOpen(t))
       /\ (Finished(s) <=> Finished(t)) /\ (FlushOpen(s) <=> FlushOpen(t))
  BY <1>2, <1>9 DEF Kept, Finished, FlushOpen
<1>13. ASSUME t.engine = "playing", ~t.ended
       PROVE  s.users = t.users /\ s.phase = t.phase /\ s.next = t.next
  <2>1. ~FoldersGo(t) /\ ~Finished(t) /\ ~FlushOpen(t)
    BY <1>13 DEF FoldersGo, Finished, FlushOpen
  <2> QED BY <1>2, <1>4, <1>9, <1>13, <2>1
<1>14. ~FoldersGo(s)
  <2>1. CASE FoldersGo(t)
    BY <1>2, <1>9, <2>1 DEF FoldersGo
  <2>2. CASE ~FoldersGo(t)
    BY <1>2, <1>9, <1>12, <2>2 DEF FoldersGo, Kept
  <2> QED BY <2>1, <2>2
<1>15. ASSUME s.phase = "STARTED"
       PROVE  /\ t.phase = "STARTED" /\ s.users = t.users
              /\ ~s.ended /\ ~Finished(s) /\ ~FlushOpen(s)
  <2>1. ~t.ended /\ t.phase = "STARTED" /\ ~Finished(t) /\ ~FlushOpen(t)
    BY <1>2, <1>4, <1>9, <1>12, <1>15 DEF Kept
  <2>2. ~FoldersGo(t)
    BY <2>1 DEF FoldersGo
  <2> QED BY <1>2, <1>9, <1>12, <2>1, <2>2 DEF Kept
<1>16. s.ended => s.phase = "ENDED"
  BY <1>2, <1>4, <1>9 DEF Kept
<1>17. ASSUME t.kind # "flush" PROVE s.users = t.users /\ (s.phase = "OPEN" => t.phase = "OPEN")
  <2>1. ~FoldersGo(t) /\ ~FlushOpen(t)
    BY <1>17 DEF Proper, Phases, FoldersGo, FlushOpen
  <2> QED BY <1>2, <1>4, <1>9, <2>1
<1>18. t.phase = "COMPLETED" /\ ~t.ended => s.phase = "COMPLETED" /\ s.next = t.next
  BY <1>2, <1>4, <1>9 DEF Kept
<1> QED BY <1>7, <1>8, <1>9, <1>11, <1>13, <1>14, <1>15, <1>16, <1>17, <1>18 DEF AdvanceMakes

\* Nothing but the engines that start once cares whether the table has reserved its rows.
LEMMA ProperUnreserved ==
    ASSUME NEW a, Proper(a), NEW keeps \in BOOLEAN
    PROVE  LET s == [a EXCEPT !.reserved = a.reserved /\ keeps] IN
           /\ Proper(s) /\ Kept(a, s) /\ s.users = a.users /\ s.folded = a.folded
           /\ s.releases = a.releases /\ s.phase = a.phase /\ s.next = a.next
           /\ s.queue = a.queue /\ s.offers = a.offers
           /\ s.reserved = (a.reserved /\ keeps)
<1> DEFINE s == [a EXCEPT !.reserved = a.reserved /\ keeps]
<1>3. a \in Table
  BY DEF Proper
<1>4. (a.reserved /\ keeps) \in BOOLEAN
  BY <1>3 DEF Table
<1>5. s \in Table
  BY <1>3, <1>4 DEF Table
<1>6. /\ Kept(a, s) /\ s.users = a.users /\ s.folded = a.folded /\ s.releases = a.releases
      /\ s.phase = a.phase /\ s.next = a.next /\ s.queue = a.queue /\ s.offers = a.offers
      /\ s.reserved = (a.reserved /\ keeps)
  BY <1>3 DEF Table, Kept
<1> HIDE DEF s
<1>7. Proper(s)
  <2>1. Seated(s) = Seated(a)
    BY <1>6 DEF Seated, Kept
  <2>2. a.phase = "COMPLETED" => OffersFit(s) /\ ReleasesFit(s)
    BY <1>3, <1>6, <2>1 DEF Proper, OffersFit, ReleasesFit
  <2>3. Phases(s)
    BY <1>3, <1>6 DEF Proper, Phases, Kept
  <2>4. a.kind = "callbreak" /\ ~a.ended => CallBreakSeats(s)
    BY <1>3, <1>6 DEF Proper, CallBreakSeats, Kept
  <2>5. a.kind # "flush" => OneStart(s)
    BY <1>3, <1>6 DEF Proper, OneStart, Kept
  <2> QED BY <1>3, <1>5, <1>6, <2>2, <2>3, <2>4, <2>5 DEF Proper, Kept
<1> QED BY <1>6, <1>7 DEF s

\* A handler that ends with _advance_table may release the rows besides.
LEMMA FreedMakes ==
    ASSUME NEW s, NEW a, AdvanceMakes(s, a), NEW keeps \in BOOLEAN
    PROVE  LET x == [a EXCEPT !.reserved = a.reserved /\ keeps] IN
           /\ AdvanceMakes(s, x) /\ Kept(a, x) /\ Proper(x) /\ x.offers = a.offers
           /\ x.reserved = (a.reserved /\ keeps)
<1> DEFINE x == [a EXCEPT !.reserved = a.reserved /\ keeps]
<1>1. Proper(a)
  BY DEF AdvanceMakes
<1>2. /\ Proper(x) /\ Kept(a, x) /\ x.users = a.users /\ x.folded = a.folded
      /\ x.releases = a.releases /\ x.phase = a.phase /\ x.next = a.next
      /\ x.queue = a.queue /\ x.offers = a.offers
      /\ x.reserved = (a.reserved /\ keeps)
  BY <1>1, ProperUnreserved
<1> HIDE DEF x
<1>3. /\ (Finished(x) <=> Finished(a)) /\ (FlushOpen(x) <=> FlushOpen(a))
      /\ (FoldersGo(x) <=> FoldersGo(a))
  BY <1>2 DEF Kept, Finished, FlushOpen, FoldersGo
<1>4. AdvanceMakes(s, x)
  BY <1>2, <1>3 DEF AdvanceMakes, Kept
<1> QED BY <1>2, <1>4 DEF x

LEMMA AdvancedFacts ==
    ASSUME NEW t, Proper(t)
    PROVE  LET s == Advanced(t) IN
           /\ AdvanceMakes(t, s)
           /\ s.reserved <=> t.reserved /\ ~Releases(t)
<1> DEFINE a == AdvancedFor(t, members, {})
           keeps == ~Releases(t)
           s == [a EXCEPT !.reserved = a.reserved /\ keeps]
<1>1. AdvanceMakes(t, a) /\ a.reserved = t.reserved
  BY AdvancedForFacts
<1>2. s = Advanced(t)
  BY DEF Advanced
<1>3. keeps \in BOOLEAN
  OBVIOUS
<1> HIDE DEF a, keeps
<1>4. AdvanceMakes(t, s) /\ s.reserved = (a.reserved /\ keeps)
  BY <1>1, <1>3, FreedMakes
<1> HIDE DEF s
<1> QED BY <1>1, <1>2, <1>4 DEF keeps

-------------------------------------------------------------------------------
(* The matches of a room *)

LEMMA Numbered ==
    ASSUME Places
    PROVE  /\ Hosted \subseteq Games /\ NextGame \in Nat
           /\ NextGame \in Games => NextGame \notin Hosted
           /\ NextGame \in Games => NextGame = 1 \/ NextGame - 1 \in Hosted
<1>1. MaxGames \in Nat /\ Games = 1..MaxGames /\ \A g \in Games : g \in Int
  BY SeatingAssumption DEF Games
<1>2. Hosted \subseteq Games
  BY DEF Hosted
<1>3. \A g \in Hosted : g = 1 \/ g - 1 \in Hosted
  BY DEF Places
<1> DEFINE H == Hosted
           free == Games \ H
<1> HIDE DEF H
<1>4. CASE free = {}
  <2>1. H = 1..MaxGames
    BY <1>1, <1>2, <1>4 DEF H
  <2>2. Cardinality(H) = MaxGames
    BY <1>1, <2>1, FS_Interval
  <2> QED BY <1>1, <1>2, <2>2 DEF NextGame, H
<1>5. CASE free # {}
  <2>1. free \in SUBSET (0..MaxGames)
    BY <1>1
  <2> HIDE DEF free
  <2>2. PICK m \in free : \A n \in free : m <= n
    BY <1>1, <1>5, <2>1, LeastNumber
  <2>3. m \in Games /\ m \notin H /\ m \in Int /\ m >= 1
    BY <1>1 DEF free
  <2>4. \A n \in Games : n < m => n \in H
    BY <1>1, <2>2, <2>3 DEF free
  <2> DEFINE above == {n \in H : n > m}
  <2>5. above = {}
    <3>1. SUFFICES ASSUME above # {} PROVE FALSE
      OBVIOUS
    <3>2. above \in SUBSET (0..MaxGames)
      <4>1. H \subseteq 0..MaxGames
        BY <1>1, <1>2 DEF H
      <4> QED BY <4>1
    <3>3. PICK n \in above : \A j \in above : n <= j
      <4> HIDE DEF above
      <4> QED BY <1>1, <3>1, <3>2, LeastNumber
    <3>4. n \in H /\ n \in Int /\ n > m
      BY <1>1, <1>2 DEF H
    <3>5. n - 1 \in H
      BY <1>3, <2>3, <3>4 DEF H
    <3>6. n - 1 # m
      BY <2>3, <3>5
    <3>7. n - 1 \in above
      BY <2>3, <3>4, <3>5, <3>6
    <3> QED BY <3>3, <3>4, <3>7
  <2>6. H = 1..(m - 1)
    <3>1. ASSUME NEW n \in H PROVE n \in 1..(m - 1)
      <4>1. n \in Games /\ n \in Int /\ n # m /\ ~(n > m)
        BY <1>1, <1>2, <2>3, <2>5 DEF H
      <4> QED BY <1>1, <2>3, <4>1
    <3>2. ASSUME NEW n \in 1..(m - 1) PROVE n \in H
      <4>1. n \in Games /\ n < m
        BY <1>1, <2>3
      <4> QED BY <2>4, <4>1
    <3> QED BY <3>1, <3>2
  <2>7. Cardinality(H) = m - 1
    <3>1. m - 1 \in Nat /\ 1 - 1 <= m - 1
      BY <2>3
    <3> QED BY <2>3, <2>6, <3>1, FS_Interval
  <2>8. NextGame = m
    BY <2>3, <2>7 DEF NextGame, H
  <2>9. m = 1 \/ m - 1 \in H
    BY <2>3, <2>6
  <2> QED BY <1>2, <2>3, <2>8, <2>9 DEF H
<1> QED BY <1>4, <1>5

\* A match's table becomes x.
LEMMA PlacesKept ==
    ASSUME Places, NEW g \in Hosted, NEW x, Proper(x),
           x.id = tables[g].id, x.kind = tables[g].kind,
           tables' = [tables EXCEPT ![g] = x]
    PROVE  /\ Places' /\ Hosted' = Hosted /\ tables'[g] = x
           /\ \A h \in Games : h # g => tables'[h] = tables[h]
<1>1. g \in Games /\ tables \in [Games -> Table \cup {NoTable}]
  BY DEF Hosted, Places
<1>2. x \in Table /\ x # NoTable
  BY NoTableAssumption DEF Proper
<1>3. tables' \in [Games -> Table \cup {NoTable}]
  BY <1>1, <1>2
<1>4. tables'[g] = x /\ \A h \in Games : h # g => tables'[h] = tables[h]
  BY <1>1
<1>5. Hosted' = Hosted
  BY <1>2, <1>4, <1>1 DEF Hosted
<1>6. \A h \in Hosted : Proper(tables'[h])
  BY <1>4 DEF Hosted, Places
<1>7. \A h \in Hosted : tables'[h].id = tables[h].id /\ tables'[h].kind = tables[h].kind
  BY <1>4 DEF Hosted
<1>8. \A h \in Hosted : tables'[h].id \in Hosted /\ tables'[tables'[h].id].kind = tables'[h].kind
  BY <1>7 DEF Places
<1>9. \A h \in Hosted : h = 1 \/ h - 1 \in Hosted
  BY DEF Places
<1> QED BY <1>3, <1>4, <1>5, <1>6, <1>8, <1>9 DEF Places

LEMMA HostedProper ==
    ASSUME Inv, NEW g \in Hosted
    PROVE  g \in Games /\ Proper(tables[g]) /\ tables[g] \in Table
  BY DEF Inv, Places, Hosted, Proper

-------------------------------------------------------------------------------
(* Steps that release rows at most *)

Moves(g) ==
    LET t == tables[g]
        x == tables'[g]
    IN
    /\ x.id = t.id /\ x.kind = t.kind /\ x.round = t.round
    /\ Held(g)' /\ Unreserved(x)
    /\ Sure(x) /\ x.ended /\ x.kind # "flush" =>
         \A u \in Users : gameRows'[u] # <<g, x.round>>
    /\ t.reserved /\ ~x.reserved => \A u \in Users : tableRows'[u] # t.id

RowsShrink ==
    /\ Rows'
    /\ \A u \in Users : gameRows'[u] \in {gameRows[u], << >>} /\ tableRows'[u] \in {tableRows[u], 0}

LEMMA MatchRows ==
    ASSUME Rows, NEW u \in Users, NEW g, NEW r, gameRows[u] = <<g, r>>
    PROVE  gameRows[u] # << >> /\ g \in Games /\ r \in 1..MaxStarts /\ r # 0
<1>1. <<g, r>> # << >>
  OBVIOUS
<1>2. <<g, r>> \in Games \X (1..MaxStarts)
  BY <1>1 DEF Rows, Match
<1>3. g \in Games /\ r \in 1..MaxStarts
  BY <1>2
<1> QED BY <1>1, <1>3, SeatingAssumption DEF SeatingAssumption

LEMMA KnownRow ==
    ASSUME GameRowsKnown, NEW u \in Users, NEW g, NEW r, gameRows[u] = <<g, r>>
    PROVE  /\ g \in Hosted
           /\ Sure(tables[g]) => r = tables[g].round /\ (tables[g].ended => tables[g].kind = "flush")
<1>1. gameRows[u] # << >> /\ gameRows[u][1] = g /\ gameRows[u][2] = r
  OBVIOUS
<1> QED BY <1>1 DEF GameRowsKnown

LEMMA SureSame ==
    ASSUME NEW t, NEW x, x.kind = t.kind, x.round = t.round
    PROVE  Sure(x) <=> Sure(t)
  BY DEF Sure

LEMMA MovesKeep ==
    ASSUME Inv, Rest', Places', RowsShrink, Hosted \subseteq Hosted',
           \A g \in Hosted : Moves(g),
           \A g \in Hosted' \ Hosted : Held(g)' /\ Unreserved(tables'[g]),
           \A g \in Games : LockFits(g)'
    PROVE  Inv'
<1>1. \A g \in Hosted' : Held(g)' /\ Unreserved(tables'[g])
  BY DEF Moves
<1>2. \A g \in Hosted : Sure(tables'[g]) <=> Sure(tables[g])
  BY SureSame DEF Moves
<1>3. GameRowsKnown'
  <2>1. GameRowsKnown /\ Rows
    BY DEF Inv
  <2>2. ASSUME NEW u \in Users, gameRows'[u] # << >>
        PROVE  LET g == gameRows'[u][1] IN
               /\ g \in Hosted'
               /\ tables'[g].kind # "flush" => gameRows'[u][2] = 1
               /\ Sure(tables'[g]) => /\ gameRows'[u][2] = tables'[g].round
                                      /\ tables'[g].ended => tables'[g].kind = "flush"
    <3> DEFINE g == gameRows[u][1]
    <3>1. gameRows'[u] = gameRows[u]
      BY <2>2 DEF RowsShrink
    <3>2. /\ g \in Hosted /\ (tables[g].kind # "flush" => gameRows[u][2] = 1)
          /\ Sure(tables[g]) => gameRows[u][2] = tables[g].round
      BY <2>1, <2>2, <3>1 DEF GameRowsKnown
    <3>3. Moves(g) /\ gameRows[u] = <<g, gameRows[u][2]>>
      BY <2>1, <2>2, <3>1, <3>2 DEF Rows, Match
    <3> HIDE DEF g
    <3>4. tables'[g].kind = tables[g].kind /\ tables'[g].round = tables[g].round
      BY <3>3 DEF Moves
    <3>5. ASSUME Sure(tables'[g])
          PROVE  /\ gameRows'[u][2] = tables'[g].round
                 /\ tables'[g].ended => tables'[g].kind = "flush"
      <4>1. gameRows[u][2] = tables'[g].round
        BY <1>2, <3>2, <3>4, <3>5
      <4>2. gameRows'[u] = <<g, tables'[g].round>>
        BY <3>1, <3>3, <4>1
      <4> QED BY <3>1, <3>3, <3>5, <4>1, <4>2 DEF Moves
    <3> QED BY <3>1, <3>2, <3>4, <3>5 DEF g
  <2> QED BY <2>2 DEF GameRowsKnown
<1>4. TableRowsKnown'
  <2>1. TableRowsKnown
    BY DEF Inv
  <2>2. ASSUME NEW u \in Users, tableRows'[u] # 0
        PROVE  \E h \in Hosted' : /\ tables'[h].id = tableRows'[u]
                                  /\ tables'[h].reserved \/ ~Sure(tables'[h])
    <3>1. tableRows'[u] = tableRows[u]
      BY <2>2 DEF RowsShrink
    <3>2. PICK h \in Hosted : /\ tables[h].id = tableRows[u]
                              /\ tables[h].reserved \/ ~Sure(tables[h])
      BY <2>1, <2>2, <3>1 DEF TableRowsKnown
    <3> QED BY <1>2, <3>1, <3>2 DEF Moves
  <2> QED BY <2>2 DEF TableRowsKnown
<1>5. Rows'
  BY DEF RowsShrink
<1> QED BY <1>1, <1>3, <1>4, <1>5 DEF Inv

\* A match that the step does not concern.
LEMMA Stays ==
    ASSUME Inv, NEW g \in Hosted, tables'[g] = tables[g], lock'[g] = lock[g], RowsShrink,
           \A u \in Users : gameRows[u] = <<g, tables[g].round>> => gameRows'[u] = gameRows[u]
    PROVE  Moves(g)
<1>1. Held(g) /\ Unreserved(tables[g]) /\ Rows
  BY DEF Inv
<1>2. ToSet(tables[g].users) \subseteq Users
  BY HostedProper, Members DEF Table
<1>3. Held(g)'
  BY <1>1, <1>2 DEF Held, Starting
<1>4. ASSUME Sure(tables[g]), tables[g].ended, tables[g].kind # "flush", NEW u \in Users
      PROVE  gameRows'[u] # <<g, tables[g].round>>
  <2>1. GameRowsKnown
    BY DEF Inv
  <2>2. gameRows[u] # <<g, tables[g].round>>
    BY <1>4, <2>1, KnownRow
  <2>3. <<g, tables[g].round>> # << >>
    OBVIOUS
  <2> QED BY <2>2, <2>3 DEF RowsShrink
<1> QED BY <1>1, <1>3, <1>4 DEF Moves

\* A lock that is let go, or stays as it is.
LEMMA LocksFit ==
    ASSUME Inv, NEW g \in Games, Hosted \subseteq Hosted', lock'[g] = Idle,
           \A h \in Games : h # g => lock'[h] = lock[h],
           \A h \in Games : h # g /\ h \in Hosted => tables'[h] = tables[h]
    PROVE  \A h \in Games : LockFits(h)'
<1>1. LockFits(g)'
  BY DEF LockFits, Starting, Idle
<1>2. ASSUME NEW h \in Games, h # g PROVE LockFits(h)'
  <2>1. LockFits(h) /\ lock'[h] = lock[h]
    BY <1>2 DEF Inv
  <2>2. CASE h \in Hosted
    BY <1>2, <2>1, <2>2 DEF LockFits, Starting
  <2>3. CASE h \notin Hosted
    BY <2>1, <2>3 DEF LockFits, Starting, Hosted
  <2> QED BY <2>2, <2>3
<1> QED BY <1>1, <1>2

\* Releasing the rows of these matches.
LEMMA FreeFacts ==
    ASSUME Rows, NEW G \in SUBSET Hosted, Free(G), Places
    PROVE  /\ RowsShrink
           /\ \A g \in G, u \in Users : gameRows'[u] # <<g, tables[g].round>>
           /\ \A g \in G, u \in Users : tables[g].reserved => tableRows'[u] # tables[g].id
           /\ \A g \in Hosted \ G, u \in Users :
                gameRows[u] = <<g, tables[g].round>> => gameRows'[u] = gameRows[u]
<1>1. \A g \in G : tables[g].id \in Games /\ tables[g].id # 0
  BY DEF Places, Hosted, Games
<1>2. RowsShrink
  BY DEF Free, Rows, RowsShrink
<1>3. \A g \in G, u \in Users : gameRows'[u] # <<g, tables[g].round>>
  BY DEF Free
<1>4. \A g \in G, u \in Users : tables[g].reserved => tableRows'[u] # tables[g].id
  BY <1>1 DEF Free
<1>5. ASSUME NEW g \in Hosted \ G, NEW u \in Users, gameRows[u] = <<g, tables[g].round>>
      PROVE  gameRows'[u] = gameRows[u]
  <2>1. ~\E h \in G : gameRows[u] = <<h, tables[h].round>>
    BY <1>5
  <2> QED BY <2>1 DEF Free
<1> QED BY <1>2, <1>3, <1>4, <1>5

-------------------------------------------------------------------------------
(* A handler that ends with _advance_table *)

\* What a handler may make of a match's table t: s, where `freed' says that it releases
\* the reservations itself.
Follows(t, s, freed) ==
    /\ s.id = t.id /\ s.kind = t.kind /\ s.round = t.round
    /\ s.reserved => t.reserved
    /\ ~Releases(t) => s.reserved = t.reserved
    /\ InPlay(s) => InPlay(t) /\ s.users = t.users /\ t.departed \subseteq s.departed
    /\ freed => s.ended
    /\ s.ended /\ t.kind # "flush" => freed \/ t.ended \/ t.engine = "none"
    /\ freed \/ Unreserved(s)

\* Its last _advance_table leaves x, and the rows are released if that or another did.
LEMMA FollowsMoves ==
    ASSUME Inv, NEW g \in Hosted, NEW s, NEW freed \in BOOLEAN, NEW free \in BOOLEAN,
           Follows(tables[g], s, freed), ~Starting(g), lock'[g] = Idle,
           free = (freed \/ Releases(tables[g]) \/ Releases(s)),
           AdvanceMakes(s, tables'[g]), Proper(s),
           tables'[g].reserved <=> s.reserved /\ ~free,
           RowsShrink,
           \A u \in Users : free => gameRows'[u] # <<g, tables[g].round>>,
           \A u \in Users : free /\ tables[g].reserved => tableRows'[u] # tables[g].id,
           \A u \in Users \ s.departed :
             ~free /\ gameRows[u] = <<g, tables[g].round>> => gameRows'[u] = gameRows[u]
    PROVE  Moves(g)
<1> DEFINE t == tables[g]
           x == tables'[g]
<1>1. g \in Games /\ Proper(t) /\ t \in Table /\ Held(g) /\ Unreserved(t) /\ Rows
  BY HostedProper DEF Inv
<1>2. /\ AdvanceMakes(s, x) /\ Kept(s, x) /\ s \in Table /\ x \in Table
      /\ x.reserved <=> s.reserved /\ ~free
  BY DEF AdvanceMakes, Proper
<1>3. /\ x.id = t.id /\ x.kind = t.kind /\ x.round = t.round /\ x.engine = s.engine
      /\ x.ended = s.ended /\ x.departed = s.departed
  BY <1>2 DEF Follows, Kept
\* In play before and after, the match releases nothing.
<1>4. InPlay(s) => ~free
  <2>1. SUFFICES ASSUME InPlay(s) PROVE ~free
    OBVIOUS
  <2>2. InPlay(t) /\ ~freed
    BY <2>1 DEF Follows, InPlay
  <2>3. ~Releases(t)
    BY <1>1, <2>2, ReleasesFacts DEF InPlay, FoldersGo, Finished, FlushOpen
  <2>4. ~Releases(s)
    BY <2>1, ReleasesFacts DEF InPlay, FoldersGo, Finished, FlushOpen, Proper
  <2> QED BY <2>2, <2>3, <2>4
<1> HIDE DEF x
<1>5. Unreserved(x)
  <2>1. SUFFICES ASSUME t.kind # "flush", x.ended \/ x.phase = "OPEN", x.reserved PROVE FALSE
    BY <1>3 DEF Unreserved
  <2>2. ~freed /\ s.reserved
    BY <1>2, <2>1
  <2>3. s.kind = t.kind
    BY DEF Follows
  <2>4. s.ended \/ s.phase = "OPEN"
    BY <1>2, <1>3, <2>1, <2>3 DEF AdvanceMakes
  <2> QED BY <2>1, <2>2, <2>3, <2>4 DEF Follows, Unreserved
<1>6. Held(g)'
  <2>1. SUFFICES ASSUME x.phase = "STARTED", ~x.ended, x.engine = "playing"
                 PROVE  \A u \in ToSet(x.users) \ x.departed : gameRows'[u] = <<g, x.round>>
    BY DEF Held, Idle, x
  <2>2. InPlay(s) /\ x.users = s.users
    BY <1>2, <1>3, <2>1 DEF AdvanceMakes, InPlay
  <2>3. ~free
    BY <1>4, <2>2
  <2>4. InPlay(t) /\ x.users = t.users /\ t.departed \subseteq x.departed
    BY <1>3, <2>2 DEF Follows
  <2>5. \A u \in ToSet(t.users) \ t.departed : gameRows[u] = <<g, t.round>>
    BY <1>1, <2>4 DEF Held, InPlay
  <2>6. ToSet(t.users) \subseteq Users
    BY <1>1, Members DEF Table
  <2>7. ASSUME NEW u \in ToSet(x.users) \ x.departed PROVE gameRows'[u] = <<g, x.round>>
    <3>1. u \in Users /\ u \in ToSet(t.users) \ t.departed /\ u \notin s.departed
      BY <1>3, <2>4, <2>6
    <3> QED BY <1>3, <2>3, <2>5, <3>1
  <2> QED BY <2>7
<1>7. ASSUME Sure(x), x.ended, x.kind # "flush", NEW u \in Users
      PROVE  gameRows'[u] # <<g, x.round>>
  <2>1. GameRowsKnown /\ Sure(t)
    BY <1>3, <1>7, SureSame DEF Inv
  <2>8. <<g, t.round>> # << >>
    OBVIOUS
  <2>2. SUFFICES ASSUME ~free, gameRows[u] = <<g, t.round>> PROVE FALSE
    BY <1>3, <2>8 DEF RowsShrink
  <2>3. s.ended /\ t.kind # "flush"
    BY <1>3, <1>7
  <2>4. t.ended \/ t.engine = "none"
    BY <2>2, <2>3 DEF Follows
  <2>6. ~t.ended
    BY <2>1, <2>2, <2>3, KnownRow
  <2>7. t.round # 0
    BY <1>1, <2>2, MatchRows
  <2> QED BY <1>1, <2>3, <2>4, <2>6, <2>7 DEF Proper, OneStart
<1>8. ASSUME t.reserved, ~x.reserved, NEW u \in Users PROVE tableRows'[u] # t.id
  <2>1. free
    BY <1>1, <1>2, <1>8 DEF Follows, Table
  <2> QED BY <1>8, <2>1
<1> QED BY <1>3, <1>5, <1>6, <1>7, <1>8 DEF Moves, x

LEMMA SettleKeeps ==
    ASSUME Inv, NEW g \in Hosted, NEW s, NEW freed \in BOOLEAN,
           Proper(s), Follows(tables[g], s, freed), Settle(g, s, freed),
           ~Starting(g), lock'[g] = Idle, \A h \in Games : h # g => lock'[h] = lock[h],
           Rest'
    PROVE  Inv'
<1> DEFINE t == tables[g]
           a == Advanced(s)
           free == freed \/ Releases(t) \/ Releases(s)
           x == [a EXCEPT !.reserved = a.reserved /\ ~free]
<1>1. Places /\ Rest /\ Rows /\ g \in Games /\ Proper(t) /\ t \in Table
  BY HostedProper DEF Inv
<1>2. AdvanceMakes(s, a) /\ (a.reserved <=> s.reserved /\ ~Releases(s))
  BY AdvancedFacts
<1>3. /\ tables' = [tables EXCEPT ![g] = x]
      /\ IF free THEN Free({g}) ELSE UNCHANGED db
  BY DEF Settle
<1> HIDE DEF a
<1>4. Proper(a) /\ a \in Table /\ Kept(s, a)
  BY <1>2 DEF AdvanceMakes, Proper
<1>5. (~free) \in BOOLEAN /\ free \in BOOLEAN
  OBVIOUS
<1>6. Releases(s) => free
  OBVIOUS
<1>7. /\ AdvanceMakes(s, x) /\ Kept(a, x) /\ Proper(x) /\ x.reserved = (a.reserved /\ ~free)
  <2> HIDE DEF free
  <2> QED BY <1>2, <1>5, FreedMakes
<1>17. free = (freed \/ Releases(tables[g]) \/ Releases(s))
  OBVIOUS
<1> HIDE DEF x, free
<1>8. x.reserved <=> s.reserved /\ ~free
  BY <1>2, <1>6, <1>7
<1>9. x.id = t.id /\ x.kind = t.kind
  BY <1>4, <1>7 DEF Follows, Kept
<1>10. /\ Places' /\ Hosted' = Hosted /\ tables'[g] = x
       /\ \A h \in Games : h # g => tables'[h] = tables[h]
  BY <1>1, <1>3, <1>7, <1>9, PlacesKept
<1>11. /\ RowsShrink
       /\ \A h \in Hosted, u \in Users : h # g /\ gameRows[u] = <<h, tables[h].round>> =>
            gameRows'[u] = gameRows[u]
       /\ free => \A u \in Users : /\ gameRows'[u] # <<g, t.round>>
                                   /\ t.reserved => tableRows'[u] # t.id
       /\ ~free => gameRows' = gameRows
  <2>1. CASE free
    BY <1>1, <1>3, <2>1, FreeFacts
  <2>2. CASE ~free
    BY <1>1, <1>3, <2>2 DEF db, RowsShrink, Rows
  <2> QED BY <2>1, <2>2
<1>12. \A h \in Games : LockFits(h)'
  BY <1>1, <1>10, LocksFit
<1>13. Moves(g)
  BY <1>5, <1>7, <1>8, <1>10, <1>11, <1>17, FollowsMoves
<1>14. ASSUME NEW h \in Hosted, h # g PROVE Moves(h)
  <2>1. h \in Games
    BY DEF Hosted
  <2> QED BY <1>10, <1>11, <1>14, <2>1, Stays
<1> QED BY <1>10, <1>11, <1>12, <1>13, <1>14, MovesKeep

\* What a command makes of the table as it found it.
Changes(t, s, freed) ==
    /\ s.id = t.id /\ s.kind = t.kind /\ s.round = t.round /\ s.reserved = t.reserved
    /\ InPlay(s) => InPlay(t) /\ s.users = t.users /\ t.departed \subseteq s.departed
    /\ freed => s.ended
    /\ s.ended /\ t.kind # "flush" => freed \/ t.ended \/ t.engine = "none"
    /\ freed \/ Unreserved(s)

LEMMA NowFacts ==
    ASSUME Inv, NEW g \in Hosted
    PROVE  /\ AdvanceMakes(tables[g], Now(g)) /\ Unreserved(Now(g))
           /\ Proper(Now(g)) /\ Now(g) \in Table
           /\ Now(g).reserved <=> tables[g].reserved /\ ~Releases(tables[g])
<1> DEFINE t == Now(g)
<1>1. Proper(tables[g]) /\ Unreserved(tables[g])
  BY HostedProper DEF Inv
<1>2. AdvanceMakes(tables[g], t) /\ (t.reserved <=> tables[g].reserved /\ ~Releases(tables[g]))
  BY <1>1, AdvancedFacts DEF Now
<1> HIDE DEF t
<1>3. Proper(t) /\ t \in Table
  BY <1>2 DEF AdvanceMakes, Proper
<1>4. Unreserved(t)
  BY <1>1, <1>2 DEF AdvanceMakes, Unreserved, Kept
<1> QED BY <1>2, <1>3, <1>4 DEF t

LEMMA CommandKeeps ==
    ASSUME Inv, NEW g \in Games, Unlocked(g), NEW u \in Users, NEW s, NEW freed \in BOOLEAN,
           Proper(s), Changes(Now(g), s, freed), Command(u, g, s, freed)
    PROVE  Inv'
<1> DEFINE t == Now(g)
<1>1. g \in Hosted /\ lock[g] = Idle
  BY DEF Unlocked, Hosted
<1>2. /\ AdvanceMakes(tables[g], t) /\ t \in Table
      /\ t.reserved <=> tables[g].reserved /\ ~Releases(tables[g])
  BY <1>1, NowFacts
<1>3. Changes(t, s, freed)
  OBVIOUS
<1>4. tables[g].reserved \in BOOLEAN /\ t.reserved \in BOOLEAN
  BY <1>1, <1>2, HostedProper DEF Table
<1> HIDE DEF t
<1>5. Follows(tables[g], s, freed)
  <2>1. InPlay(t) => InPlay(tables[g]) /\ t.users = tables[g].users
    BY <1>2 DEF AdvanceMakes, InPlay, Kept
  <2>2. Kept(tables[g], t)
    BY <1>2 DEF AdvanceMakes
  <2> QED BY <1>2, <1>3, <1>4, <2>1, <2>2 DEF Follows, Changes, Kept
<1>6. ~Starting(g)
  BY <1>1 DEF Starting, Idle
<1>7. Settle(g, s, freed) /\ UNCHANGED <<members, lock, leaving, failures>>
  BY DEF Command
<1>8. Rest'
  BY <1>1, <1>7 DEF Inv, Rest, Settle
<1> QED BY <1>1, <1>5, <1>6, <1>7, <1>8, SettleKeeps

-------------------------------------------------------------------------------
(* What each command makes of the table as it finds it *)

Settled(t) ==
    /\ Proper(t) /\ Unreserved(t) /\ ~FoldersGo(t)
    /\ t.ended => t.phase = "ENDED"
    /\ t.phase # "COMPLETED" => t.offers = {}
    /\ t.phase = "STARTED" => ~t.ended /\ ~Finished(t) /\ ~FlushOpen(t)

LEMMA NowSettled ==
    ASSUME Inv, NEW g \in Hosted
    PROVE  Settled(Now(g))
  BY NowFacts DEF Settled, AdvanceMakes

\* Queue and offers change; nobody takes or leaves a seat.
LEMMA QueueChanges ==
    ASSUME NEW t, Settled(t), NEW s \in Table, Kept(t, s),
           s.users = t.users, s.folded = t.folded, s.phase = t.phase, s.next = t.next,
           s.releases = t.releases, s.reserved = t.reserved,
           NoRepeats(s.queue), t.phase = "COMPLETED" => OffersFit(s),
           s.offers # {} => t.phase = "COMPLETED" /\ t.kind = "callbreak"
    PROVE  Proper(s) /\ Changes(t, s, FALSE) /\ Settled(s)
<1>1. t \in Table /\ Proper(t) /\ Unreserved(t)
  BY DEF Settled, Proper
<1>2. Phases(s)
  BY <1>1 DEF Proper, Phases, Kept
<1>3. t.phase = "COMPLETED" => ReleasesFit(s)
  BY <1>1 DEF Proper, ReleasesFit
<1>4. t.kind = "callbreak" /\ ~t.ended => CallBreakSeats(s)
  BY <1>1 DEF Proper, CallBreakSeats, Kept
<1>5. t.kind # "flush" => OneStart(s)
  BY <1>1 DEF Proper, OneStart, Kept
<1>6. Proper(s)
  BY <1>1, <1>2, <1>3, <1>4, <1>5 DEF Proper, Kept
<1>7. Unreserved(s)
  BY <1>1 DEF Unreserved, Kept
<1>8. Changes(t, s, FALSE)
  BY <1>1, <1>7 DEF Changes, Kept, InPlay
<1>9. /\ (Finished(s) <=> Finished(t)) /\ (FlushOpen(s) <=> FlushOpen(t))
      /\ (FoldersGo(s) <=> FoldersGo(t))
  BY DEF Kept, Finished, FlushOpen, FoldersGo
<1>10. Settled(s)
  BY <1>6, <1>7, <1>9 DEF Settled, Kept
<1> QED BY <1>6, <1>8, <1>10

LEMMA SeatedSame ==
    ASSUME NEW t, NEW s, s.users = t.users, s.departed = t.departed, s.next = t.next
    PROVE  Seated(s) = Seated(t)
  BY DEF Seated

LEMMA Appended ==
    ASSUME NEW S, NEW q \in Seq(S), NEW x \in S
    PROVE  /\ Append(q, x) \in Seq(S) /\ Len(Append(q, x)) = Len(q) + 1
           /\ ToSet(Append(q, x)) = ToSet(q) \cup {x}
           /\ NoRepeats(q) /\ x \notin ToSet(q) => NoRepeats(Append(q, x))
<1> DEFINE r == Append(q, x)
<1>1. /\ r \in Seq(S) /\ Len(r) = Len(q) + 1 /\ Len(q) \in Nat
      /\ \A i \in 1..Len(q) : r[i] = q[i]
      /\ r[Len(q) + 1] = x
  OBVIOUS
<1> HIDE DEF r
<1>2. \A i \in 1..Len(r) : i \in 1..Len(q) \/ i = Len(q) + 1
  BY <1>1
<1>3. \A i \in 1..Len(q) : i \in 1..Len(r)
  BY <1>1
<1>4. Len(q) + 1 \in 1..Len(r)
  BY <1>1
<1>5. ToSet(r) = ToSet(q) \cup {x}
  <2>1. ASSUME NEW y \in ToSet(r) PROVE y \in ToSet(q) \cup {x}
    <3>1. PICK i \in 1..Len(r) : r[i] = y
      BY <1>1, Members
    <3> QED BY <1>1, <1>2, <3>1, Members
  <2>2. ASSUME NEW y \in ToSet(q) PROVE y \in ToSet(r)
    <3>1. PICK i \in 1..Len(q) : q[i] = y
      BY Members
    <3> QED BY <1>1, <1>3, <3>1, Members
  <2>3. x \in ToSet(r)
    BY <1>1, <1>4, Members
  <2> QED BY <2>1, <2>2, <2>3
<1>6. ASSUME NoRepeats(q), x \notin ToSet(q) PROVE NoRepeats(r)
  <2>1. \A i \in 1..Len(q) : q[i] # x
    BY <1>6, Members
  <2>2. ASSUME NEW i \in 1..Len(r), NEW j \in 1..Len(r), r[i] = r[j] PROVE i = j
    BY <1>1, <1>2, <1>6, <2>1, <2>2 DEF NoRepeats
  <2> QED BY <2>2 DEF NoRepeats
<1> QED BY <1>1, <1>5, <1>6 DEF r

LEMMA JoinChanges ==
    ASSUME NEW t, Settled(t), NEW u \in Users, t.phase = "OPEN", Len(t.users) < Capacity
    PROVE  LET s == [t EXCEPT !.users = Append(@, u), !.queue = Without(@, {u})] IN
           Proper(s) /\ Changes(t, s, FALSE)
<1> DEFINE q == Without(t.queue, {u})
           w == Append(t.users, u)
           s == [t EXCEPT !.users = w, !.queue = q]
<1>1. t \in Table /\ Proper(t) /\ Unreserved(t) /\ t.users \in Seq(Users) /\ t.queue \in Seq(Users)
  BY DEF Settled, Proper, Table
<1>2. q \in Seq(Users) /\ NoRepeats(q)
  BY <1>1, Left DEF Proper
<1>3. w \in Seq(Users) /\ Len(w) <= Capacity
  BY <1>1, Appended, SeatingAssumption DEF SeatingAssumption
<1> HIDE DEF q, w
<1>4. s \in Table
  BY <1>1, <1>2, <1>3 DEF Table
<1>5. /\ Kept(t, s) /\ s.users = w /\ s.queue = q /\ s.phase = t.phase /\ s.next = t.next
      /\ s.releases = t.releases /\ s.reserved = t.reserved /\ s.offers = t.offers
      /\ s.folded = t.folded
  BY <1>1 DEF Table, Kept
<1>6. s = [t EXCEPT !.users = Append(@, u), !.queue = Without(@, {u})]
  BY DEF w, q
<1> HIDE DEF s
<1>7. Proper(s)
  <2>1. Phases(s)
    BY <1>1, <1>5 DEF Proper, Phases, Kept
  <2>2. t.kind = "callbreak" /\ ~t.ended => CallBreakSeats(s)
    BY <1>1, <1>5 DEF Proper, CallBreakSeats, Kept
  <2>3. t.kind # "flush" => OneStart(s)
    BY <1>1, <1>5 DEF Proper, OneStart, Kept
  <2> QED BY <1>1, <1>2, <1>3, <1>4, <1>5, <2>1, <2>2, <2>3 DEF Proper, Kept
<1>8. Changes(t, s, FALSE)
  BY <1>1, <1>5 DEF Changes, Kept, InPlay, Unreserved
<1> QED BY <1>6, <1>7, <1>8

LEMMA JoinQueueChanges ==
    ASSUME NEW t, Settled(t), NEW u \in Users, u \notin ToSet(t.queue)
    PROVE  LET s == [t EXCEPT !.queue = Append(@, u)] IN Proper(s) /\ Changes(t, s, FALSE)
<1> DEFINE q == Append(t.queue, u)
           s == [t EXCEPT !.queue = q]
<1>1. t \in Table /\ Proper(t) /\ t.queue \in Seq(Users)
  BY DEF Settled, Proper, Table
<1>2. q \in Seq(Users) /\ NoRepeats(q)
  BY <1>1, Appended DEF Proper
<1> HIDE DEF q
<1>3. s \in Table
  BY <1>1, <1>2 DEF Table
<1>4. /\ Kept(t, s) /\ s.users = t.users /\ s.queue = q /\ s.phase = t.phase /\ s.next = t.next
      /\ s.releases = t.releases /\ s.reserved = t.reserved /\ s.offers = t.offers
      /\ s.folded = t.folded
  BY <1>1 DEF Table, Kept
<1>5. s = [t EXCEPT !.queue = Append(@, u)]
  BY DEF q
<1> HIDE DEF s
<1>6. Seated(s) = Seated(t)
  BY <1>4, SeatedSame DEF Kept
<1>7. t.phase = "COMPLETED" => OffersFit(s)
  BY <1>1, <1>4, <1>6 DEF Proper, OffersFit
<1>8. s.offers # {} => t.phase = "COMPLETED" /\ t.kind = "callbreak"
  BY <1>1, <1>4 DEF Settled, Proper, Phases
<1> QED BY <1>2, <1>3, <1>4, <1>5, <1>7, <1>8, QueueChanges

\* Offers of a settled table.
Fit(O, t) ==
    /\ O \subseteq [seat : 1..Capacity, to : Users]
    /\ O # {} => t.phase = "COMPLETED" /\ t.kind = "callbreak"
    /\ \A o \in O : /\ t.next[o.seat] = Nobody
                    /\ o.to \notin Seated(t)
                    /\ \A p \in O : p # o => p.seat # o.seat /\ p.to # o.to

LEMMA SettledOffers ==
    ASSUME NEW t, Settled(t)
    PROVE  /\ t \in Table /\ t.queue \in Seq(Users) /\ NoRepeats(t.queue)
           /\ \A O \in SUBSET t.offers : Fit(O, t)
<1>1. t \in Table /\ Proper(t) /\ Phases(t)
  BY DEF Settled, Proper
<1>2. t.queue \in Seq(Users) /\ t.offers \subseteq [seat : 1..Capacity, to : Users]
  BY <1>1 DEF Table
<1>3. t.offers # {} => t.phase = "COMPLETED" /\ t.kind = "callbreak"
  BY <1>1 DEF Settled, Phases
<1>4. t.phase = "COMPLETED" => OffersFit(t)
  BY <1>1 DEF Proper
<1>5. NoRepeats(t.queue)
  BY <1>1 DEF Proper
<1>6. ASSUME NEW O \in SUBSET t.offers PROVE Fit(O, t)
  BY <1>2, <1>3, <1>4 DEF Fit, OffersFit
<1> QED BY <1>1, <1>2, <1>5, <1>6

\* An offer is made, taken back or answered with a refusal, or a waiter goes.
LEMMA AnswerChanges ==
    ASSUME NEW t, Settled(t), NEW Q \in Seq(Users), NoRepeats(Q), NEW O, Fit(O, t),
           NEW s, s = [t EXCEPT !.offers = O, !.queue = Q]
    PROVE  Proper(s) /\ Changes(t, s, FALSE) /\ Settled(s)
<1>1. t \in Table
  BY DEF Settled, Proper
<1>2. s \in Table
  BY <1>1 DEF Table, Fit
<1>3. /\ Kept(t, s) /\ s.users = t.users /\ s.queue = Q /\ s.phase = t.phase /\ s.next = t.next
      /\ s.releases = t.releases /\ s.reserved = t.reserved /\ s.offers = O
      /\ s.folded = t.folded
  BY <1>1 DEF Table, Kept
<1>4. Seated(s) = Seated(t)
  BY <1>3, SeatedSame DEF Kept
<1>5. OffersFit(s) /\ (s.offers # {} => t.phase = "COMPLETED" /\ t.kind = "callbreak")
  BY <1>3, <1>4 DEF OffersFit, Fit
<1> QED BY <1>2, <1>3, <1>5, QueueChanges

LEMMA DequeuedChanges ==
    ASSUME NEW t, Settled(t), NEW u
    PROVE  Proper(Dequeued(t, u)) /\ Changes(t, Dequeued(t, u), FALSE) /\ Settled(Dequeued(t, u))
<1> DEFINE Q == Without(t.queue, {u})
           O == {o \in t.offers : o.to # u}
<1>1. Dequeued(t, u) = [t EXCEPT !.offers = O, !.queue = Q]
  <2>1. t \in Table
    BY SettledOffers
  <2> QED BY <2>1 DEF Dequeued, Table
<1>2. Q \in Seq(Users) /\ NoRepeats(Q)
  BY SettledOffers, Left
<1>3. O \in SUBSET t.offers
  OBVIOUS
<1> HIDE DEF O, Q
<1>4. Fit(O, t)
  BY <1>3, SettledOffers
<1> QED BY <1>1, <1>2, <1>4, AnswerChanges

LEMMA DeclineChanges ==
    ASSUME NEW t, Settled(t), NEW u, NEW o
    PROVE  LET s == [t EXCEPT !.offers = @ \ {o}, !.queue = Without(@, {u})] IN
           Proper(s) /\ Changes(t, s, FALSE)
<1> DEFINE Q == Without(t.queue, {u})
           O == t.offers \ {o}
           s == [t EXCEPT !.offers = O, !.queue = Q]
<1>1. Q \in Seq(Users) /\ NoRepeats(Q)
  BY SettledOffers, Left
<1>2. O \in SUBSET t.offers
  OBVIOUS
<1>3. s = [t EXCEPT !.offers = O, !.queue = Q]
  OBVIOUS
<1> HIDE DEF O, Q, s
<1>4. Fit(O, t)
  BY <1>2, SettledOffers
<1>5. Proper(s) /\ Changes(t, s, FALSE)
  BY <1>1, <1>3, <1>4, AnswerChanges
<1> QED BY <1>5 DEF s, O, Q

LEMMA ReleaseSeats ==
    ASSUME NEW t \in Table, NEW k \in 1..Len(t.releases)
    PROVE  t.releases[k] \in [seat : 1..Capacity, by : Users] /\ t.releases[k].seat \in 1..Capacity
<1> DEFINE S == [seat : 1..Capacity, by : Users]
<1>1. t.releases \in Seq(S)
  BY DEF Table
<1>2. \A r \in S : r.seat \in 1..Capacity
  OBVIOUS
<1> HIDE DEF S
<1>3. t.releases[k] \in S
  BY <1>1
<1> QED BY <1>2, <1>3 DEF S

LEMMA InviteChanges ==
    ASSUME NEW t, Settled(t), t.phase = "COMPLETED", NEW i \in 1..Len(t.releases),
           \A o \in t.offers : o.seat # t.releases[i].seat,
           NEW to \in Users \ (Seated(t) \cup Offered(t))
    PROVE  LET s == [t EXCEPT !.offers = @ \cup {[seat |-> t.releases[i].seat, to |-> to]}] IN
           Proper(s) /\ Changes(t, s, FALSE)
<1> DEFINE r == t.releases[i]
           n == [seat |-> r.seat, to |-> to]
           O == t.offers \cup {n}
           s == [t EXCEPT !.offers = O]
<1>1. /\ t \in Table /\ t.queue \in Seq(Users) /\ NoRepeats(t.queue) /\ Fit(t.offers, t)
  BY SettledOffers
<1>2. r \in [seat : 1..Capacity, by : Users]
  BY <1>1, ReleaseSeats
<1>3. t.kind = "callbreak" /\ ReleasesFit(t)
  <2>1. t.releases # << >>
    OBVIOUS
  <2> QED BY <2>1 DEF Settled, Proper, Phases
<1>4. t.next[r.seat] = Nobody
  BY <1>3 DEF ReleasesFit
<1>5. s = [t EXCEPT !.offers = O, !.queue = t.queue]
  BY <1>1 DEF Table
<1>6. n \in [seat : 1..Capacity, to : Users] /\ n.seat = r.seat /\ n.to = to
  BY <1>2
<1>7. \A o \in t.offers : o.seat # r.seat /\ o.to # to
  BY DEF Offered
<1> HIDE DEF r, n, s
<1>8. Fit(O, t)
  BY <1>1, <1>3, <1>4, <1>6, <1>7 DEF Fit
<1> HIDE DEF O
<1>9. Proper(s) /\ Changes(t, s, FALSE)
  BY <1>1, <1>5, <1>8, AnswerChanges
<1> QED BY <1>9 DEF s, O, n, r

\* One seat of a completed table is taken or given up.
Set(n, i, x) == [n EXCEPT ![i] = x]

LEMMA SeatSet ==
    ASSUME NEW S, NEW n \in Seq(S), NEW i, NEW x \in S
    PROVE  LET m == Set(n, i, x) IN
           /\ m \in Seq(S) /\ Len(m) = Len(n)
           /\ i \in 1..Len(n) => m[i] = x
           /\ \A j \in 1..Len(n) : j # i => m[j] = n[j]
           /\ ToSet(m) \subseteq ToSet(n) \cup {x}
           /\ (m = << >>) <=> (n = << >>)
<1> DEFINE m == Set(n, i, x)
<1>1. n \in [1..Len(n) -> S] /\ Len(n) \in Nat /\ DOMAIN n = 1..Len(n)
  OBVIOUS
<1>2. ASSUME NEW d, n \in [d -> S]
      PROVE  m \in [d -> S] /\ \A j \in d : m[j] = IF j = i THEN x ELSE n[j]
  BY <1>2 DEF Set
<1> HIDE DEF m
<1>3. m \in [1..Len(n) -> S] /\ \A j \in 1..Len(n) : m[j] = IF j = i THEN x ELSE n[j]
  BY <1>1, <1>2
<1>4. m \in Seq(S) /\ Len(m) = Len(n)
  BY <1>1, <1>3
<1>5. ASSUME NEW y \in ToSet(m) PROVE y \in ToSet(n) \cup {x}
  <2>1. PICK j \in 1..Len(n) : m[j] = y
    BY <1>4, Members
  <2>2. n[j] \in ToSet(n)
    BY Members
  <2> QED BY <1>3, <2>1, <2>2
<1>6. (m = << >>) <=> (n = << >>)
  BY <1>4
<1> QED BY <1>1, <1>3, <1>4, <1>5, <1>6 DEF m

LEMMA AcceptChanges ==
    ASSUME NEW t, Settled(t), t.phase = "COMPLETED", NEW o \in t.offers, NEW u \in Users,
           o.to = u, t.next[o.seat] = Nobody
    PROVE  LET s == [t EXCEPT !.next[o.seat] = u,
                              !.releases = AtPositions(@, {n \in 1..Len(@) : @[n].seat # o.seat}),
                              !.offers = @ \ {o},
                              !.queue = Without(@, {u})]
           IN Proper(s) /\ Changes(t, s, FALSE)
<1> DEFINE Release == [seat : 1..Capacity, by : Users]
           I == {n \in 1..Len(t.releases) : t.releases[n].seat # o.seat}
           R == AtPositions(t.releases, I)
           Q == Without(t.queue, {u})
           N == [t.next EXCEPT ![o.seat] = u]
           s == [t EXCEPT !.next = N, !.releases = R, !.offers = t.offers \ {o}, !.queue = Q]
<1>1. t \in Table /\ Proper(t) /\ Unreserved(t) /\ ~t.ended /\ Phases(t)
  BY DEF Settled, Proper
<1>2. t.next \in Seq(Seat) /\ t.releases \in Seq(Release) /\ t.queue \in Seq(Users)
  BY <1>1 DEF Table
<1>3. t.kind = "callbreak" /\ t.engine # "none"
  BY <1>1 DEF Phases
<1>4. /\ Len(t.users) = Capacity /\ Len(t.next) = Capacity
      /\ \A i \in 1..Capacity : t.next[i] = Nobody =>
           \E n \in 1..Len(t.releases) : t.releases[n].seat = i
      /\ \A i \in 1..Capacity : t.users[i] \notin t.departed => t.next[i] = t.users[i]
  BY <1>1, <1>3 DEF Proper, CallBreakSeats
<1>5. OffersFit(t) /\ ReleasesFit(t)
  BY <1>1 DEF Proper
<1>6. o.seat \in 1..Capacity /\ u # Nobody /\ u \in Seat
  <2>1. t.offers \subseteq [seat : 1..Capacity, to : Users]
    BY <1>1 DEF Table
  <2> QED BY <2>1, SeatingAssumption DEF SeatingAssumption, Seat
<1>7. I \in SUBSET (1..Len(t.releases)) /\ \A n \in I : t.releases[n].seat # o.seat
  OBVIOUS
<1>8. \A n \in 1..Len(t.releases) : t.releases[n].seat # o.seat => n \in I
  OBVIOUS
<1> HIDE DEF I, Release
<1>9. /\ R \in Seq(Release)
      /\ \A k \in 1..Len(R) : Position(I, k) \in I /\ R[k] = t.releases[Position(I, k)]
      /\ \A j, k \in 1..Len(R) : j < k => Position(I, j) < Position(I, k)
      /\ \A i \in I : UpTo(I, i) \in 1..Len(R) /\ R[UpTo(I, i)] = t.releases[i]
  BY <1>2, <1>7, AtPositionsFacts
<1>10. Q \in Seq(Users) /\ NoRepeats(Q)
  BY <1>1, <1>2, Left DEF Proper
<1>11. /\ N \in Seq(Seat) /\ Len(N) = Capacity /\ N[o.seat] = u /\ N # << >>
       /\ \A j \in 1..Capacity : j # o.seat => N[j] = t.next[j]
       /\ ToSet(N) \subseteq ToSet(t.next) \cup {u}
  <2>1. t.next # << >>
    BY <1>2, <1>4, SeatingAssumption DEF SeatingAssumption
  <2>2. N = Set(t.next, o.seat, u)
    BY DEF Set
  <2> HIDE DEF N
  <2> QED BY <1>2, <1>4, <1>6, <2>1, <2>2, SeatSet
<1>12. s = [t EXCEPT !.next[o.seat] = u,
                     !.releases = AtPositions(@, {n \in 1..Len(@) : @[n].seat # o.seat}),
                     !.offers = @ \ {o},
                     !.queue = Without(@, {u})]
  BY <1>1 DEF I, Table
<1> HIDE DEF R, Q, N
<1>13. s \in Table
  BY <1>1, <1>9, <1>10, <1>11 DEF Table, Release
<1>14. /\ Kept(t, s) /\ s.users = t.users /\ s.queue = Q /\ s.phase = t.phase /\ s.next = N
       /\ s.releases = R /\ s.reserved = t.reserved /\ s.offers = t.offers \ {o}
       /\ s.folded = t.folded
  BY <1>1 DEF Table, Kept
<1> HIDE DEF s
<1>15. Phases(s)
  BY <1>1, <1>3, <1>14 DEF Phases, Kept
<1>16. OffersFit(s)
  <2>1. Seated(s) \subseteq Seated(t) \cup {u}
    <3>1. t.next # << >>
      BY <1>2, <1>4, SeatingAssumption DEF SeatingAssumption
    <3> QED BY <1>11, <1>14, <3>1 DEF Seated
  <2>2. \A p \in s.offers : p \in t.offers /\ p.seat # o.seat /\ p.to # u
    BY <1>5, <1>14 DEF OffersFit
  <2>3. \A p \in t.offers : p.seat \in 1..Capacity
    BY <1>1 DEF Table
  <2> QED BY <1>5, <1>11, <1>14, <2>1, <2>2, <2>3 DEF OffersFit
<1>17. ReleasesFit(s)
  <2>1. \A n \in 1..Len(t.releases) : t.releases[n].seat \in 1..Capacity
    BY <1>1, ReleaseSeats
  <2>2. ASSUME NEW k \in 1..Len(R) PROVE N[R[k].seat] = Nobody
    <3> DEFINE n == Position(I, k)
    <3>1. n \in I /\ n \in 1..Len(t.releases) /\ R[k] = t.releases[n]
      BY <1>7, <1>9
    <3> HIDE DEF n
    <3>2. t.next[t.releases[n].seat] = Nobody
      BY <1>5, <3>1 DEF ReleasesFit
    <3> QED BY <1>7, <1>11, <2>1, <3>1, <3>2
  <2>3. ASSUME NEW j \in 1..Len(R), NEW k \in 1..Len(R), R[j].seat = R[k].seat PROVE j = k
    <3>1. /\ Position(I, j) \in 1..Len(t.releases) /\ Position(I, k) \in 1..Len(t.releases)
          /\ R[j] = t.releases[Position(I, j)] /\ R[k] = t.releases[Position(I, k)]
      BY <1>7, <1>9
    <3>2. Position(I, j) = Position(I, k)
      BY <1>5, <2>3, <3>1 DEF ReleasesFit
    <3>3. j \in Int /\ k \in Int /\ Position(I, j) \in Int
      BY <1>2, <1>9, <3>1
    <3>4. ~(j < k) /\ ~(k < j)
      BY <1>9, <3>2, <3>3
    <3> QED BY <3>3, <3>4
  <2> QED BY <1>14, <2>2, <2>3 DEF ReleasesFit
<1>18. CallBreakSeats(s)
  <2>1. ASSUME NEW i \in 1..Capacity, N[i] = Nobody
        PROVE  \E k \in 1..Len(R) : R[k].seat = i
    <3>1. i # o.seat /\ t.next[i] = Nobody
      BY <1>6, <1>11, <2>1
    <3>2. PICK n \in 1..Len(t.releases) : t.releases[n].seat = i
      BY <1>4, <3>1
    <3>3. n \in I
      BY <1>8, <3>1, <3>2
    <3> QED BY <1>9, <3>2, <3>3
  <2>2. ASSUME NEW i \in 1..Capacity, t.users[i] \notin t.departed PROVE N[i] = t.users[i]
    <3>1. t.next[i] = t.users[i] /\ t.users[i] \in Users
      BY <1>1, <1>4, <2>2 DEF Table
    <3>2. i # o.seat
      BY <3>1, SeatingAssumption DEF SeatingAssumption
    <3> QED BY <1>11, <3>1, <3>2
  <2> QED BY <1>4, <1>11, <1>14, <2>1, <2>2 DEF CallBreakSeats, Kept
<1>19. Proper(s)
  <2>1. Len(s.users) <= Capacity /\ Len(s.next) <= Capacity /\ NoRepeats(s.queue)
    BY <1>4, <1>10, <1>11, <1>14, SeatingAssumption DEF SeatingAssumption
  <2>2. OneStart(s)
    BY <1>3, <1>14 DEF OneStart, Kept
  <2> QED BY <1>13, <1>15, <1>16, <1>17, <1>18, <2>1, <2>2 DEF Proper
<1>20. Changes(t, s, FALSE)
  BY <1>1, <1>14 DEF Changes, Kept, InPlay, Unreserved
<1> QED BY <1>12, <1>19, <1>20

LEMMA SeatOfFacts ==
    ASSUME NEW t \in Table, NEW u \in Users, u \in Seated(t), t.next # << >>
    PROVE  SeatOf(t, u) \in 1..Len(t.next) /\ t.next[SeatOf(t, u)] = u
<1> DEFINE I == {i \in 1..Len(t.next) : t.next[i] = u}
<1>1. t.next \in Seq(Seat) /\ Len(t.next) \in Nat
  BY DEF Table
<1>2. u \in ToSet(t.next)
  BY SeatedFacts
<1>3. PICK i \in 1..Len(t.next) : t.next[i] = u
  BY <1>1, <1>2, Members
<1>4. I # {} /\ I \in SUBSET (0..Len(t.next))
  BY <1>1, <1>3
<1>5. SeatOf(t, u) = IF I # {} THEN Min(I) ELSE 0
  <2>1. Seats(t) = t.next
    BY DEF Seats
  <2>2. SeatOf(t, u) = SelectInSeq(t.next, LAMBDA v : v = u)
    BY <2>1, Zenon DEF SeatOf
  <2> QED BY <2>2, Zenon DEF SelectInSeq
<1>6. \A x \in I : x \in 1..Len(t.next) /\ t.next[x] = u
  OBVIOUS
<1> HIDE DEF I
<1>7. \E x \in I : \A y \in I : x <= y
  BY <1>1, <1>4, LeastNumber
<1>8. SeatOf(t, u) \in I
  BY <1>4, <1>5, <1>7 DEF Min
<1> QED BY <1>6, <1>8

LEMMA FirstAndLast ==
    ASSUME NEW S, NEW q \in Seq(S), NEW n \in 0..Len(q)
    PROVE  /\ SubSeq(q, 1, n) \in Seq(S) /\ Len(SubSeq(q, 1, n)) = n
           /\ SubSeq(q, n + 1, Len(q)) \in Seq(S)
           /\ NoRepeats(q) => NoRepeats(SubSeq(q, n + 1, Len(q)))
<1> DEFINE r == SubSeq(q, n + 1, Len(q))
<1>1. n \in Nat /\ Len(q) \in Nat /\ n <= Len(q)
  OBVIOUS
<1>2. SubSeq(q, 1, n) \in Seq(S) /\ Len(SubSeq(q, 1, n)) = n
  BY <1>1, SubSeqProperties
<1>3. r \in Seq(S) /\ Len(r) = Len(q) - n /\ \A i \in 1..Len(q) - n : r[i] = q[n + i]
  BY <1>1, SubSeqProperties
<1> HIDE DEF r
<1>4. ASSUME NoRepeats(q), NEW i \in 1..Len(r), NEW j \in 1..Len(r), r[i] = r[j] PROVE i = j
  <2>1. i \in Int /\ j \in Int /\ n + i \in 1..Len(q) /\ n + j \in 1..Len(q)
    BY <1>1, <1>3
  <2>2. r[i] = q[n + i] /\ r[j] = q[n + j]
    BY <1>3
  <2>3. n + i = n + j
    BY <1>4, <2>1, <2>2 DEF NoRepeats
  <2> QED BY <1>1, <2>1, <2>3
<1> QED BY <1>2, <1>3, <1>4 DEF r, NoRepeats

LEMMA PromotedFacts ==
    ASSUME NEW t \in Table, Len(t.users) <= Capacity, NoRepeats(t.queue)
    PROVE  LET s == Promoted(t) IN
           /\ s \in Table /\ Kept(t, s) /\ Len(s.users) <= Capacity /\ NoRepeats(s.queue)
           /\ s.folded = t.folded /\ s.phase = t.phase /\ s.next = t.next
           /\ s.releases = t.releases /\ s.reserved = t.reserved /\ s.offers = t.offers
<1> DEFINE free == Capacity - Len(t.users)
           n == IF Len(t.queue) < free THEN Len(t.queue) ELSE IF free > 0 THEN free ELSE 0
           w == t.users \o SubSeq(t.queue, 1, n)
           q == SubSeq(t.queue, n + 1, Len(t.queue))
           s == [t EXCEPT !.users = w, !.queue = q]
<1>1. /\ t.users \in Seq(Users) /\ t.queue \in Seq(Users)
      /\ Len(t.users) \in Nat /\ Len(t.queue) \in Nat /\ Capacity \in Nat
  BY SeatingAssumption DEF Table, SeatingAssumption
<1>3. s = Promoted(t)
  BY DEF Promoted
<1>4. free = Capacity - Len(t.users) /\ free \in Nat
  BY <1>1
<1>2. n \in 0..Len(t.queue) /\ n <= free
  <2> DEFINE a == Len(t.queue)
  <2>1. a \in Nat
    BY <1>1
  <2> HIDE DEF a, free
  <2>2. LET k == IF a < free THEN a ELSE IF free > 0 THEN free ELSE 0 IN k \in 0..a /\ k <= free
    BY <1>4, <2>1
  <2> QED BY <2>2 DEF a
<1> HIDE DEF free, n
<1>5. /\ SubSeq(t.queue, 1, n) \in Seq(Users) /\ Len(SubSeq(t.queue, 1, n)) = n
      /\ q \in Seq(Users) /\ NoRepeats(q)
  BY <1>1, <1>2, FirstAndLast
<1>6. w \in Seq(Users) /\ Len(w) = Len(t.users) + n
  BY <1>1, <1>5
<1>7. Len(w) <= Capacity
  <2> DEFINE a == Len(t.users)
  <2>1. a \in Nat /\ Capacity \in Nat /\ free = Capacity - a /\ n \in Int /\ n <= free
    BY <1>1, <1>2, <1>4
  <2>2. Len(w) = a + n
    BY <1>6
  <2> HIDE DEF a, w
  <2> QED BY ONLY <2>1, <2>2
<1> HIDE DEF w, q
<1>8. s \in Table
  BY <1>5, <1>6 DEF Table
<1>9. /\ Kept(t, s) /\ s.users = w /\ s.queue = q
      /\ s.folded = t.folded /\ s.phase = t.phase /\ s.next = t.next
      /\ s.releases = t.releases /\ s.reserved = t.reserved /\ s.offers = t.offers
  BY DEF Table, Kept
<1> HIDE DEF s
<1> QED BY <1>3, <1>5, <1>7, <1>8, <1>9

\* A seat of a completed Call Break table is given up.
LEMMA GivenUp ==
    ASSUME NEW t, Settled(t), NEW u \in Users, u \in Seated(t),
           t.phase = "COMPLETED", t.kind = "callbreak"
    PROVE  LET s == SeatReleased(t, u) IN Proper(s) /\ Changes(t, s, FALSE) /\ ~Releases(s)
<1> DEFINE k == SeatOf(t, u)
           r == [seat |-> k, by |-> u]
           R == Append(t.releases, r)
           N == [t.next EXCEPT ![k] = Nobody]
           s == [t EXCEPT !.next = N, !.releases = R, !.departed = t.departed \cup {u}]
           n == Len(t.releases)
<1>1. t \in Table /\ Proper(t) /\ ~t.ended /\ Phases(t)
  BY DEF Settled, Proper
<1>2. t.next \in Seq(Seat) /\ t.releases \in Seq([seat : 1..Capacity, by : Users])
  BY <1>1 DEF Table
<1>3. /\ Len(t.users) = Capacity /\ Len(t.next) = Capacity
      /\ \A i \in 1..Capacity : t.next[i] = Nobody =>
           \E j \in 1..Len(t.releases) : t.releases[j].seat = i
      /\ \A i \in 1..Capacity : t.users[i] \notin t.departed => t.next[i] = t.users[i]
  BY <1>1 DEF Proper, CallBreakSeats
<1>4. OffersFit(t) /\ ReleasesFit(t) /\ t.engine # "none"
  BY <1>1 DEF Proper, Phases
<1>5. t.next # << >>
  BY <1>2, <1>3, SeatingAssumption DEF SeatingAssumption
<1>6. k \in 1..Capacity /\ t.next[k] = u /\ u # Nobody
  BY <1>1, <1>3, <1>5, SeatOfFacts, SeatingAssumption DEF SeatingAssumption
<1>7. s = SeatReleased(t, u)
  BY <1>1 DEF SeatReleased, RequiresReplacement
<1> HIDE DEF k
<1>8. /\ N \in Seq(Seat) /\ Len(N) = Capacity /\ N[k] = Nobody /\ N # << >>
      /\ \A j \in 1..Capacity : j # k => N[j] = t.next[j]
      /\ ToSet(N) \subseteq ToSet(t.next) \cup {Nobody}
  <2>1. N = Set(t.next, k, Nobody) /\ Nobody \in Seat
    BY DEF Seat, Set
  <2> HIDE DEF N
  <2>2. /\ N \in Seq(Seat) /\ Len(N) = Len(t.next)
        /\ k \in 1..Len(t.next) => N[k] = Nobody
        /\ \A j \in 1..Len(t.next) : j # k => N[j] = t.next[j]
        /\ ToSet(N) \subseteq ToSet(t.next) \cup {Nobody}
        /\ (N = << >>) <=> (t.next = << >>)
    BY <1>2, <2>1, SeatSet
  <2> QED BY <1>3, <1>5, <1>6, <2>2
<1>9. /\ R \in Seq([seat : 1..Capacity, by : Users]) /\ n \in Nat /\ Len(R) = n + 1
      /\ R[n + 1].seat = k /\ \A j \in 1..n : R[j] = t.releases[j]
  <2> DEFINE S == [seat : 1..Capacity, by : Users]
  <2>1. r \in S /\ r.seat = k
    BY <1>6
  <2>2. t.releases \in Seq(S)
    BY <1>2
  <2> HIDE DEF S, r
  <2>3. R \in Seq(S) /\ n \in Nat /\ Len(R) = n + 1 /\ R[n + 1] = r /\ \A j \in 1..n : R[j] = t.releases[j]
    BY <2>1, <2>2
  <2> QED BY <2>1, <2>3 DEF S
<1>10. \A j \in 1..n : t.releases[j].seat \in 1..Capacity
  BY <1>1, ReleaseSeats
<1>11. \A j \in 1..Len(R) : j \in 1..n \/ j = n + 1
  BY <1>9
<1>12. \A j \in 1..n : j \in 1..Len(R)
  BY <1>9
<1>13. n + 1 \in 1..Len(R)
  BY <1>9
<1> HIDE DEF R, N, r
<1>14. s \in Table
  BY <1>1, <1>8, <1>9 DEF Table
<1>15. /\ s.kind = t.kind /\ s.departed = t.departed \cup {u} /\ s.engine = t.engine
       /\ s.ended = t.ended /\ s.id = t.id /\ s.previous = t.previous
       /\ s.round = t.round /\ s.starts = t.starts
       /\ s.users = t.users /\ s.queue = t.queue /\ s.phase = t.phase /\ s.next = N
       /\ s.releases = R /\ s.reserved = t.reserved /\ s.offers = t.offers
       /\ s.folded = t.folded
  BY <1>1 DEF Table
<1> HIDE DEF s
<1>16. Phases(s)
  BY <1>1, <1>4, <1>15 DEF Phases
<1>17. OffersFit(s)
  <2>1. Seated(s) \subseteq Seated(t)
    BY <1>5, <1>8, <1>15 DEF Seated
  <2>2. \A o \in t.offers : o.seat \in 1..Capacity
    BY <1>1 DEF Table
  <2> QED BY <1>4, <1>8, <1>15, <2>1, <2>2 DEF OffersFit
<1>18. ReleasesFit(s)
  <2>1. \A j \in 1..n : t.next[t.releases[j].seat] = Nobody /\ t.releases[j].seat # k
    BY <1>4, <1>6 DEF ReleasesFit
  <2>2. ASSUME NEW j \in 1..Len(R) PROVE N[R[j].seat] = Nobody
    BY <1>8, <1>9, <1>10, <1>11, <2>1
  <2>3. ASSUME NEW i \in 1..Len(R), NEW j \in 1..Len(R), R[i].seat = R[j].seat PROVE i = j
    <3>1. CASE i \in 1..n /\ j \in 1..n
      BY <1>4, <1>9, <2>3, <3>1 DEF ReleasesFit
    <3>2. CASE i \in 1..n /\ j = n + 1
      BY <1>9, <2>1, <2>3, <3>2
    <3>3. CASE i = n + 1 /\ j \in 1..n
      BY <1>9, <2>1, <2>3, <3>3
    <3>4. CASE i = n + 1 /\ j = n + 1
      BY <3>4
    <3> QED BY <1>11, <3>1, <3>2, <3>3, <3>4
  <2> QED BY <1>15, <2>2, <2>3 DEF ReleasesFit
<1>19. CallBreakSeats(s)
  <2>1. ASSUME NEW i \in 1..Capacity, N[i] = Nobody
        PROVE  \E j \in 1..Len(R) : R[j].seat = i
    <3>1. CASE i = k
      BY <1>9, <1>13, <3>1
    <3>2. CASE i # k
      BY <1>3, <1>8, <1>9, <1>12, <2>1, <3>2
    <3> QED BY <3>1, <3>2
  <2>2. ASSUME NEW i \in 1..Capacity, t.users[i] \notin t.departed \cup {u}
        PROVE  N[i] = t.users[i]
    BY <1>3, <1>6, <1>8, <2>2
  <2> QED BY <1>3, <1>8, <1>15, <2>1, <2>2 DEF CallBreakSeats
<1>20. Proper(s)
  <2>1. Len(s.users) <= Capacity /\ Len(s.next) <= Capacity /\ NoRepeats(s.queue)
    BY <1>1, <1>3, <1>8, <1>15, SeatingAssumption DEF Proper, SeatingAssumption
  <2>2. OneStart(s)
    BY <1>4, <1>15 DEF OneStart
  <2> QED BY <1>14, <1>16, <1>17, <1>18, <1>19, <2>1, <2>2 DEF Proper
<1>21. Changes(t, s, FALSE)
  BY <1>1, <1>15 DEF Changes, InPlay, Unreserved
<1>22. ~Releases(s)
  <2>1. ~FoldersGo(s)
    BY <1>1, <1>15 DEF Phases, FoldersGo
  <2> QED BY <1>14, <1>15, <2>1, ReleasesFacts
<1> QED BY <1>7, <1>20, <1>21, <1>22

\* A seat of another match that has begun is given up between its rounds, or after it.
LEMMA LeftBehind ==
    ASSUME NEW t, Settled(t), NEW u \in Users, SeatReleasable(t),
           ~(t.phase = "COMPLETED" /\ t.kind = "callbreak"), t.engine # "none", ~FlushOpen(t)
    PROVE  LET s == SeatReleased(t, u) IN Proper(s) /\ Changes(t, s, FALSE) /\ ~Releases(s)
<1> DEFINE k == SeatOf(t, u)
           N == IF t.next = << >> THEN t.next ELSE [t.next EXCEPT ![k] = Nobody]
           s == [t EXCEPT !.departed = t.departed \cup {u}, !.next = N]
<1>1. t \in Table /\ Proper(t) /\ Phases(t) /\ Unreserved(t) /\ t.phase # "STARTED"
  BY DEF Settled, Proper, SeatReleasable
<1>2. s = SeatReleased(t, u)
  BY DEF SeatReleased, RequiresReplacement
<1> HIDE DEF k
<1>3. /\ N \in Seq(Seat) /\ Len(N) = Len(t.next)
      /\ (N = << >>) <=> (t.next = << >>)
  <2>1. t.next \in Seq(Seat) /\ Nobody \in Seat
    BY <1>1 DEF Table, Seat
  <2>2. CASE t.next = << >>
    BY <2>1, <2>2
  <2>3. CASE t.next # << >>
    <3>1. N = Set(t.next, k, Nobody)
      BY <2>3 DEF Set
    <3> HIDE DEF N
    <3>2. N \in Seq(Seat) /\ Len(N) = Len(t.next) /\ (N = << >> <=> t.next = << >>)
      BY <2>1, <3>1, SeatSet
    <3> QED BY <3>2
  <2> QED BY <2>2, <2>3
<1> HIDE DEF N
<1>4. s \in Table
  BY <1>1, <1>3 DEF Table
<1>5. /\ s.kind = t.kind /\ s.departed = t.departed \cup {u} /\ s.engine = t.engine
      /\ s.ended = t.ended /\ s.id = t.id /\ s.previous = t.previous
      /\ s.round = t.round /\ s.starts = t.starts
      /\ s.users = t.users /\ s.queue = t.queue /\ s.phase = t.phase /\ s.next = N
      /\ s.releases = t.releases /\ s.reserved = t.reserved /\ s.offers = t.offers
      /\ s.folded = t.folded
  BY <1>1 DEF Table
<1> HIDE DEF s
<1>6. Phases(s)
  BY <1>1, <1>3, <1>5 DEF Phases
<1>7. t.phase = "COMPLETED" => OffersFit(s) /\ ReleasesFit(s)
  <2>1. SUFFICES ASSUME t.phase = "COMPLETED" PROVE OffersFit(s) /\ ReleasesFit(s)
    OBVIOUS
  <2>2. s.offers = {} /\ s.releases = << >>
    BY <1>1, <1>5, <2>1 DEF Phases
  <2> QED BY <2>2 DEF OffersFit, ReleasesFit
<1>8. ~(t.kind = "callbreak" /\ ~t.ended)
  BY <1>1 DEF Phases
<1>9. Proper(s)
  <2>1. t.kind # "flush" => OneStart(s)
    BY <1>5 DEF OneStart
  <2> QED BY <1>1, <1>3, <1>4, <1>5, <1>6, <1>7, <1>8, <2>1 DEF Proper
<1>10. Changes(t, s, FALSE)
  BY <1>1, <1>5 DEF Changes, InPlay, Unreserved
<1>11. ~Releases(s)
  <2>1. ~FoldersGo(s)
    BY <1>5 DEF Settled, FoldersGo, FlushOpen
  <2> QED BY <1>1, <1>4, <1>5, <2>1, ReleasesFacts
<1> QED BY <1>2, <1>9, <1>10, <1>11

\* A seat of a table that plays no match is given up, and the queue moves up.
LEMMA LeftOpen ==
    ASSUME NEW t, Settled(t), NEW u \in Users, SeatReleasable(t),
           ~(t.phase = "COMPLETED" /\ t.kind = "callbreak"),
           t.engine = "none" \/ FlushOpen(t)
    PROVE  LET s == SeatReleased(t, u) IN Proper(s) /\ Changes(t, s, FALSE) /\ ~Releases(s)
<1> DEFINE w == Without(t.users, {u})
           x == [t EXCEPT !.users = w, !.phase = "OPEN"]
           y == Promoted(x)
           s == IF y.users = << >> THEN [y EXCEPT !.ended = TRUE, !.phase = "ENDED"] ELSE y
<1>1. t \in Table /\ Proper(t) /\ Phases(t) /\ Unreserved(t)
  BY DEF Settled, Proper
<1>2. t.users \in Seq(Users) /\ Len(t.users) \in Nat /\ Len(t.users) <= Capacity /\ Capacity \in Nat
  BY <1>1, SeatingAssumption DEF Proper, Table, SeatingAssumption
<1>3. w \in Seq(Users) /\ Len(w) \in Nat /\ Len(w) <= Len(t.users)
  BY <1>2, Left
<1>4. Len(w) <= Capacity
  BY <1>2, <1>3
<1>5. s = SeatReleased(t, u)
  BY DEF SeatReleased, RequiresReplacement
<1>6. /\ t.phase # "STARTED" /\ t.phase # "COMPLETED"
      /\ t.next = << >> /\ t.releases = << >> /\ t.offers = {} /\ t.folded = {}
      /\ t.kind # "flush" => t.engine = "none" /\ (t.ended \/ t.phase = "OPEN")
  <2>1. t.phase \notin {"STARTED", "LOCKED"} /\ t.phase \in {"OPEN", "LOCKED", "STARTED", "COMPLETED", "ENDED"}
    BY <1>1 DEF SeatReleasable, Table
  <2>2. t.kind # "flush" => t.engine = "none"
    BY DEF FlushOpen
  <2>3. t.phase # "COMPLETED"
    BY <1>1, <2>2 DEF Phases
  <2>4. t.next = << >> /\ t.releases = << >>
    BY <1>1, <2>2 DEF Phases
  <2>5. t.offers = {}
    BY <2>3 DEF Settled
  <2>6. t.folded = {}
    BY <1>1, <2>2 DEF Settled, FoldersGo, FlushOpen, Phases
  <2> QED BY <1>1, <2>1, <2>2, <2>3, <2>4, <2>5, <2>6 DEF Phases
<1> HIDE DEF w
<1>7. x \in Table
  BY <1>1, <1>3 DEF Table
<1>8. /\ Kept(t, x) /\ x.users = w /\ x.folded = {} /\ x.phase = "OPEN" /\ x.next = << >>
      /\ x.releases = << >> /\ x.reserved = t.reserved /\ x.offers = {} /\ x.queue = t.queue
  BY <1>1, <1>6 DEF Table, Kept
<1> HIDE DEF x
<1>9. /\ y \in Table /\ Kept(x, y) /\ Len(y.users) <= Capacity /\ NoRepeats(y.queue)
      /\ y.folded = {} /\ y.phase = "OPEN" /\ y.next = << >> /\ y.releases = << >>
      /\ y.reserved = t.reserved /\ y.offers = {}
  <2>1. NoRepeats(x.queue)
    BY <1>1, <1>8 DEF Proper
  <2> QED BY <1>4, <1>7, <1>8, <2>1, PromotedFacts
<1> HIDE DEF y
<1>10. /\ s \in Table /\ Len(s.users) <= Capacity /\ NoRepeats(s.queue)
       /\ s.folded = {} /\ s.next = << >> /\ s.releases = << >>
       /\ s.reserved = t.reserved /\ s.offers = {}
       /\ s.kind = t.kind /\ s.departed = t.departed /\ s.engine = t.engine
       /\ s.id = t.id /\ s.round = t.round
       /\ (s.ended /\ s.phase = "ENDED") \/ (s.ended = t.ended /\ s.phase = "OPEN")
  <2>1. CASE y.users = << >>
    <3>1. s = [y EXCEPT !.ended = TRUE, !.phase = "ENDED"]
      BY <2>1
    <3> HIDE DEF s
    <3>2. s \in Table
      BY <1>9, <3>1 DEF Table
    <3>3. /\ s.users = y.users /\ s.queue = y.queue /\ s.folded = y.folded /\ s.next = y.next
          /\ s.releases = y.releases /\ s.reserved = y.reserved /\ s.offers = y.offers
          /\ s.kind = y.kind /\ s.departed = y.departed /\ s.engine = y.engine
          /\ s.id = y.id /\ s.round = y.round /\ s.ended /\ s.phase = "ENDED"
      BY <1>9, <3>1 DEF Table
    <3> QED BY <1>8, <1>9, <3>2, <3>3 DEF Kept
  <2>2. CASE y.users # << >>
    BY <1>8, <1>9, <2>2 DEF Kept
  <2> QED BY <2>1, <2>2
<1> HIDE DEF s
<1>11. Len(s.next) <= Capacity
  BY <1>2, <1>10
<1>12. Phases(s)
  BY <1>6, <1>10 DEF Phases
<1>13. t.kind = "callbreak" /\ ~s.ended => CallBreakSeats(s)
  BY <1>1, <1>6, <1>10 DEF Proper, CallBreakSeats
<1>14. t.kind # "flush" => OneStart(s)
  BY <1>1, <1>10 DEF Proper, OneStart
<1>15. Proper(s)
  BY <1>10, <1>11, <1>12, <1>13, <1>14 DEF Proper
<1>16. Changes(t, s, FALSE)
  <2>1. Unreserved(s)
    BY <1>1, <1>6, <1>10 DEF Unreserved
  <2>2. ~InPlay(s)
    BY <1>10 DEF InPlay
  <2> QED BY <1>6, <1>10, <2>1, <2>2 DEF Changes
<1>17. ~Releases(s)
  <2>1. ~FoldersGo(s)
    BY <1>10 DEF FoldersGo
  <2> QED BY <1>10, <2>1, ReleasesFacts
<1> QED BY <1>5, <1>15, <1>16, <1>17

LEMMA SeatReleasedChanges ==
    ASSUME NEW t, Settled(t), NEW u \in Users, u \in Seated(t), SeatReleasable(t)
    PROVE  LET s == SeatReleased(t, u) IN Proper(s) /\ Changes(t, s, FALSE) /\ ~Releases(s)
<1>1. CASE t.phase = "COMPLETED" /\ t.kind = "callbreak"
  BY <1>1, GivenUp
<1>2. CASE ~(t.phase = "COMPLETED" /\ t.kind = "callbreak") /\ t.engine # "none" /\ ~FlushOpen(t)
  BY <1>2, LeftBehind
<1>3. CASE ~(t.phase = "COMPLETED" /\ t.kind = "callbreak") /\ (t.engine = "none" \/ FlushOpen(t))
  BY <1>3, LeftOpen
<1> QED BY <1>1, <1>2, <1>3

LEMMA AbandonChanges ==
    ASSUME NEW t, Settled(t), t.kind = "callbreak", t.phase = "STARTED", NEW u \in Users
    PROVE  LET s == [t EXCEPT !.departed = @ \cup {u}, !.ended = TRUE,
                              !.phase = "ENDED", !.queue = << >>]
           IN Proper(s) /\ Changes(t, s, TRUE)
<1> DEFINE s == [t EXCEPT !.departed = t.departed \cup {u}, !.ended = TRUE,
                          !.phase = "ENDED", !.queue = << >>]
<1>1. t \in Table /\ Proper(t) /\ Phases(t) /\ t.offers = {}
  BY DEF Settled, Proper
<1>8. t.departed \cup {u} \in SUBSET Users /\ << >> \in Seq(Users)
  BY <1>1 DEF Table
<1>2. s \in Table
  BY <1>1, <1>8 DEF Table
<1>3. /\ s.kind = t.kind /\ s.engine = t.engine /\ s.ended
      /\ s.id = t.id /\ s.round = t.round
      /\ s.users = t.users /\ s.queue = << >> /\ s.phase = "ENDED" /\ s.next = t.next
      /\ s.releases = t.releases /\ s.reserved = t.reserved /\ s.offers = t.offers
      /\ s.folded = t.folded
  BY <1>1 DEF Table
<1>4. s = [t EXCEPT !.departed = @ \cup {u}, !.ended = TRUE,
                    !.phase = "ENDED", !.queue = << >>]
  BY <1>1 DEF Table
<1> HIDE DEF s
<1>5. Phases(s) /\ NoRepeats(s.queue) /\ OneStart(s)
  BY <1>1, <1>3 DEF Phases, NoRepeats, OneStart
<1>6. Proper(s)
  BY <1>1, <1>2, <1>3, <1>5 DEF Proper
<1>7. Changes(t, s, TRUE)
  BY <1>3 DEF Changes, InPlay
<1> QED BY <1>4, <1>6, <1>7

-------------------------------------------------------------------------------
(* The commands at a table *)

LEMMA JoinKeeps ==
    ASSUME Inv, NEW g \in Games, Unlocked(g), NEW u \in Users, Join(u, g, Now(g))
    PROVE  Inv'
<1> DEFINE t == Now(g)
           s == [t EXCEPT !.users = Append(@, u), !.queue = Without(@, {u})]
<1>1. g \in Hosted
  BY DEF Unlocked, Hosted
<1>2. Settled(t)
  BY <1>1, NowSettled
<1>3. t.phase = "OPEN" /\ Len(t.users) < Capacity /\ Command(u, g, s, FALSE)
  BY DEF Join
<1> HIDE DEF t
<1>4. Proper(s) /\ Changes(t, s, FALSE)
  BY <1>2, <1>3, JoinChanges
<1> HIDE DEF s
<1> QED BY <1>3, <1>4, CommandKeeps DEF t

LEMMA JoinQueueKeeps ==
    ASSUME Inv, NEW g \in Games, Unlocked(g), NEW u \in Users, JoinQueue(u, g, Now(g))
    PROVE  Inv'
<1> DEFINE t == Now(g)
           s == [t EXCEPT !.queue = Append(@, u)]
<1>1. g \in Hosted
  BY DEF Unlocked, Hosted
<1>2. Settled(t)
  BY <1>1, NowSettled
<1>3. u \notin ToSet(t.queue) /\ Command(u, g, s, FALSE)
  BY DEF JoinQueue
<1> HIDE DEF t
<1>4. Proper(s) /\ Changes(t, s, FALSE)
  BY <1>2, <1>3, JoinQueueChanges
<1> HIDE DEF s
<1> QED BY <1>3, <1>4, CommandKeeps DEF t

LEMMA LeaveQueueKeeps ==
    ASSUME Inv, NEW g \in Games, Unlocked(g), NEW u \in Users, LeaveQueue(u, g, Now(g))
    PROVE  Inv'
<1> DEFINE t == Now(g)
           s == Dequeued(t, u)
<1>1. g \in Hosted
  BY DEF Unlocked, Hosted
<1>2. Settled(t)
  BY <1>1, NowSettled
<1>3. Command(u, g, s, FALSE)
  BY DEF LeaveQueue
<1> HIDE DEF t
<1>4. Proper(s) /\ Changes(t, s, FALSE)
  BY <1>2, DequeuedChanges
<1> HIDE DEF s
<1> QED BY <1>3, <1>4, CommandKeeps DEF t

LEMMA LeaveSeatKeeps ==
    ASSUME Inv, NEW g \in Games, Unlocked(g), NEW u \in Users, LeaveSeat(u, g, Now(g))
    PROVE  Inv'
<1> DEFINE t == Now(g)
           s == SeatReleased(t, u)
<1>1. g \in Hosted
  BY DEF Unlocked, Hosted
<1>2. Settled(t)
  BY <1>1, NowSettled
<1>3. u \in Seated(t) /\ SeatReleasable(t) /\ Command(u, g, s, FALSE)
  BY DEF LeaveSeat
<1> HIDE DEF t
<1>4. Proper(s) /\ Changes(t, s, FALSE)
  BY <1>2, <1>3, SeatReleasedChanges
<1> HIDE DEF s
<1> QED BY <1>3, <1>4, CommandKeeps DEF t

LEMMA AcceptSeatKeeps ==
    ASSUME Inv, NEW g \in Games, Unlocked(g), NEW u \in Users, AcceptSeat(u, g, Now(g))
    PROVE  Inv'
<1> DEFINE t == Now(g)
           s(o) == [t EXCEPT !.next[o.seat] = u,
                             !.releases = AtPositions(@, {n \in 1..Len(@) : @[n].seat # o.seat}),
                             !.offers = @ \ {o},
                             !.queue = Without(@, {u})]
<1>1. g \in Hosted
  BY DEF Unlocked, Hosted
<1>2. Settled(t)
  BY <1>1, NowSettled
<1>3. PICK o \in t.offers : /\ o.to = u /\ t.phase = "COMPLETED" /\ t.next[o.seat] = Nobody
                            /\ Command(u, g, s(o), FALSE)
  BY DEF AcceptSeat
<1> HIDE DEF t
<1>4. Proper(s(o)) /\ Changes(t, s(o), FALSE)
  BY <1>2, <1>3, AcceptChanges
<1> HIDE DEF s
<1> QED BY <1>3, <1>4, CommandKeeps DEF t

LEMMA DeclineSeatKeeps ==
    ASSUME Inv, NEW g \in Games, Unlocked(g), NEW u \in Users, DeclineSeat(u, g, Now(g))
    PROVE  Inv'
<1> DEFINE t == Now(g)
           s(o) == [t EXCEPT !.offers = @ \ {o}, !.queue = Without(@, {u})]
<1>1. g \in Hosted
  BY DEF Unlocked, Hosted
<1>2. Settled(t)
  BY <1>1, NowSettled
<1>3. PICK o \in t.offers : Command(u, g, s(o), FALSE)
  BY DEF DeclineSeat
<1> HIDE DEF t
<1>4. Proper(s(o)) /\ Changes(t, s(o), FALSE)
  BY <1>2, DeclineChanges
<1> HIDE DEF s
<1> QED BY <1>3, <1>4, CommandKeeps DEF t

LEMMA InviteKeeps ==
    ASSUME Inv, NEW g \in Games, Unlocked(g), NEW u \in Users, NEW to \in Users,
           Invite(u, g, Now(g), to)
    PROVE  Inv'
<1> DEFINE t == Now(g)
           s(i) == [t EXCEPT !.offers = @ \cup {[seat |-> t.releases[i].seat, to |-> to]}]
<1>1. g \in Hosted
  BY DEF Unlocked, Hosted
<1>2. Settled(t)
  BY <1>1, NowSettled
<1>3. PICK i \in 1..Len(t.releases) :
        /\ t.phase = "COMPLETED" /\ \A o \in t.offers : o.seat # t.releases[i].seat
        /\ to \in members \ (Seated(t) \cup Offered(t))
        /\ Command(u, g, s(i), FALSE)
  BY DEF Invite
<1>4. to \in Users \ (Seated(t) \cup Offered(t))
  BY <1>3
<1> HIDE DEF t
<1>5. Proper(s(i)) /\ Changes(t, s(i), FALSE)
  BY <1>2, <1>3, <1>4, InviteChanges
<1> HIDE DEF s
<1> QED BY <1>3, <1>5, CommandKeeps DEF t

LEMMA AbandonKeeps ==
    ASSUME Inv, NEW g \in Games, Unlocked(g), NEW u \in Users, Abandon(u, g, Now(g))
    PROVE  Inv'
<1> DEFINE t == Now(g)
           s == [t EXCEPT !.departed = @ \cup {u}, !.ended = TRUE,
                          !.phase = "ENDED", !.queue = << >>]
<1>1. g \in Hosted
  BY DEF Unlocked, Hosted
<1>2. Settled(t)
  BY <1>1, NowSettled
<1>3. t.kind = "callbreak" /\ t.phase = "STARTED" /\ Command(u, g, s, TRUE)
  BY DEF Abandon
<1> HIDE DEF t
<1>4. Proper(s) /\ Changes(t, s, TRUE)
  BY <1>2, <1>3, AbandonChanges
<1> HIDE DEF s
<1> QED BY <1>3, <1>4, CommandKeeps DEF t

LEMMA EndKeeps ==
    ASSUME Inv, NEW g \in Games, NEW u \in Users, End(u, g)
    PROVE  Inv'
<1> DEFINE t == tables[g]
           s == [t EXCEPT !.ended = TRUE, !.queue = << >>]
<1>1. g \in Hosted /\ lock[g] = Idle
  BY DEF End, Unlocked, Hosted
<1>2. Proper(t) /\ t \in Table
  BY <1>1, HostedProper
<1>3. Command(u, g, s, TRUE)
  BY DEF End
<1>4. << >> \in Seq(Users)
  OBVIOUS
<1> HIDE DEF t
<1>5. s \in Table
  BY <1>2, <1>4 DEF Table
<1>6. /\ s.kind = t.kind /\ s.engine = t.engine /\ s.ended /\ s.departed = t.departed
      /\ s.id = t.id /\ s.round = t.round
      /\ s.users = t.users /\ s.queue = << >> /\ s.phase = t.phase /\ s.next = t.next
      /\ s.releases = t.releases /\ s.reserved = t.reserved /\ s.offers = t.offers
      /\ s.folded = t.folded
  BY <1>2 DEF Table
<1> HIDE DEF s
<1>7. Proper(s)
  <2>1. Phases(s) /\ NoRepeats(s.queue)
    BY <1>2, <1>6 DEF Proper, Phases, NoRepeats
  <2>2. t.kind # "flush" => OneStart(s)
    BY <1>2, <1>6 DEF Proper, OneStart
  <2>3. Seated(s) = Seated(t)
    BY <1>6, SeatedSame
  <2>4. t.phase = "COMPLETED" => OffersFit(s) /\ ReleasesFit(s)
    BY <1>2, <1>6, <2>3 DEF Proper, OffersFit, ReleasesFit
  <2> QED BY <1>2, <1>5, <1>6, <2>1, <2>2, <2>4 DEF Proper
<1>8. Follows(t, s, TRUE)
  BY <1>6 DEF Follows, InPlay
<1>9. ~Starting(g)
  BY <1>1 DEF Starting, Idle
<1>10. Settle(g, s, TRUE) /\ UNCHANGED <<members, lock, leaving, failures>>
  BY <1>3 DEF Command
<1>11. Rest'
  BY <1>1, <1>10 DEF Inv, Rest, Settle, Hosted
<1> QED BY <1>1, <1>7, <1>8, <1>9, <1>10, <1>11, SettleKeeps DEF t

-------------------------------------------------------------------------------
(* The steps that change one table *)

LEMMA OneMoves ==
    ASSUME Inv, NEW g \in Hosted, Places', Hosted' = Hosted, RowsShrink, Rest',
           \A h \in Games : h # g => tables'[h] = tables[h] /\ lock'[h] = lock[h],
           \A h \in Hosted, u \in Users :
             h # g /\ gameRows[u] = <<h, tables[h].round>> => gameRows'[u] = gameRows[u],
           Moves(g), LockFits(g)'
    PROVE  Inv'
<1>1. ASSUME NEW h \in Hosted PROVE Moves(h)
  <2>1. CASE h = g
    BY <2>1
  <2>2. CASE h # g
    <3>1. h \in Games
      BY DEF Hosted
    <3> QED BY <2>2, <3>1, Stays
  <2> QED BY <2>1, <2>2
<1>2. ASSUME NEW h \in Games, h # g PROVE LockFits(h)'
  <2>1. LockFits(h) /\ lock'[h] = lock[h] /\ tables'[h] = tables[h]
    BY <1>2 DEF Inv
  <2> QED BY <2>1 DEF LockFits, Starting
<1> QED BY <1>1, <1>2, MovesKeep

\* The rows stay as they are.
LEMMA Quiet ==
    ASSUME Inv, NEW g \in Hosted, Held(g)', Unreserved(tables'[g]), UNCHANGED db,
           tables'[g].id = tables[g].id, tables'[g].kind = tables[g].kind,
           tables'[g].round = tables[g].round, tables'[g].ended = tables[g].ended,
           tables'[g].reserved = tables[g].reserved
    PROVE  Moves(g) /\ RowsShrink
<1>1. Rows /\ gameRows' = gameRows /\ tableRows' = tableRows
  BY DEF Inv, db
<1>2. RowsShrink
  BY <1>1 DEF RowsShrink, Rows, db
<1>3. ASSUME Sure(tables'[g]), tables[g].ended, tables[g].kind # "flush", NEW u \in Users
      PROVE  gameRows[u] # <<g, tables[g].round>>
  <2>1. GameRowsKnown /\ Sure(tables[g])
    BY <1>3, SureSame DEF Inv
  <2> QED BY <1>3, <2>1, KnownRow
<1> QED BY <1>1, <1>2, <1>3 DEF Moves

LEMMA FollowsItself ==
    ASSUME Inv, NEW g \in Hosted
    PROVE  Follows(tables[g], tables[g], FALSE)
<1>1. Unreserved(tables[g])
  BY DEF Inv
<1> QED BY <1>1 DEF Follows

LEMMA RefreshKeeps ==
    ASSUME Inv, NEW g \in Games, Refresh(g)
    PROVE  Inv'
<1>1. g \in Hosted /\ lock[g] = Idle
  BY DEF Refresh, Unlocked, Hosted
<1>2. Settle(g, tables[g], FALSE) /\ UNCHANGED <<members, lock, leaving, failures>>
  BY DEF Refresh
<1>3. Proper(tables[g]) /\ Follows(tables[g], tables[g], FALSE)
  BY <1>1, HostedProper, FollowsItself
<1>4. ~Starting(g)
  BY <1>1 DEF Starting, Idle
<1>5. Rest'
  BY <1>1, <1>2 DEF Inv, Rest, Settle, Hosted
<1> QED BY <1>1, <1>2, <1>3, <1>4, <1>5, SettleKeeps

\* The lock of a match is let go.
LEMMA LetGo ==
    ASSUME Rest, NEW g \in Games, lock' = [lock EXCEPT ![g] = Idle]
    PROVE  /\ lock' \in [Games -> Lock0] /\ lock'[g] = Idle
           /\ \A h \in Games : h # g => lock'[h] = lock[h]
<1>1. lock \in [Games -> Lock0] /\ Idle \in Lock0
  BY DEF Rest, Idle, Lock0
<1> QED BY <1>1

LEMMA CommittedKeeps ==
    ASSUME Inv, NEW g \in Games, Committed(g)
    PROVE  Inv'
<1> DEFINE t == tables[g]
<1>1. Rest /\ Places /\ LockFits(g)
  BY DEF Inv
<1>2. lock[g].stage = "commit" /\ g \in Hosted /\ t.engine = "finished"
  BY <1>1 DEF Committed, LockFits, Hosted
<1>3. /\ lock' \in [Games -> Lock0] /\ lock'[g] = Idle
      /\ \A h \in Games : h # g => lock'[h] = lock[h]
  BY <1>1, LetGo DEF Committed
<1>4. UNCHANGED <<members, leaving>>
  BY DEF Committed
<1>5. CASE Settle(g, t, FALSE) /\ UNCHANGED failures
  <2>1. Proper(t) /\ Follows(t, t, FALSE)
    BY <1>2, HostedProper, FollowsItself
  <2>2. ~Starting(g)
    BY <1>2 DEF Starting
  <2>3. Rest'
    BY <1>1, <1>3, <1>4, <1>5 DEF Rest, Settle
  <2> QED BY <1>2, <1>3, <1>5, <2>1, <2>2, <2>3, SettleKeeps
<1>6. CASE /\ Fails
           /\ tables' = [tables EXCEPT ![g].engine = "playing"]
           /\ UNCHANGED <<ticking, db>>
  <2> DEFINE x == [t EXCEPT !.engine = "playing"]
  <2>1. tables' = [tables EXCEPT ![g] = x]
    BY <1>1, <1>6 DEF Places
  <2>2. Proper(t) /\ t \in Table /\ Held(g) /\ Unreserved(t)
    BY <1>2, HostedProper DEF Inv
  <2> HIDE DEF t
  <2>3. x \in Table
    BY <2>2 DEF Table
  <2>4. /\ x.kind = t.kind /\ x.engine = "playing" /\ x.ended = t.ended /\ x.departed = t.departed
        /\ x.id = t.id /\ x.round = t.round
        /\ x.users = t.users /\ x.queue = t.queue /\ x.phase = t.phase /\ x.next = t.next
        /\ x.releases = t.releases /\ x.reserved = t.reserved /\ x.offers = t.offers
        /\ x.folded = t.folded
    BY <2>2 DEF Table
  <2> HIDE DEF x
  <2>5. Proper(x)
    <3>1. Phases(x) /\ OneStart(x)
      BY <1>2, <2>2, <2>4 DEF Proper, Phases, OneStart, t
    <3>2. t.kind = "callbreak" /\ ~t.ended => CallBreakSeats(x)
      BY <2>2, <2>4 DEF Proper, CallBreakSeats
    <3>3. Seated(x) = Seated(t)
      BY <2>4, SeatedSame
    <3>4. t.phase = "COMPLETED" => OffersFit(x) /\ ReleasesFit(x)
      BY <2>2, <2>4, <3>3 DEF Proper, OffersFit, ReleasesFit
    <3> QED BY <2>2, <2>3, <2>4, <3>1, <3>2, <3>4 DEF Proper
  <2>6. /\ Places' /\ Hosted' = Hosted /\ tables'[g] = x
        /\ \A h \in Games : h # g => tables'[h] = tables[h]
    BY <1>1, <1>2, <2>1, <2>4, <2>5, PlacesKept DEF t
  <2>7. Held(g)'
    BY <1>2, <1>6, <2>2, <2>4, <2>6 DEF Held, Starting, t, db
  <2>8. Unreserved(x)
    BY <2>2, <2>4 DEF Unreserved
  <2>9. Moves(g) /\ RowsShrink
    BY <1>2, <1>6, <2>4, <2>6, <2>7, <2>8, Quiet DEF t
  <2>10. LockFits(g)'
    BY <1>3 DEF LockFits, Starting, Idle
  <2>11. Rest'
    <3>1. MaxFailures \in Nat
      BY SeatingAssumption DEF SeatingAssumption
    <3> QED BY <1>1, <1>3, <1>4, <1>6, <3>1 DEF Rest, Fails
  <2>12. gameRows' = gameRows
    BY <1>6 DEF db
  <2> QED BY <1>2, <1>3, <2>6, <2>9, <2>10, <2>11, <2>12, OneMoves
<1> QED BY <1>5, <1>6 DEF Committed

\* One match's table becomes x, and no row changes.
LEMMA QuietKeeps ==
    ASSUME Inv, NEW g \in Hosted, NEW x, Proper(x), tables' = [tables EXCEPT ![g] = x],
           UNCHANGED db, Rest', \A h \in Games : h # g => lock'[h] = lock[h],
           x.id = tables[g].id, x.kind = tables[g].kind, x.round = tables[g].round,
           x.ended = tables[g].ended, x.reserved = tables[g].reserved, Unreserved(x),
           x.phase = "STARTED" => /\ tables[g].phase = "STARTED"
                                  /\ x.users = tables[g].users /\ x.departed = tables[g].departed,
           ~Starting(g),
           x.phase = "STARTED" /\ (x.engine = "playing" \/ lock'[g].stage = "commit") =>
             tables[g].engine = "playing" \/ lock[g].stage = "commit",
           lock'[g].stage \in {"free", "commit"},
           lock'[g].stage = "commit" => x.engine = "finished"
    PROVE  Inv'
<1>1. Places /\ Held(g)
  BY DEF Inv
<1>2. /\ Places' /\ Hosted' = Hosted /\ tables'[g] = x
      /\ \A h \in Games : h # g => tables'[h] = tables[h]
  BY <1>1, PlacesKept
<1>3. gameRows' = gameRows
  BY DEF db
<1>4. Held(g)'
  <2>1. SUFFICES ASSUME x.phase = "STARTED", ~x.ended,
                        x.engine = "playing" \/ lock'[g].stage = "commit"
                 PROVE  \A u \in ToSet(x.users) \ x.departed : gameRows[u] = <<g, x.round>>
    BY <1>2, <1>3 DEF Held
  <2> QED BY <1>1, <2>1 DEF Held
<1>5. Moves(g) /\ RowsShrink
  BY <1>2, <1>4, Quiet
<1>6. LockFits(g)'
  <2>1. tables'[g] # NoTable
    BY <1>2, NoTableAssumption DEF Proper
  <2> QED BY <1>2, <2>1 DEF LockFits, Starting
<1> QED BY <1>2, <1>3, <1>5, <1>6, OneMoves

LEMMA Stages ==
    ASSUME Inv, NEW g \in Games
    PROVE  lock[g].stage \in {"free", "reserve", "start", "commit"}
  BY DEF Inv, Rest, Lock0

LEMMA ViewKeeps ==
    ASSUME Inv, NEW g \in Games, View(g)
    PROVE  Inv'
<1> DEFINE t == tables[g]
           x == Synced(t)
<1>1. g \in Hosted /\ x # t
  BY DEF View, Hosted
<1>2. Proper(t) /\ t \in Table /\ Unreserved(t) /\ LockFits(g)
  BY <1>1, HostedProper DEF Inv
<1>3. /\ tables' = [tables EXCEPT ![g] = x]
      /\ UNCHANGED <<members, lock, leaving, ticking, db, failures>>
  BY DEF View
<1>4. /\ Kept(t, x) /\ x.users = t.users /\ x.reserved = t.reserved /\ Proper(x)
      /\ t.ended => x.phase = "ENDED"
      /\ ~t.ended /\ Finished(t) /\ t.phase # "COMPLETED" => x.phase = "COMPLETED"
      /\ ~t.ended /\ t.phase = "STARTED" /\ FlushOpen(t) => x.phase = "OPEN"
      /\ ~t.ended /\ ~(Finished(t) /\ t.phase # "COMPLETED")
           /\ ~(t.phase = "STARTED" /\ FlushOpen(t)) => x = t
  BY <1>2, SyncedFacts, ProperSynced, SeatingAssumption
<1> HIDE DEF x
<1>5. ~Starting(g)
  BY <1>1, <1>2, <1>4 DEF LockFits, Finished, FlushOpen
<1>6. x.phase # "STARTED" /\ (x.phase = "OPEN" => t.kind = "flush")
  BY <1>1, <1>4 DEF FlushOpen
<1>7. Unreserved(x)
  BY <1>2, <1>4, <1>6 DEF Unreserved, Kept
<1>8. lock'[g].stage \in {"free", "commit"}
  BY <1>3, <1>5, Stages DEF Starting
<1>9. lock'[g].stage = "commit" => x.engine = "finished"
  BY <1>2, <1>3, <1>4 DEF LockFits, Kept
<1>10. Rest'
  BY <1>3 DEF Inv, Rest
<1> HIDE DEF t
<1>11. \A h \in Games : h # g => lock'[h] = lock[h]
  BY <1>3
<1>12. x.id = t.id /\ x.kind = t.kind /\ x.round = t.round /\ x.ended = t.ended
  BY <1>4 DEF Kept
<1> QED BY <1>1, <1>3, <1>4, <1>5, <1>6, <1>7, <1>8, <1>9, <1>10, <1>11, <1>12, QuietKeeps DEF t

LEMMA TickKeeps ==
    ASSUME Inv, NEW g \in Games, NEW expired, Tick(g, expired)
    PROVE  Inv'
<1> DEFINE t == tables[g]
           x == AdvancedFor(t, members, expired)
<1>1. g \in Hosted /\ lock[g] = Idle
  BY DEF Tick, Unlocked, Hosted
<1>2. Proper(t) /\ t \in Table /\ Unreserved(t)
  BY <1>1, HostedProper DEF Inv
<1>3. /\ tables' = [tables EXCEPT ![g] = x]
      /\ UNCHANGED <<members, lock, leaving, db, failures>>
  BY DEF Tick, AdvancedFor
<1>4. AdvanceMakes(t, x) /\ x.reserved = t.reserved
  BY <1>2, AdvancedForFacts
<1> HIDE DEF x
<1>5. /\ Proper(x) /\ Kept(t, x)
      /\ x.phase = "STARTED" => /\ t.phase = "STARTED" /\ x.users = t.users
                                /\ ~Finished(x) /\ ~FlushOpen(x)
      /\ t.kind # "flush" /\ x.phase = "OPEN" => t.phase = "OPEN"
  BY <1>4 DEF AdvanceMakes
<1>6. x.id = t.id /\ x.kind = t.kind /\ x.round = t.round /\ x.ended = t.ended
      /\ x.engine = t.engine /\ x.departed = t.departed
  BY <1>5 DEF Kept
<1>7. Unreserved(x)
  BY <1>2, <1>4, <1>5, <1>6 DEF Unreserved
<1>8. lock'[g].stage = "free" /\ ~Starting(g)
  BY <1>1, <1>3 DEF Starting, Idle
<1>9. ticking' \subseteq Games
  BY <1>1 DEF Inv, Rest, Tick
<1>10. Rest'
  BY <1>3, <1>9 DEF Inv, Rest
<1>11. \A h \in Games : h # g => lock'[h] = lock[h]
  BY <1>3
<1> HIDE DEF t
<1> QED BY <1>1, <1>3, <1>4, <1>5, <1>6, <1>7, <1>8, <1>10, <1>11, QuietKeeps DEF t

LEMMA LastMoveKeeps ==
    ASSUME Inv, NEW g \in Games, LastMove(g)
    PROVE  Inv'
<1> DEFINE t == tables[g]
           x == [t EXCEPT !.engine = "finished"]
           held == [lock[g] EXCEPT !.stage = "commit"]
<1>1. g \in Hosted /\ lock[g] = Idle /\ ~t.ended /\ t.engine = "playing"
  BY DEF LastMove, Unlocked, Hosted
<1>2. Proper(t) /\ t \in Table /\ Unreserved(t) /\ Rest /\ Places
  BY <1>1, HostedProper DEF Inv
<1>3. tables' = [tables EXCEPT ![g] = x]
  BY <1>2 DEF LastMove, Places
<1>4. UNCHANGED <<members, leaving, ticking, db, failures>>
  BY DEF LastMove
<1>5. lock' = [lock EXCEPT ![g] = held]
  BY <1>2 DEF LastMove, Rest
<1>6. held \in Lock0 /\ held.stage = "commit"
  <2>1. held = [Idle EXCEPT !.stage = "commit"]
    BY <1>1
  <2> HIDE DEF held
  <2>2. [Idle EXCEPT !.stage = "commit"] \in Lock0
    BY DEF Idle, Lock0
  <2>3. [Idle EXCEPT !.stage = "commit"].stage = "commit"
    BY DEF Idle
  <2> QED BY <2>1, <2>2, <2>3
<1> HIDE DEF held
<1>7. /\ lock' \in [Games -> Lock0] /\ lock'[g].stage = "commit"
      /\ \A h \in Games : h # g => lock'[h] = lock[h]
  BY <1>2, <1>5, <1>6 DEF Rest
<1> HIDE DEF t
<1>8. x \in Table
  BY <1>2 DEF Table
<1>9. /\ x.kind = t.kind /\ x.engine = "finished" /\ x.ended = t.ended /\ x.departed = t.departed
      /\ x.id = t.id /\ x.round = t.round
      /\ x.users = t.users /\ x.queue = t.queue /\ x.phase = t.phase /\ x.next = t.next
      /\ x.releases = t.releases /\ x.reserved = t.reserved /\ x.offers = t.offers
      /\ x.folded = t.folded
  BY <1>2 DEF Table
<1> HIDE DEF x
<1>10. Proper(x)
  <2>1. Phases(x) /\ OneStart(x)
    BY <1>1, <1>2, <1>9 DEF Proper, Phases, OneStart
  <2>2. t.kind = "callbreak" /\ ~t.ended => CallBreakSeats(x)
    BY <1>2, <1>9 DEF Proper, CallBreakSeats
  <2>3. Seated(x) = Seated(t)
    BY <1>9, SeatedSame
  <2>4. t.phase = "COMPLETED" => OffersFit(x) /\ ReleasesFit(x)
    BY <1>2, <1>9, <2>3 DEF Proper, OffersFit, ReleasesFit
  <2> QED BY <1>2, <1>8, <1>9, <2>1, <2>2, <2>4 DEF Proper
<1>11. Unreserved(x)
  BY <1>2, <1>9 DEF Unreserved
<1>12. Rest'
  BY <1>2, <1>4, <1>7 DEF Rest
<1>13. ~Starting(g)
  BY <1>1 DEF Starting, Idle
<1> QED BY <1>1, <1>3, <1>4, <1>7, <1>9, <1>10, <1>11, <1>12, <1>13, QuietKeeps DEF t

-------------------------------------------------------------------------------
(* Leaving a match *)

\* No table, lock or row changes.
LEMMA StandsStill ==
    ASSUME Inv, UNCHANGED <<tables, lock, db>>, Rest'
    PROVE  Inv'
<1>1. /\ tables' = tables /\ lock' = lock
      /\ tableRows' = tableRows /\ gameRows' = gameRows /\ stored' = stored
  BY DEF db
<1>2. Hosted' = Hosted
  BY <1>1 DEF Hosted
<1>3. Places' /\ Rows'
  BY <1>1, <1>2 DEF Inv, Places, Rows
<1>4. \A g \in Hosted' : Held(g)' /\ Unreserved(tables'[g])
  BY <1>1, <1>2 DEF Inv, Held, Starting
<1>5. \A g \in Games : LockFits(g)'
  BY <1>1 DEF Inv, LockFits, Starting
<1>6. GameRowsKnown' /\ TableRowsKnown'
  BY <1>1, <1>2 DEF Inv, GameRowsKnown, TableRowsKnown
<1> QED BY <1>3, <1>4, <1>5, <1>6 DEF Inv

LEMMA RequestLeaveKeeps ==
    ASSUME Inv, NEW g \in Games, NEW u \in Users, RequestLeave(u, g)
    PROVE  Inv'
<1> DEFINE t == tables[g]
           y == [t EXCEPT !.reserved = t.reserved /\ ~Finished(t)]
           x == Synced(y)
<1>1. g \in Hosted
  BY DEF RequestLeave, Hosted
<1>2. Proper(t) /\ t \in Table /\ Unreserved(t) /\ LockFits(g) /\ Places /\ Rest /\ Rows
  BY <1>1, HostedProper DEF Inv
<1>3. /\ tables' = [tables EXCEPT ![g] = x]
      /\ IF Finished(t) THEN Free({g}) ELSE UNCHANGED db
      /\ UNCHANGED <<members, lock, ticking, failures>>
      /\ leaving' \in {leaving, leaving \cup {<<u, g>>}}
  BY DEF RequestLeave
<1>4. Rest'
  BY <1>2, <1>3 DEF Rest
<1>5. (~Finished(t)) \in BOOLEAN
  OBVIOUS
<1>6. /\ Proper(y) /\ Kept(t, y) /\ y.users = t.users /\ y.phase = t.phase
      /\ y.reserved = (t.reserved /\ ~Finished(t))
  BY <1>2, <1>5, ProperUnreserved
<1>7. t.reserved \in BOOLEAN
  BY <1>2 DEF Table
<1>8. ~Finished(t) => y = t
  BY <1>2, <1>7 DEF Table
<1> HIDE DEF y
<1>9. y \in Table /\ (Finished(y) <=> Finished(t)) /\ (FlushOpen(y) <=> FlushOpen(t))
  BY <1>6 DEF Kept, Finished, FlushOpen, Proper
<1>10. /\ Kept(y, x) /\ x.users = y.users /\ x.reserved = y.reserved /\ Proper(x)
       /\ y.ended => x.phase = "ENDED"
       /\ ~y.ended /\ Finished(y) /\ y.phase # "COMPLETED" => x.phase = "COMPLETED"
       /\ ~y.ended /\ y.phase = "STARTED" /\ FlushOpen(y) => x.phase = "OPEN"
       /\ ~y.ended /\ ~(Finished(y) /\ y.phase # "COMPLETED")
            /\ ~(y.phase = "STARTED" /\ FlushOpen(y)) => x = y
  BY <1>6, <1>9, SyncedFacts, ProperSynced, SeatingAssumption
<1> HIDE DEF x
<1>11. x.id = t.id /\ x.kind = t.kind /\ x.round = t.round /\ x.ended = t.ended
       /\ x.engine = t.engine /\ x.departed = t.departed /\ x.users = t.users
  BY <1>6, <1>10 DEF Kept
<1>12. CASE Finished(t)
  <2>1. /\ Places' /\ Hosted' = Hosted /\ tables'[g] = x
        /\ \A h \in Games : h # g => tables'[h] = tables[h] /\ lock'[h] = lock[h]
    BY <1>1, <1>2, <1>3, <1>10, <1>11, PlacesKept
  <2>2. /\ RowsShrink
        /\ \A v \in Users : gameRows'[v] # <<g, t.round>>
        /\ \A v \in Users : t.reserved => tableRows'[v] # t.id
        /\ \A h \in Hosted, v \in Users :
             h # g /\ gameRows[v] = <<h, tables[h].round>> => gameRows'[v] = gameRows[v]
    <3>1. Free({g})
      BY <1>3, <1>12
    <3> QED BY <1>1, <1>2, <3>1, FreeFacts
  <2>3. ~x.reserved /\ x.phase # "STARTED"
    BY <1>6, <1>9, <1>10, <1>12
  <2>4. Held(g)' /\ Unreserved(x)
    BY <2>1, <2>3 DEF Held, Unreserved
  <2>5. Moves(g)
    BY <1>11, <2>1, <2>2, <2>4 DEF Moves
  <2>6. ~Starting(g) /\ lock' = lock
    BY <1>2, <1>3, <1>12 DEF LockFits, Finished
  <2>7. LockFits(g)'
    <3>1. tables'[g] # NoTable
      BY <1>10, <2>1, NoTableAssumption DEF Proper
    <3> QED BY <1>2, <1>11, <2>1, <2>6, <3>1 DEF LockFits, Starting
  <2> HIDE DEF t
  <2> QED BY <1>1, <1>4, <2>1, <2>2, <2>5, <2>7, OneMoves
<1>13. CASE ~Finished(t) /\ x # t
  <2>1. x.phase # "STARTED" /\ (x.phase = "OPEN" => t.kind = "flush")
    BY <1>6, <1>8, <1>10, <1>13 DEF FlushOpen
  <2>2. Unreserved(x) /\ x.reserved = t.reserved
    BY <1>2, <1>8, <1>10, <1>11, <1>13, <2>1 DEF Unreserved
  <2>3. ~Starting(g) /\ lock' = lock
    BY <1>2, <1>3, <1>8, <1>10, <1>13 DEF LockFits, FlushOpen
  <2>4. lock'[g].stage \in {"free", "commit"} /\ (lock'[g].stage = "commit" => x.engine = "finished")
    BY <1>2, <1>11, <2>3, Stages DEF Starting, LockFits
  <2>5. UNCHANGED db
    BY <1>3, <1>13
  <2> HIDE DEF t
  <2> QED BY <1>1, <1>3, <1>4, <1>10, <1>11, <2>1, <2>2, <2>3, <2>4, <2>5, QuietKeeps DEF t
<1>14. CASE ~Finished(t) /\ x = t
  <2>1. tables' = tables
    BY <1>2, <1>3, <1>14 DEF Places
  <2> QED BY <1>3, <1>4, <1>14, <2>1, StandsStill
<1> QED BY <1>12, <1>13, <1>14

\* A player folds out of a round of Flush, which may be decided by it.
LEMMA FoldChanges ==
    ASSUME NEW t, Proper(t), t.kind = "flush", t.engine # "none",
           NEW e \in {"playing", "finished"}, e = "playing" => t.engine = "playing",
           NEW u \in Users
    PROVE  LET s == [t EXCEPT !.engine = e, !.folded = @ \cup {u}] IN
           Proper(s) /\ Follows(t, s, FALSE)
<1> DEFINE s == [t EXCEPT !.engine = e, !.folded = t.folded \cup {u}]
<1>1. t \in Table /\ Phases(t)
  BY DEF Proper
<1>2. t.folded \cup {u} \in SUBSET Users
  BY <1>1 DEF Table
<1>3. s \in Table
  BY <1>1, <1>2 DEF Table
<1>4. /\ s.kind = t.kind /\ s.engine = e /\ s.ended = t.ended /\ s.departed = t.departed
      /\ s.id = t.id /\ s.round = t.round
      /\ s.users = t.users /\ s.queue = t.queue /\ s.phase = t.phase /\ s.next = t.next
      /\ s.releases = t.releases /\ s.reserved = t.reserved /\ s.offers = t.offers
  BY <1>1 DEF Table
<1>5. s = [t EXCEPT !.engine = e, !.folded = @ \cup {u}]
  BY <1>1 DEF Table
<1> HIDE DEF s
<1>6. Phases(s) /\ t.phase # "COMPLETED"
  BY <1>1, <1>4 DEF Phases
<1>7. Proper(s)
  BY <1>3, <1>4, <1>6 DEF Proper
<1>8. Follows(t, s, FALSE)
  BY <1>4 DEF Follows, InPlay, Unreserved
<1> QED BY <1>5, <1>7, <1>8

\* A player leaves a table whose start has failed meanwhile.
LEMMA QuitChanges ==
    ASSUME NEW t, Proper(t), Unreserved(t), t.engine = "none", NEW u
    PROVE  LET s == [t EXCEPT !.users = Without(@, {u}), !.ended = @ \/ t.users = <<u>>] IN
           Proper(s) /\ Follows(t, s, s.ended)
<1> DEFINE w == Without(t.users, {u})
           over == t.ended \/ t.users = <<u>>
           s == [t EXCEPT !.users = w, !.ended = over]
<1>1. t \in Table /\ Phases(t) /\ t.users \in Seq(Users) /\ Len(t.users) \in Nat /\ Len(t.users) <= Capacity
  BY DEF Proper, Table
<1>2. w \in Seq(Users) /\ Len(w) \in Nat /\ Len(w) <= Len(t.users)
  BY <1>1, Left
<1>3. over \in BOOLEAN /\ (t.ended => over)
  BY <1>1 DEF Table
<1>4. s = [t EXCEPT !.users = Without(@, {u}), !.ended = @ \/ t.users = <<u>>]
  BY <1>1 DEF Table
<1>5. Len(w) <= Capacity
  <2> DEFINE a == Len(w)
             b == Len(t.users)
  <2>1. a \in Nat /\ b \in Nat /\ a <= b /\ b <= Capacity /\ Capacity \in Nat
    BY <1>1, <1>2, SeatingAssumption DEF SeatingAssumption
  <2> HIDE DEF a, b
  <2>2. a <= Capacity
    BY ONLY <2>1
  <2> QED BY <2>2 DEF a
<1> HIDE DEF w, over
<1>6. s \in Table
  BY <1>1, <1>2, <1>3 DEF Table
<1>7. /\ s.kind = t.kind /\ s.engine = "none" /\ s.ended = over /\ s.departed = t.departed
      /\ s.id = t.id /\ s.round = t.round
      /\ s.users = w /\ s.queue = t.queue /\ s.phase = t.phase /\ s.next = t.next
      /\ s.releases = t.releases /\ s.reserved = t.reserved /\ s.offers = t.offers
      /\ s.folded = t.folded
  BY <1>1 DEF Table
<1> HIDE DEF s
<1>8. Phases(s) /\ t.phase \notin {"COMPLETED", "STARTED"}
  BY <1>1, <1>3, <1>7 DEF Phases
<1>9. t.kind = "callbreak" /\ ~over => CallBreakSeats(s)
  BY <1>3, <1>7, <1>8 DEF Proper, CallBreakSeats
<1>10. t.kind # "flush" => OneStart(s)
  BY <1>7 DEF Proper, OneStart
<1>11. Proper(s)
  BY <1>5, <1>6, <1>7, <1>8, <1>9, <1>10 DEF Proper
<1>12. Follows(t, s, s.ended)
  BY <1>3, <1>7 DEF Follows, InPlay, Unreserved
<1> QED BY <1>4, <1>11, <1>12

\* A player folds out of a Marriage match, which ends when everybody has.
Departing(t, u, e, over) == [t EXCEPT !.engine = e, !.departed = @ \cup {u}, !.ended = @ \/ over]

LEMMA DepartChanges ==
    ASSUME NEW t, Proper(t), t.kind = "marriage", t.engine # "none",
           NEW e \in {"playing", "finished"}, e = "playing" => t.engine = "playing",
           NEW u \in Users, NEW over \in BOOLEAN
    PROVE  LET s == Departing(t, u, e, over) IN
           /\ Proper(s) /\ Follows(t, s, s.ended) /\ s.ended \in BOOLEAN
           /\ u \in s.departed /\ s.reserved = t.reserved
           /\ Releases(t) => Releases(s)
<1> DEFINE D == t.departed \cup {u}
           b == t.ended \/ over
           s == [t EXCEPT !.engine = e, !.departed = D, !.ended = b]
<1>1. t \in Table /\ Phases(t)
  BY DEF Proper
<1>2. D \in SUBSET Users /\ t.departed \subseteq D /\ u \in D /\ b \in BOOLEAN /\ (t.ended => b)
  BY <1>1 DEF Table
<1>3. s = Departing(t, u, e, over)
  BY <1>1 DEF Table, Departing
<1> HIDE DEF D, b
<1>4. s \in Table
  BY <1>1, <1>2 DEF Table
<1>5. /\ s.kind = t.kind /\ s.engine = e /\ s.ended = b /\ s.departed = D
      /\ s.id = t.id /\ s.round = t.round
      /\ s.users = t.users /\ s.queue = t.queue /\ s.phase = t.phase /\ s.next = t.next
      /\ s.releases = t.releases /\ s.reserved = t.reserved /\ s.offers = t.offers
      /\ s.folded = t.folded
  BY <1>1 DEF Table
<1> HIDE DEF s
<1>6. t.offers = {} /\ t.releases = << >> /\ t.folded = {}
  BY <1>1 DEF Phases
<1>7. t.phase \in {"STARTED", "COMPLETED", "ENDED"}
  BY <1>1 DEF Phases
<1>8. Phases(s)
  BY <1>1, <1>2, <1>5, <1>6, <1>7 DEF Phases
<1>9. OffersFit(s) /\ ReleasesFit(s)
  BY <1>5, <1>6 DEF OffersFit, ReleasesFit
<1>10. Proper(s)
  BY <1>4, <1>5, <1>8, <1>9 DEF Proper, OneStart
<1>11. Follows(t, s, s.ended)
  BY <1>2, <1>5, <1>7 DEF Follows, InPlay, Unreserved, Phases
<1>12. Releases(t) => Releases(s)
  <2>1. ~FoldersGo(t)
    BY <1>6 DEF FoldersGo
  <2>2. Finished(t) => Finished(s)
    BY <1>5 DEF Finished
  <2>3. FlushOpen(t) => FlushOpen(s)
    BY DEF FlushOpen
  <2> QED BY <1>1, <1>2, <1>4, <1>5, <2>1, <2>2, <2>3, ReleasesFacts
<1> QED BY <1>2, <1>3, <1>5, <1>10, <1>11, <1>12

\* What FoldAndLeave does then.
Departs(g, u, e, over) ==
    LET t == tables[g]
        s == Departing(t, u, e, over)
        a == Advanced(s)
        free == s.ended \/ Releases(s)
    IN /\ tables' = [tables EXCEPT ![g] = [a EXCEPT !.reserved = @ /\ ~free]]
       /\ gameRows' = [v \in Users |->
            IF (v = u \/ free) /\ gameRows[v] = <<g, t.round>> THEN << >> ELSE gameRows[v]]
       /\ tableRows' = [v \in Users |->
            IF (v = u \/ (free /\ t.reserved)) /\ tableRows[v] = t.id THEN 0 ELSE tableRows[v]]
       /\ UNCHANGED <<ticking, stored>>

LEMMA DepartKeeps ==
    ASSUME Inv, NEW g \in Hosted, lock[g] = Idle, UNCHANGED lock, Rest', NEW u \in Users,
           NEW e \in {"playing", "finished"}, NEW over \in BOOLEAN,
           tables[g].kind = "marriage", tables[g].engine # "none",
           e = "playing" => tables[g].engine = "playing",
           Departs(g, u, e, over)
    PROVE  Inv'
<1> DEFINE t == tables[g]
           s == Departing(t, u, e, over)
           a == Advanced(s)
           keeps == ~(s.ended \/ Releases(s))
           x == [a EXCEPT !.reserved = a.reserved /\ keeps]
<1>1. Proper(t) /\ t \in Table /\ Places /\ Rows /\ g \in Games
  BY HostedProper DEF Inv
<1>2. /\ tables' = [tables EXCEPT ![g] = x]
      /\ gameRows' = [v \in Users |->
           IF (v = u \/ ~keeps) /\ gameRows[v] = <<g, t.round>> THEN << >> ELSE gameRows[v]]
      /\ tableRows' = [v \in Users |->
           IF (v = u \/ (~keeps /\ t.reserved)) /\ tableRows[v] = t.id THEN 0 ELSE tableRows[v]]
      /\ stored' = stored
  BY DEF Departs
<1> HIDE DEF t
<1>3. /\ Proper(s) /\ Follows(t, s, s.ended) /\ s.ended \in BOOLEAN
      /\ u \in s.departed /\ s.reserved = t.reserved
      /\ Releases(t) => Releases(s)
  <2>1. t.kind = "marriage" /\ t.engine # "none" /\ (e = "playing" => t.engine = "playing")
    BY DEF t
  <2> QED BY <1>1, <2>1, DepartChanges
<1> HIDE DEF s
<1>4. AdvanceMakes(s, a) /\ (a.reserved <=> s.reserved /\ ~Releases(s))
  BY <1>3, AdvancedFacts
<1>5. keeps \in BOOLEAN /\ (~keeps) \in BOOLEAN
  OBVIOUS
<1>6. (~keeps) = (s.ended \/ Releases(t) \/ Releases(s))
  BY <1>3
<1>7. keeps => ~Releases(s)
  OBVIOUS
<1> HIDE DEF a, keeps
<1>8. AdvanceMakes(s, x) /\ Kept(a, x) /\ Proper(x) /\ x.reserved = (a.reserved /\ keeps)
  BY <1>4, <1>5, FreedMakes
<1> HIDE DEF x
<1>9. x.reserved <=> s.reserved /\ keeps
  BY <1>4, <1>7, <1>8
<1>10. x.id = t.id /\ x.kind = t.kind
  BY <1>3, <1>8 DEF Follows, Kept, AdvanceMakes
<1>11. /\ Places' /\ Hosted' = Hosted /\ tables'[g] = x
       /\ \A h \in Games : h # g => tables'[h] = tables[h]
  BY <1>1, <1>2, <1>8, <1>10, PlacesKept DEF t
<1>12. t.id # 0
  BY <1>1 DEF Places, Hosted, Games, t
<1>13. RowsShrink
  BY <1>1, <1>2 DEF RowsShrink, Rows
<1>14. /\ \A v \in Users : ~keeps => gameRows'[v] # <<g, t.round>>
       /\ \A v \in Users : ~keeps /\ t.reserved => tableRows'[v] # t.id
       /\ \A v \in Users \ s.departed :
            keeps /\ gameRows[v] = <<g, t.round>> => gameRows'[v] = gameRows[v]
  BY <1>2, <1>3, <1>12
<1>15. \A h \in Hosted, v \in Users :
         h # g /\ gameRows[v] = <<h, tables[h].round>> => gameRows'[v] = gameRows[v]
  BY <1>2
<1>16. ~Starting(g) /\ lock' = lock /\ lock'[g] = Idle
  BY DEF Starting, Idle
<1>17. Moves(g)
  <2> DEFINE free == ~keeps
  <2>1. /\ free \in BOOLEAN /\ free = (s.ended \/ Releases(t) \/ Releases(s))
        /\ x.reserved <=> s.reserved /\ ~free
        /\ \A v \in Users : free => gameRows'[v] # <<g, t.round>>
        /\ \A v \in Users : free /\ t.reserved => tableRows'[v] # t.id
        /\ \A v \in Users \ s.departed :
             ~free /\ gameRows[v] = <<g, t.round>> => gameRows'[v] = gameRows[v]
    BY <1>5, <1>6, <1>9, <1>14
  <2> HIDE DEF free
  <2> QED BY <1>3, <1>8, <1>11, <1>13, <1>16, <2>1, FollowsMoves DEF t
<1>18. LockFits(g)'
  <2>1. tables'[g] # NoTable
    BY <1>8, <1>11, NoTableAssumption DEF Proper
  <2> QED BY <1>16, <2>1 DEF LockFits, Starting, Idle
<1> QED BY <1>11, <1>13, <1>15, <1>16, <1>17, <1>18, OneMoves

LEMMA FoldAndLeaveKeeps ==
    ASSUME Inv, NEW g \in Games, NEW u \in Users, FoldAndLeave(u, g)
    PROVE  Inv'
<1> DEFINE t == tables[g]
           gone == t.departed \cup t.folded \cup {u}
           after == IF t.engine # "playing" THEN {t.engine}
                    ELSE {"finished"} \cup
                         IF Len(Without(t.users, gone)) > 1
                         THEN {"playing"} ELSE {}
           over == ToSet(t.users) \subseteq gone
           s(e) == [t EXCEPT !.engine = e, !.folded = @ \cup {u}]
           q == [t EXCEPT !.users = Without(@, {u}), !.ended = @ \/ t.users = <<u>>]
<1>1. g \in Hosted /\ lock[g] = Idle /\ Rest /\ Rows
  BY DEF Inv, FoldAndLeave, Unlocked, Hosted
<1>2. /\ leaving' = leaving \ {<<u, g>>}
      /\ UNCHANGED <<members, lock, failures>>
  BY DEF FoldAndLeave
<1>3. Proper(t) /\ t \in Table /\ Unreserved(t)
  BY <1>1, HostedProper DEF Inv
<1>4. t.engine # "none" => \A e \in after : /\ e \in {"playing", "finished"}
                                            /\ e = "playing" => t.engine = "playing"
  BY <1>3 DEF Table
<1>5. ~Starting(g) /\ over \in BOOLEAN
  BY <1>1 DEF Starting, Idle
<1>6. ASSUME ticking' \subseteq Games PROVE Rest'
  BY <1>1, <1>2, <1>6 DEF Rest
<1>7. \A h \in Games : h # g => lock'[h] = lock[h]
  BY <1>2
<1>8. ASSUME NEW r, NEW f, Settle(g, r, f) PROVE ticking' \subseteq Games
  BY <1>1, <1>8 DEF Settle, Rest
<1>9. CASE UNCHANGED <<tables, ticking, db>>
  <2>1. Rest'
    BY <1>1, <1>6, <1>9 DEF Rest
  <2> QED BY <1>2, <1>9, <2>1, StandsStill
<1>10. CASE t.kind = "flush" /\ t.engine # "none" /\ \E e \in after : Settle(g, s(e), FALSE)
  <2>1. PICK e \in after : Settle(g, s(e), FALSE)
    BY <1>10
  <2>2. Proper(s(e)) /\ Follows(t, s(e), FALSE)
    BY <1>3, <1>4, <1>10, FoldChanges
  <2>3. Rest'
    BY <1>6, <1>8, <2>1
  <2> HIDE DEF s
  <2> QED BY <1>1, <1>2, <1>5, <1>7, <2>1, <2>2, <2>3, SettleKeeps
<1>11. CASE t.kind = "marriage" /\ t.engine # "none" /\ \E e \in after : Departs(g, u, e, over)
  <2> HIDE DEF over
  <2>1. Rest'
    BY <1>1, <1>6, <1>11 DEF Rest, Departs
  <2> QED BY <1>1, <1>2, <1>4, <1>5, <1>11, <2>1, DepartKeeps
<1>12. CASE t.engine = "none" /\ Settle(g, q, q.ended)
  <2>1. Proper(q) /\ Follows(t, q, q.ended)
    BY <1>3, <1>12, QuitChanges
  <2>2. Rest'
    BY <1>6, <1>8, <1>12
  <2>3. q.ended \in BOOLEAN
    BY <2>1 DEF Proper, Table
  <2> HIDE DEF q
  <2> QED BY <1>1, <1>2, <1>5, <1>7, <1>12, <2>1, <2>2, <2>3, SettleKeeps
<1> QED BY <1>9, <1>10, <1>11, <1>12 DEF FoldAndLeave, Departs, Departing

-------------------------------------------------------------------------------
(* Steps that take rows *)

LEMMA OneKeeps ==
    ASSUME Inv, NEW g \in Hosted, NEW x, Proper(x), tables' = [tables EXCEPT ![g] = x],
           x.id = tables[g].id, x.kind = tables[g].kind, Rest', Rows',
           \A h \in Games : h # g => lock'[h] = lock[h],
           \A h \in Hosted, u \in Users :
             h # g /\ gameRows[u] = <<h, tables[h].round>> => gameRows'[u] = gameRows[u],
           Held(g)', Unreserved(x), LockFits(g)',
           GameRowsKnown', TableRowsKnown'
    PROVE  Inv'
<1>1. /\ Places' /\ Hosted' = Hosted /\ tables'[g] = x
      /\ \A h \in Games : h # g => tables'[h] = tables[h]
  BY PlacesKept DEF Inv
<1>2. ASSUME NEW h \in Hosted PROVE Held(h)' /\ Unreserved(tables'[h])
  <2>1. CASE h = g
    BY <1>1, <2>1
  <2>2. CASE h # g
    <3>1. h \in Games /\ tables'[h] = tables[h] /\ lock'[h] = lock[h] /\ tables[h] \in Table
      BY <1>1, <2>2, HostedProper DEF Hosted
    <3>2. ToSet(tables[h].users) \subseteq Users
      BY <3>1, Members DEF Table
    <3>3. Held(h) /\ Unreserved(tables[h])
      BY DEF Inv
    <3> QED BY <2>2, <3>1, <3>2, <3>3 DEF Held, Starting
  <2> QED BY <2>1, <2>2
<1>3. ASSUME NEW h \in Games PROVE LockFits(h)'
  <2>1. CASE h = g
    BY <2>1
  <2>2. CASE h # g
    BY <1>1, <2>2 DEF Inv, LockFits, Starting
  <2> QED BY <2>1, <2>2
<1> QED BY <1>1, <1>2, <1>3 DEF Inv

LEMMA GameRowsStay ==
    ASSUME GameRowsKnown, gameRows' = gameRows, Hosted' = Hosted,
           \A g \in Hosted : /\ tables'[g].round = tables[g].round /\ tables'[g].kind = tables[g].kind
                             /\ tables'[g].ended = tables[g].ended
    PROVE  GameRowsKnown'
<1>1. \A g \in Hosted : Sure(tables'[g]) <=> Sure(tables[g])
  BY SureSame
<1> QED BY <1>1 DEF GameRowsKnown

LEMMA TableRowsStay ==
    ASSUME TableRowsKnown, NEW g \in Hosted, Hosted' = Hosted,
           \A h \in Hosted : h # g => tables'[h] = tables[h],
           tables'[g].id = tables[g].id,
           \A u \in Users :
             \/ tableRows'[u] \in {tableRows[u], 0}
             \/ tableRows'[u] = tables[g].id /\ (tables'[g].reserved \/ ~Sure(tables'[g])),
           (tables[g].reserved \/ ~Sure(tables[g])) /\ ~tables'[g].reserved /\ Sure(tables'[g]) =>
             \A u \in Users : tableRows'[u] # tables[g].id
    PROVE  TableRowsKnown'
<1> SUFFICES ASSUME NEW u \in Users, tableRows'[u] # 0
             PROVE  \E h \in Hosted : /\ tables'[h].id = tableRows'[u]
                                      /\ tables'[h].reserved \/ ~Sure(tables'[h])
  BY DEF TableRowsKnown
<1>1. CASE tableRows'[u] = tables[g].id /\ (tables'[g].reserved \/ ~Sure(tables'[g]))
  BY <1>1
<1>2. CASE tableRows'[u] = tableRows[u]
  <2>1. PICK h \in Hosted : tables[h].id = tableRows[u] /\ (tables[h].reserved \/ ~Sure(tables[h]))
    BY <1>2 DEF TableRowsKnown
  <2> QED BY <1>2, <2>1
<1> QED BY <1>1, <1>2

\* The reservation of a table's roster.
LEMMA ReservedRows ==
    ASSUME Rows, NEW t \in Table
    PROVE  /\ RowsReserved(t) \in [Users -> Games \cup {0}]
           /\ \A u \in Users : RowsReserved(t)[u] \in {tableRows[u], t.id}
<1>1. t.id \in Games
  BY DEF Table
<1> QED BY <1>1 DEF RowsReserved, Rows

LEMMA LockKeeps ==
    ASSUME Inv, NEW g \in Games, Unlocked(g), NEW u \in Users, Lock(u, g, Now(g))
    PROVE  Inv'
<1> DEFINE t == Now(g)
           x == [t EXCEPT !.phase = "LOCKED", !.reserved = TRUE]
<1>1. g \in Hosted /\ lock[g] = Idle
  BY DEF Unlocked, Hosted
<1>2. /\ Settled(t) /\ t \in Table /\ Kept(tables[g], t)
      /\ t.reserved <=> tables[g].reserved /\ ~Releases(tables[g])
  BY <1>1, NowFacts, NowSettled DEF AdvanceMakes
<1>3. /\ ~Releases(tables[g]) /\ t.kind # "callbreak" /\ t.phase = "OPEN"
      /\ tableRows' = IF t.reserved THEN tableRows ELSE RowsReserved(t)
      /\ tables' = [tables EXCEPT ![g] = x]
      /\ UNCHANGED <<members, lock, leaving, ticking, gameRows, stored, failures>>
  BY DEF Lock, RequiresLock
<1> HIDE DEF t
<1>4. Proper(t) /\ ~t.ended /\ t.offers = {} /\ Phases(t)
  BY <1>2, <1>3 DEF Settled, Proper
<1>5. x \in Table
  BY <1>2 DEF Table
<1>6. /\ x.kind = t.kind /\ x.engine = t.engine /\ x.ended = t.ended /\ x.departed = t.departed
      /\ x.id = t.id /\ x.round = t.round
      /\ x.users = t.users /\ x.queue = t.queue /\ x.phase = "LOCKED" /\ x.next = t.next
      /\ x.releases = t.releases /\ x.reserved /\ x.offers = t.offers
      /\ x.folded = t.folded
  BY <1>2 DEF Table
<1> HIDE DEF x
<1>7. Phases(x)
  BY <1>3, <1>4, <1>6 DEF Phases
<1>8. t.kind # "flush" => OneStart(x)
  BY <1>4, <1>6 DEF Proper, OneStart
<1>9. Proper(x)
  BY <1>3, <1>4, <1>5, <1>6, <1>7, <1>8 DEF Proper
<1>10. Unreserved(x)
  BY <1>4, <1>6 DEF Unreserved
<1>11. x.id = tables[g].id /\ x.kind = tables[g].kind /\ x.round = tables[g].round
       /\ x.ended = tables[g].ended
  BY <1>2, <1>6 DEF Kept
<1>12. /\ Places' /\ Hosted' = Hosted /\ tables'[g] = x
       /\ \A h \in Games : h # g => tables'[h] = tables[h]
  BY <1>1, <1>3, <1>9, <1>11, PlacesKept DEF Inv
<1>13. Held(g)' /\ LockFits(g)'
  <2>1. tables'[g] # NoTable
    BY <1>9, <1>12, NoTableAssumption DEF Proper
  <2> QED BY <1>1, <1>3, <1>6, <1>12, <2>1 DEF Held, LockFits, Starting, Idle
<1>14. Rows' /\ \A v \in Users : tableRows'[v] \in {tableRows[v], t.id}
  <2>1. Rows
    BY DEF Inv
  <2> QED BY <1>2, <1>3, <2>1, ReservedRows DEF Rows
<1>15. GameRowsKnown' /\ TableRowsKnown'
  <2>1. GameRowsKnown /\ TableRowsKnown
    BY DEF Inv
  <2>2. \A h \in Hosted : h \in Games
    BY DEF Hosted
  <2>3. GameRowsKnown'
    BY <1>3, <1>11, <1>12, <2>1, <2>2, GameRowsStay
  <2>4. TableRowsKnown'
    BY <1>1, <1>2, <1>6, <1>11, <1>12, <1>14, <2>1, <2>2, SureSame, TableRowsStay
  <2> QED BY <2>3, <2>4
<1>16. Rest'
  BY <1>3 DEF Inv, Rest
<1> QED BY <1>1, <1>3, <1>9, <1>10, <1>11, <1>13, <1>14, <1>15, <1>16, OneKeeps

LEMMA StartKeeps ==
    ASSUME Inv, NEW g \in Games, Unlocked(g), NEW u \in Users, Start(u, g, Now(g))
    PROVE  Inv'
<1> DEFINE t == Now(g)
           x == [t EXCEPT !.engine = "playing", !.phase = "STARTED"]
           held == [stage |-> IF t.reserved THEN "start" ELSE "reserve",
                    reservedHere |-> FALSE, engine |-> t.engine]
<1>1. g \in Hosted /\ lock[g] = Idle /\ Places /\ Rest
  BY DEF Unlocked, Hosted, Inv
<1>2. /\ Settled(t) /\ t \in Table /\ Kept(tables[g], t)
      /\ t.reserved <=> tables[g].reserved /\ ~Releases(tables[g])
  BY <1>1, NowFacts, NowSettled DEF AdvanceMakes
<1>3. /\ ~Releases(tables[g]) /\ ~t.ended /\ t.phase # "STARTED"
      /\ t.engine = "none" \/ FlushOpen(t)
      /\ t.kind # "callbreak" => t.phase = "LOCKED"
      /\ t.kind = "callbreak" => Len(t.users) \in Capacity..Capacity
      /\ t.offers = {} /\ t.releases = << >> /\ t.starts < MaxStarts
      /\ tables' = [tables EXCEPT ![g] = x]
      /\ lock' = [lock EXCEPT ![g] = held]
      /\ UNCHANGED <<members, leaving, ticking, db, failures>>
  BY DEF Start, RequiresLock, MinPlayers
<1> HIDE DEF t
<1>4. Proper(t) /\ Unreserved(t) /\ Phases(t)
  BY <1>2 DEF Settled, Proper
<1>5. x \in Table
  BY <1>2 DEF Table
<1>6. /\ x.kind = t.kind /\ x.engine = "playing" /\ x.ended = t.ended /\ x.departed = t.departed
      /\ x.id = t.id /\ x.round = t.round /\ x.starts = t.starts
      /\ x.users = t.users /\ x.queue = t.queue /\ x.phase = "STARTED" /\ x.next = t.next
      /\ x.releases = t.releases /\ x.reserved = t.reserved /\ x.offers = t.offers
      /\ x.folded = t.folded
  BY <1>2 DEF Table
<1>7. held \in Lock0 /\ t.reserved \in BOOLEAN
  <2>1. t.engine \in {"none", "finished"} /\ t.reserved \in BOOLEAN
    BY <1>2, <1>3 DEF FlushOpen, Table
  <2> QED BY <2>1 DEF Lock0
<1>8. /\ held.stage = (IF t.reserved THEN "start" ELSE "reserve")
      /\ held.reservedHere = FALSE /\ held.engine = t.engine
  OBVIOUS
<1> HIDE DEF x, held
<1>9. t.kind = "flush" \/ t.engine = "none"
  BY <1>3 DEF FlushOpen
<1>10. t.next = << >>
  BY <1>4, <1>9 DEF Phases
<1>11. Phases(x) /\ OneStart(x)
  BY <1>3, <1>4, <1>6, <1>10 DEF Phases, OneStart
<1>12. t.kind = "callbreak" => /\ t.phase = "OPEN" /\ t.departed = {} /\ Len(t.users) = Capacity
  <2>1. t.phase \in {"OPEN", "LOCKED", "STARTED", "COMPLETED", "ENDED"} /\ Capacity \in Nat
    BY <1>2, SeatingAssumption DEF Table, SeatingAssumption
  <2> QED BY <1>3, <1>4, <1>9, <2>1 DEF Proper, CallBreakSeats, Phases
<1>13. t.kind = "callbreak" => CallBreakSeats(x)
  BY <1>6, <1>12 DEF CallBreakSeats
<1>14. Proper(x)
  BY <1>4, <1>5, <1>6, <1>10, <1>11, <1>13 DEF Proper
<1>15. /\ lock' \in [Games -> Lock0] /\ lock'[g] = held
       /\ \A h \in Games : h # g => lock'[h] = lock[h]
  BY <1>1, <1>3, <1>7 DEF Rest
<1>16. x.id = tables[g].id /\ x.kind = tables[g].kind /\ x.round = tables[g].round
       /\ x.ended = tables[g].ended
  BY <1>2, <1>6 DEF Kept
<1>17. x.reserved = tables[g].reserved
  <2>1. tables[g].reserved \in BOOLEAN
    BY <1>1, HostedProper DEF Table
  <2> QED BY <1>2, <1>3, <1>6, <1>7, <2>1
<1>18. /\ Places' /\ Hosted' = Hosted /\ tables'[g] = x
       /\ \A h \in Games : h # g => tables'[h] = tables[h]
  BY <1>1, <1>3, <1>14, <1>16, PlacesKept
<1>19. Starting(g)'
  BY <1>8, <1>15 DEF Starting
<1>20. Held(g)'
  BY <1>19 DEF Held
<1>21. LockFits(g)'
  <2>1. tables'[g] # NoTable
    BY <1>14, <1>18, NoTableAssumption DEF Proper
  <2>2. t.kind # "flush" => t.engine = "none" /\ t.round = 0
    BY <1>4, <1>9 DEF Proper, OneStart
  <2>3. t.kind = "callbreak" => ~t.reserved
    BY <1>4, <1>12 DEF Unreserved
  <2>4. held.stage # "commit"
    BY <1>8
  <2> QED BY <1>3, <1>6, <1>8, <1>15, <1>18, <2>1, <2>2, <2>3, <2>4 DEF LockFits, Starting
<1>22. Unreserved(x)
  BY <1>3, <1>6 DEF Unreserved
<1>23. UNCHANGED db /\ gameRows' = gameRows
  BY <1>3 DEF db
<1>24. Moves(g) /\ RowsShrink
  BY <1>1, <1>16, <1>17, <1>18, <1>20, <1>22, <1>23, Quiet
<1>25. Rest'
  BY <1>1, <1>3, <1>15 DEF Rest
<1> QED BY <1>1, <1>15, <1>18, <1>21, <1>23, <1>24, <1>25, OneMoves

\* A failed start is taken back.
LEMMA RestoredFacts ==
    ASSUME Inv, NEW g \in Games, Starting(g)
    PROVE  LET t == tables[g]
               x == Restored(g)
           IN
           /\ g \in Hosted /\ Proper(x) /\ Unreserved(x) /\ x.phase # "STARTED"
           /\ x.id = t.id /\ x.kind = t.kind /\ x.round = t.round /\ x.ended = t.ended
           /\ x.starts = t.starts
           /\ x.reserved = (t.reserved /\ ~lock[g].reservedHere)
<1> DEFINE t == tables[g]
           p == IF RequiresLock(t) THEN "LOCKED" ELSE "OPEN"
           r == t.reserved /\ ~lock[g].reservedHere
           x == [t EXCEPT !.phase = p, !.engine = lock[g].engine, !.reserved = r]
<1>1. LockFits(g) /\ Rest /\ lock[g] \in Lock0
  BY DEF Inv, Rest
<1>2. /\ g \in Hosted
      /\ t.phase = "STARTED" /\ t.engine = "playing" /\ ~t.ended
      /\ t.kind # "flush" => lock[g].engine = "none" /\ t.round = 0
      /\ lock[g].stage = "reserve" => ~t.reserved
      /\ t.kind = "callbreak" /\ lock[g].stage = "start" => lock[g].reservedHere
  BY <1>1 DEF LockFits, Starting, Hosted
<1>3. Proper(t) /\ t \in Table /\ Phases(t)
  BY <1>2, HostedProper DEF Proper
<1>4. lock[g].engine \in {"none", "finished"} /\ lock[g].reservedHere \in BOOLEAN
  BY <1>1 DEF Lock0
<1>5. /\ p \in {"OPEN", "LOCKED", "STARTED", "COMPLETED", "ENDED"} /\ r \in BOOLEAN
      /\ p = "OPEN" <=> t.kind = "callbreak"
      /\ p \in {"LOCKED", "OPEN"}
  BY <1>3, <1>4 DEF Table, RequiresLock
<1>6. x = Restored(g)
  BY DEF Restored
<1>7. t.kind = "callbreak" => ~r
  BY <1>2 DEF Starting
<1>8. r = (t.reserved /\ ~lock[g].reservedHere)
  OBVIOUS
<1> HIDE DEF t, p, r
<1>9. x \in Table
  BY <1>3, <1>4, <1>5 DEF Table
<1>10. /\ x.kind = t.kind /\ x.engine = lock[g].engine /\ x.ended = t.ended
       /\ x.departed = t.departed
       /\ x.id = t.id /\ x.round = t.round /\ x.starts = t.starts
       /\ x.users = t.users /\ x.queue = t.queue /\ x.phase = p /\ x.next = t.next
       /\ x.releases = t.releases /\ x.reserved = r /\ x.offers = t.offers
       /\ x.folded = t.folded
  BY <1>3 DEF Table
<1> HIDE DEF x
<1>11. Phases(x)
  BY <1>2, <1>3, <1>5, <1>10 DEF Phases
<1>12. t.kind = "callbreak" => CallBreakSeats(x)
  BY <1>2, <1>3, <1>5, <1>10 DEF Proper, CallBreakSeats
<1>13. t.kind # "flush" => OneStart(x)
  BY <1>2, <1>10 DEF OneStart
<1>14. Proper(x)
  BY <1>3, <1>5, <1>9, <1>10, <1>11, <1>12, <1>13 DEF Proper
<1>15. Unreserved(x)
  BY <1>2, <1>5, <1>7, <1>10 DEF Unreserved
<1>16. x.phase # "STARTED"
  BY <1>5, <1>10
<1> QED BY <1>2, <1>6, <1>8, <1>10, <1>14, <1>15, <1>16 DEF t

LEMMA ReserveForStartKeeps ==
    ASSUME Inv, NEW g \in Games, ReserveForStart(g)
    PROVE  Inv'
<1> DEFINE t == tables[g]
<1>1. Places /\ Rest /\ Rows /\ LockFits(g) /\ lock[g].stage = "reserve"
  BY DEF Inv, ReserveForStart
<1>2. Starting(g)
  BY <1>1 DEF Starting
<1>3. /\ g \in Hosted /\ t.phase = "STARTED" /\ t.engine = "playing" /\ ~t.ended
      /\ t.starts < MaxStarts
      /\ t.kind # "flush" => lock[g].engine = "none" /\ t.round = 0
      /\ ~t.reserved /\ ~lock[g].reservedHere
  BY <1>1, <1>2 DEF LockFits, Hosted
<1>4. Proper(t) /\ t \in Table /\ Unreserved(t)
  BY <1>3, HostedProper DEF Inv
<1>5. /\ UNCHANGED <<members, leaving, ticking, gameRows, stored>>
      /\ tableRows' \in {tableRows, RowsReserved(t)}
      /\ failures' \in {failures, failures + 1} /\ (failures' # failures => failures < MaxFailures)
  BY DEF ReserveForStart, Fails
<1>6. Rows' /\ \A v \in Users : tableRows'[v] \in {tableRows[v], t.id}
  BY <1>1, <1>4, <1>5, ReservedRows DEF Rows
<1>7. failures' \in 0..MaxFailures
  <2>1. MaxFailures \in Nat /\ failures \in 0..MaxFailures
    BY <1>1, SeatingAssumption DEF SeatingAssumption, Rest
  <2> QED BY <1>5, <2>1
<1>8. ASSUME lock' \in [Games -> Lock0] PROVE Rest'
  BY <1>1, <1>5, <1>7, <1>8 DEF Rest
<1> HIDE DEF t
<1>9. CASE /\ tables' = [tables EXCEPT ![g] = Restored(g)]
           /\ lock' = [lock EXCEPT ![g] = Idle]
           /\ RepliesLost \/ tableRows' = tableRows
  <2> DEFINE x == Restored(g)
  <2>1. /\ Proper(x) /\ Unreserved(x) /\ x.phase # "STARTED"
        /\ x.id = t.id /\ x.kind = t.kind /\ x.round = t.round /\ x.ended = t.ended
        /\ x.reserved = (t.reserved /\ ~lock[g].reservedHere)
    BY <1>2, RestoredFacts DEF t
  <2>2. tables' = [tables EXCEPT ![g] = x]
    BY <1>9
  <2> HIDE DEF x
  <2>3. /\ lock' \in [Games -> Lock0] /\ lock'[g] = Idle
        /\ \A h \in Games : h # g => lock'[h] = lock[h]
    BY <1>1, <1>9, LetGo
  <2>4. /\ Places' /\ Hosted' = Hosted /\ tables'[g] = x
        /\ \A h \in Games : h # g => tables'[h] = tables[h]
    BY <1>1, <1>3, <2>1, <2>2, PlacesKept DEF t
  <2>5. Held(g)' /\ LockFits(g)'
    BY <2>1, <2>3, <2>4 DEF Held, LockFits, Starting, Idle
  <2>6. GameRowsKnown' /\ TableRowsKnown'
    <3>1. GameRowsKnown /\ TableRowsKnown
      BY DEF Inv
    <3>2. \A h \in Hosted : h \in Games
      BY DEF Hosted
    <3>3. GameRowsKnown'
      BY <1>5, <2>1, <2>4, <3>1, <3>2, GameRowsStay DEF t
    <3>4. RepliesLost => ~Sure(x)
      BY <1>3, <2>1 DEF Sure
    <3>5. \A v \in Users : \/ tableRows'[v] \in {tableRows[v], 0}
                           \/ tableRows'[v] = t.id /\ (x.reserved \/ ~Sure(x))
      BY <1>6, <1>9, <3>4
    <3>6. Sure(x) <=> Sure(t)
      BY <2>1, SureSame
    <3>7. TableRowsKnown'
      BY <1>3, <2>1, <2>4, <3>1, <3>2, <3>5, <3>6, TableRowsStay DEF t
    <3> QED BY <3>3, <3>7
  <2>7. gameRows' = gameRows /\ Rest'
    BY <1>5, <1>8, <2>3
  <2> QED BY <1>3, <1>6, <2>1, <2>2, <2>3, <2>5, <2>6, <2>7, OneKeeps DEF t
<1>10. CASE /\ tableRows' = RowsReserved(t)
            /\ tables' = [tables EXCEPT ![g].reserved = TRUE]
            /\ lock' = [lock EXCEPT ![g] = [@ EXCEPT !.stage = "start", !.reservedHere = TRUE]]
  <2> DEFINE x == [t EXCEPT !.reserved = TRUE]
             l == lock[g]
             held == [l EXCEPT !.stage = "start", !.reservedHere = TRUE]
  <2>1. tables' = [tables EXCEPT ![g] = x]
    BY <1>1, <1>10 DEF Places, t
  <2>2. lock' = [lock EXCEPT ![g] = held] /\ l \in Lock0
    BY <1>1, <1>10 DEF Rest
  <2> HIDE DEF l
  <2>3. held \in Lock0 /\ held.stage = "start" /\ held.reservedHere /\ held.engine = l.engine
    BY <2>2 DEF Lock0
  <2>4. x \in Table
    BY <1>4 DEF Table
  <2>5. /\ x.kind = t.kind /\ x.engine = t.engine /\ x.ended = t.ended /\ x.departed = t.departed
        /\ x.id = t.id /\ x.round = t.round /\ x.starts = t.starts
        /\ x.users = t.users /\ x.queue = t.queue /\ x.phase = t.phase /\ x.next = t.next
        /\ x.releases = t.releases /\ x.reserved /\ x.offers = t.offers
        /\ x.folded = t.folded
    BY <1>4 DEF Table
  <2> HIDE DEF x, held
  <2>6. Proper(x)
    <3>1. Phases(x) /\ (t.kind # "flush" => OneStart(x))
      BY <1>4, <2>5 DEF Proper, Phases, OneStart
    <3>2. t.kind = "callbreak" => CallBreakSeats(x)
      BY <1>3, <1>4, <2>5 DEF Proper, CallBreakSeats
    <3> QED BY <1>3, <1>4, <2>4, <2>5, <3>1, <3>2 DEF Proper
  <2>7. /\ lock' \in [Games -> Lock0] /\ lock'[g] = held
        /\ \A h \in Games : h # g => lock'[h] = lock[h]
    BY <1>1, <2>2, <2>3 DEF Rest
  <2>8. /\ Places' /\ Hosted' = Hosted /\ tables'[g] = x
        /\ \A h \in Games : h # g => tables'[h] = tables[h]
    BY <1>1, <1>3, <2>1, <2>5, <2>6, PlacesKept DEF t
  <2>9. Held(g)' /\ LockFits(g)' /\ Unreserved(x)
    <3>1. tables'[g] # NoTable
      BY <2>6, <2>8, NoTableAssumption DEF Proper
    <3>2. Starting(g)'
      BY <2>3, <2>7 DEF Starting
    <3> QED BY <1>3, <2>3, <2>5, <2>7, <2>8, <3>1, <3>2 DEF Held, LockFits, Unreserved, l
  <2>10. GameRowsKnown' /\ TableRowsKnown'
    <3>1. GameRowsKnown /\ TableRowsKnown
      BY DEF Inv
    <3>2. \A h \in Hosted : h \in Games
      BY DEF Hosted
    <3>3. GameRowsKnown'
      BY <1>5, <2>5, <2>8, <3>1, <3>2, GameRowsStay DEF t
    <3>4. TableRowsKnown'
      BY <1>3, <1>6, <2>5, <2>8, <3>1, <3>2, TableRowsStay DEF t
    <3> QED BY <3>3, <3>4
  <2>11. gameRows' = gameRows /\ Rest'
    BY <1>5, <1>8, <2>7
  <2> QED BY <1>3, <1>6, <2>1, <2>5, <2>6, <2>7, <2>9, <2>10, <2>11, OneKeeps DEF t
<1> QED BY <1>9, <1>10 DEF ReserveForStart, t

\* A started match takes its players' rows, and nobody's who plays another one.
ReleasedRows(g) ==
    [u \in Users |-> IF gameRows[u] = <<g, tables[g].round>> THEN << >> ELSE gameRows[u]]
StartRows(g, m) ==
    [u \in Users |-> IF u \in ToSet(tables[g].users) THEN m ELSE ReleasedRows(g)[u]]

LEMMA StartRowsFacts ==
    ASSUME Rows, NEW g \in Hosted, NEW m \in Match, CanStart(g, m), tables[g] \in Table,
           gameRows' = StartRows(g, m)
    PROVE  /\ gameRows' \in [Users -> Match \cup {<<>>}]
           /\ \A u \in ToSet(tables[g].users) : gameRows'[u] = m
           /\ \A u \in Users : \/ gameRows'[u] \in {m, << >>}
                               \/ gameRows'[u] = gameRows[u] /\ gameRows[u] # <<g, tables[g].round>>
           /\ \A h \in Hosted, u \in Users :
                h # g /\ gameRows[u] = <<h, tables[h].round>> => gameRows'[u] = gameRows[u]
<1> DEFINE roster == ToSet(tables[g].users)
           now == <<g, tables[g].round>>
<1>1. roster \subseteq Users
  BY Members DEF Table
<1>2. \A u \in roster : gameRows[u] \in {<< >>, now}
  BY DEF CanStart
<1>3. /\ DOMAIN gameRows' = Users
      /\ \A u \in Users : /\ u \in roster => gameRows'[u] = m
                          /\ u \notin roster /\ gameRows[u] = now => gameRows'[u] = << >>
                          /\ u \notin roster /\ gameRows[u] # now => gameRows'[u] = gameRows[u]
  BY DEF StartRows, ReleasedRows
<1>4. \A h \in Hosted : h # g => <<h, tables[h].round>> # now /\ <<h, tables[h].round>> # << >>
  OBVIOUS
<1> HIDE DEF roster, now
<1>5. \A u \in Users : gameRows'[u] \in Match \cup {<< >>}
  BY <1>3 DEF Rows
<1>6. gameRows' \in [Users -> Match \cup {<<>>}]
  BY <1>3, <1>5 DEF StartRows
<1>7. \A h \in Hosted, u \in Users :
        h # g /\ gameRows[u] = <<h, tables[h].round>> => gameRows'[u] = gameRows[u]
  BY <1>2, <1>3, <1>4
<1> QED BY <1>1, <1>3, <1>6, <1>7 DEF roster, now

\* A start that failed leaves the last round's rows, releases them or takes them back.
LEMMA FailedRowsFacts ==
    ASSUME Rows, NEW g \in Hosted, tables[g] \in Table,
           gameRows' \in {gameRows, ReleasedRows(g), Retaken(g, ReleasedRows(g))}
    PROVE  /\ gameRows' \in [Users -> Match \cup {<<>>}]
           /\ \A u \in Users : \/ gameRows'[u] \in {gameRows[u], << >>}
                               \/ gameRows'[u] = <<g, tables[g].round>> /\ tables[g].round # 0
           /\ \A h \in Hosted, u \in Users :
                h # g /\ gameRows[u] = <<h, tables[h].round>> => gameRows'[u] = gameRows[u]
<1> DEFINE t == tables[g]
           roster == ToSet(t.users)
           now == <<g, t.round>>
           free == ReleasedRows(g)
<1>1. g \in Games /\ t.round \in 0..MaxStarts /\ MaxStarts \in Nat
  BY SeatingAssumption DEF Hosted, Table, SeatingAssumption
<1>2. t.round # 0 => now \in Match
  <2>1. t.round # 0 => t.round \in 1..MaxStarts
    BY <1>1
  <2> QED BY <1>1, <2>1 DEF Match
<1>3. free \in [Users -> Match \cup {<< >>}] /\ \A u \in Users : free[u] \in {gameRows[u], << >>}
  BY DEF ReleasedRows, Rows
<1>4. \A h \in Hosted, u \in Users :
        h # g /\ gameRows[u] = <<h, tables[h].round>> => free[u] = gameRows[u] /\ free[u] # << >>
  <2>1. \A h \in Hosted : <<h, tables[h].round>> # << >> /\ (h # g => <<h, tables[h].round>> # now)
    OBVIOUS
  <2> QED BY <2>1 DEF ReleasedRows
<1>5. CASE gameRows' = gameRows
  BY <1>5 DEF Rows
<1>6. CASE gameRows' = free
  BY <1>3, <1>4, <1>6
<1>7. CASE gameRows' = Retaken(g, free) /\ gameRows' # free
  <2>1. /\ t.round # 0 /\ \A u \in roster : free[u] = << >>
        /\ gameRows' = [u \in Users |-> IF u \in roster THEN now ELSE free[u]]
    BY <1>7 DEF Retaken
  <2> HIDE DEF free, now, roster
  <2>2. \A u \in Users : /\ u \in roster => gameRows'[u] = now
                         /\ u \notin roster => gameRows'[u] = free[u]
    BY <2>1
  <2>3. gameRows' \in [Users -> Match \cup {<< >>}]
    BY <1>2, <1>3, <2>1
  <2>4. \A h \in Hosted, u \in Users :
          h # g /\ gameRows[u] = <<h, tables[h].round>> => gameRows'[u] = gameRows[u]
    BY <1>4, <2>1, <2>2
  <2>5. \A u \in Users : \/ gameRows'[u] \in {gameRows[u], << >>}
                         \/ gameRows'[u] = now /\ t.round # 0
    BY <1>3, <2>1, <2>2
  <2> QED BY <2>3, <2>4, <2>5 DEF now
<1> QED BY <1>5, <1>6, <1>7

LEMMA StartOwnedKeeps ==
    ASSUME Inv, NEW g \in Games, StartOwned(g)
    PROVE  Inv'
<1> DEFINE t == tables[g]
           n == t.starts + 1
           r == IF t.kind = "flush" THEN n ELSE 1
           m == <<g, r>>
           free == [u \in Users |-> IF tableRows[u] = t.id THEN 0 ELSE tableRows[u]]
<1>1. Places /\ Rest /\ Rows /\ LockFits(g) /\ lock[g].stage = "start"
  BY DEF Inv, StartOwned
<1>2. Starting(g)
  BY <1>1 DEF Starting
<1>3. /\ g \in Hosted /\ t.phase = "STARTED" /\ t.engine = "playing" /\ ~t.ended
      /\ t.starts < MaxStarts /\ t.reserved
      /\ t.kind # "flush" => t.round = 0
  BY <1>1, <1>2 DEF LockFits, Hosted
<1>4. Proper(t) /\ t \in Table /\ Unreserved(t) /\ GameRowsKnown /\ TableRowsKnown
  BY <1>3, HostedProper DEF Inv
<1>5. /\ lock' \in [Games -> Lock0] /\ lock'[g] = Idle
      /\ \A h \in Games : h # g => lock'[h] = lock[h]
  BY <1>1, LetGo DEF StartOwned
<1>6. UNCHANGED <<members, leaving, ticking>>
  BY DEF StartOwned
<1>7. n \in 0..MaxStarts /\ r \in 1..MaxStarts /\ r \in 0..MaxStarts /\ m \in Match
  <2>1. t.starts \in 0..MaxStarts /\ MaxStarts \in Nat
    BY <1>4, SeatingAssumption DEF Table, SeatingAssumption
  <2>2. n \in 0..MaxStarts /\ n \in 1..MaxStarts /\ 1 \in 1..MaxStarts
    BY <1>3, <2>1
  <2>3. r \in 1..MaxStarts /\ r \in 0..MaxStarts
    BY <2>2
  <2> HIDE DEF r
  <2> QED BY <2>2, <2>3 DEF Match
<1>8. \A k : <<g, k>>[2] = k
  OBVIOUS
<1>9. ASSUME failures' \in {failures, failures + 1}, failures' # failures => failures < MaxFailures
      PROVE  Rest'
  <2>1. MaxFailures \in Nat /\ failures \in 0..MaxFailures
    BY <1>1, SeatingAssumption DEF SeatingAssumption, Rest
  <2>2. failures' \in 0..MaxFailures
    BY <1>9, <2>1
  <2> QED BY <1>1, <1>5, <1>6, <2>2 DEF Rest
<1>10. CASE /\ CanStart(g, m)
            /\ gameRows' = StartRows(g, m) /\ stored' = stored \cup {m}
            /\ tables' = [tables EXCEPT ![g] = Advanced([t EXCEPT !.round = m[2], !.starts = n])]
            /\ UNCHANGED <<tableRows, failures>>
  <2> DEFINE y == [t EXCEPT !.round = r, !.starts = n]
             x == Advanced(y)
  <2>1. tables' = [tables EXCEPT ![g] = x]
    BY <1>8, <1>10
  <2> HIDE DEF t, n, r
  <2>2. y \in Table
    BY <1>4, <1>7 DEF Table
  <2>3. /\ y.kind = t.kind /\ y.engine = t.engine /\ y.ended = t.ended /\ y.departed = t.departed
        /\ y.id = t.id /\ y.round = r
        /\ y.users = t.users /\ y.queue = t.queue /\ y.phase = t.phase /\ y.next = t.next
        /\ y.releases = t.releases /\ y.reserved = t.reserved /\ y.offers = t.offers
        /\ y.folded = t.folded
    BY <1>4 DEF Table
  <2> HIDE DEF y
  <2>4. Proper(y)
    <3>1. Phases(y) /\ OneStart(y)
      BY <1>3, <1>4, <2>3 DEF Proper, Phases, OneStart
    <3>2. t.kind = "callbreak" => CallBreakSeats(y)
      BY <1>3, <1>4, <2>3 DEF Proper, CallBreakSeats
    <3> QED BY <1>3, <1>4, <2>2, <2>3, <3>1, <3>2 DEF Proper
  <2>5. ~Releases(y)
    BY <1>3, <2>2, <2>3, ReleasesFacts DEF FoldersGo, Finished, FlushOpen
  <2>6. AdvanceMakes(y, x) /\ (x.reserved <=> y.reserved /\ ~Releases(y))
    BY <2>4, AdvancedFacts
  <2> HIDE DEF x
  <2>7. /\ Proper(x) /\ x.id = t.id /\ x.kind = t.kind /\ x.round = r /\ ~x.ended
        /\ x.users = t.users /\ x.phase = "STARTED"
    BY <1>3, <2>3, <2>6 DEF AdvanceMakes, Kept
  <2>8. x.reserved = t.reserved
    BY <1>4, <2>3, <2>5, <2>6, <2>7 DEF Table, Proper
  <2>9. /\ Places' /\ Hosted' = Hosted /\ tables'[g] = x
        /\ \A h \in Games : h # g => tables'[h] = tables[h]
    BY <1>1, <1>3, <2>1, <2>7, PlacesKept DEF t
  <2>10. /\ gameRows' \in [Users -> Match \cup {<<>>}]
         /\ \A u \in ToSet(t.users) : gameRows'[u] = m
         /\ \A u \in Users : \/ gameRows'[u] \in {m, << >>}
                             \/ gameRows'[u] = gameRows[u] /\ gameRows[u] # <<g, t.round>>
         /\ \A h \in Hosted, u \in Users :
              h # g /\ gameRows[u] = <<h, tables[h].round>> => gameRows'[u] = gameRows[u]
    <3> HIDE DEF m
    <3> QED BY <1>1, <1>3, <1>4, <1>7, <1>10, StartRowsFacts DEF t
  <2>11. Rows'
    BY <1>1, <1>7, <1>10, <2>10 DEF Rows
  <2>12. Held(g)' /\ LockFits(g)' /\ Unreserved(x)
    BY <1>5, <2>7, <2>9, <2>10 DEF Held, LockFits, Unreserved, Starting, Idle
  <2>13. GameRowsKnown' /\ TableRowsKnown'
    <3>1. (t.kind # "flush" => r = 1) /\ m[1] = g /\ m[2] = r
      BY DEF r
    <3>2. \A h \in Hosted : h \in Games
      BY DEF Hosted
    <3>3. ASSUME NEW u \in Users, gameRows'[u] # << >>
          PROVE  LET h == gameRows'[u][1] IN
                 /\ h \in Hosted
                 /\ tables'[h].kind # "flush" => gameRows'[u][2] = 1
                 /\ Sure(tables'[h]) => /\ gameRows'[u][2] = tables'[h].round
                                        /\ tables'[h].ended => tables'[h].kind = "flush"
      <4>1. CASE gameRows'[u] = m
        BY <1>3, <2>7, <2>9, <3>1, <4>1
      <4>2. CASE gameRows'[u] = gameRows[u] /\ gameRows[u] # <<g, t.round>>
        <5> DEFINE h == gameRows[u][1]
                   k == gameRows[u][2]
        <5>1. gameRows[u] # << >>
          BY <3>3, <4>2
        <5>2. /\ h \in Hosted /\ (tables[h].kind # "flush" => k = 1)
              /\ Sure(tables[h]) => k = tables[h].round /\ (tables[h].ended => tables[h].kind = "flush")
          BY <1>4, <5>1 DEF GameRowsKnown
        <5>3. gameRows[u] = <<h, k>>
          BY <1>1, <5>1 DEF Rows, Match
        <5> HIDE DEF h, k, m
        <5>4. CASE h # g
          <6>1. tables'[h] = tables[h]
            BY <2>9, <3>2, <5>2, <5>4
          <6> QED BY <4>2, <5>2, <6>1 DEF h, k
        <5>5. CASE h = g
          <6>1. t.kind # "flush" => k = 1
            BY <5>2, <5>5 DEF t
          <6>2. ~Sure(t)
            BY <4>2, <5>2, <5>3, <5>5 DEF t
          <6>3. Sure(x) => x.kind # "flush"
            BY <2>7, <6>2 DEF Sure
          <6> QED BY <2>7, <2>9, <3>1, <4>2, <5>2, <5>5, <6>1, <6>3 DEF h, k
        <5> QED BY <5>4, <5>5
      <4> QED BY <2>10, <3>3, <4>1, <4>2
    <3>4. GameRowsKnown'
      BY <2>9, <3>3 DEF GameRowsKnown
    <3>5. TableRowsKnown'
      BY <1>3, <1>4, <1>10, <2>7, <2>8, <2>9, <3>2, TableRowsStay DEF t
    <3> QED BY <3>4, <3>5
  <2>14. Rest'
    BY <1>9, <1>10
  <2> QED BY <1>3, <1>5, <2>1, <2>7, <2>10, <2>11, <2>12, <2>13, <2>14, OneKeeps DEF t
<1>11. CASE /\ \/ /\ gameRows' \in {gameRows, ReleasedRows(g), Retaken(g, ReleasedRows(g))}
                  /\ stored' = stored
               \/ /\ RepliesLost /\ CanStart(g, m)
                  /\ gameRows' = StartRows(g, m) /\ stored' = stored \cup {m}
            /\ failures' \in {failures, failures + 1}
            /\ failures' # failures => failures < MaxFailures
            /\ tables' = [tables EXCEPT ![g] =
                 [Restored(g) EXCEPT !.starts = IF t.kind = "flush" THEN n ELSE @]]
            /\ tableRows' = IF lock[g].reservedHere THEN free ELSE tableRows
  <2> DEFINE y == Restored(g)
             k == IF t.kind = "flush" THEN n ELSE y.starts
             x == [y EXCEPT !.starts = k]
  <2>1. tables' = [tables EXCEPT ![g] = x]
    BY <1>11
  <2>2. /\ Proper(y) /\ Unreserved(y) /\ y.phase # "STARTED"
        /\ y.id = t.id /\ y.kind = t.kind /\ y.round = t.round /\ y.ended = t.ended
        /\ y.starts = t.starts
        /\ y.reserved = (t.reserved /\ ~lock[g].reservedHere)
    BY <1>2, RestoredFacts
  <2>3. k \in 0..MaxStarts
    BY <1>4, <1>7, <2>2 DEF Table
  <2>4. y \in Table
    BY <2>2 DEF Proper
  <2> HIDE DEF t, n, r, y, k
  <2>5. x \in Table
    BY <2>3, <2>4 DEF Table
  <2>6. /\ x.kind = y.kind /\ x.engine = y.engine /\ x.ended = y.ended /\ x.departed = y.departed
        /\ x.id = y.id /\ x.round = y.round
        /\ x.users = y.users /\ x.queue = y.queue /\ x.phase = y.phase /\ x.next = y.next
        /\ x.releases = y.releases /\ x.reserved = y.reserved /\ x.offers = y.offers
        /\ x.folded = y.folded
    BY <2>4 DEF Table
  <2> HIDE DEF x
  <2>7. Proper(x)
    <3>1. Phases(x) /\ (y.kind # "flush" => OneStart(x))
      BY <2>2, <2>6 DEF Proper, Phases, OneStart
    <3>2. y.kind = "callbreak" /\ ~y.ended => CallBreakSeats(x)
      BY <2>2, <2>6 DEF Proper, CallBreakSeats
    <3>3. Seated(x) = Seated(y)
      BY <2>6, SeatedSame
    <3>4. y.phase = "COMPLETED" => OffersFit(x) /\ ReleasesFit(x)
      BY <2>2, <2>6, <3>3 DEF Proper, OffersFit, ReleasesFit
    <3> QED BY <2>2, <2>5, <2>6, <3>1, <3>2, <3>4 DEF Proper
  <2>8. x.id = t.id /\ x.kind = t.kind /\ x.round = t.round /\ x.ended = t.ended
    BY <2>2, <2>6
  <2>9. /\ Places' /\ Hosted' = Hosted /\ tables'[g] = x
        /\ \A h \in Games : h # g => tables'[h] = tables[h]
    BY <1>1, <1>3, <2>1, <2>7, <2>8, PlacesKept DEF t
  <2>10. Held(g)' /\ LockFits(g)' /\ Unreserved(x)
    BY <1>5, <2>2, <2>6, <2>9 DEF Held, LockFits, Unreserved, Starting, Idle
  <2>11. /\ gameRows' \in [Users -> Match \cup {<<>>}] /\ stored' \subseteq Match
         /\ \A u \in Users : \/ gameRows'[u] \in {gameRows[u], << >>}
                             \/ gameRows'[u] = <<g, t.round>> /\ t.round # 0
                             \/ gameRows'[u] = m /\ RepliesLost
         /\ \A h \in Hosted, u \in Users :
              h # g /\ gameRows[u] = <<h, tables[h].round>> => gameRows'[u] = gameRows[u]
    <3> HIDE DEF m
    <3>1. CASE /\ gameRows' \in {gameRows, ReleasedRows(g), Retaken(g, ReleasedRows(g))}
               /\ stored' = stored
      <4>1. stored' \subseteq Match
        BY <1>1, <3>1 DEF Rows
      <4> QED BY <1>1, <1>3, <1>4, <3>1, <4>1, FailedRowsFacts DEF t
    <3>2. CASE /\ RepliesLost /\ CanStart(g, m)
               /\ gameRows' = StartRows(g, m) /\ stored' = stored \cup {m}
      <4>1. stored' \subseteq Match
        BY <1>1, <1>7, <3>2 DEF Rows
      <4>2. /\ gameRows' \in [Users -> Match \cup {<<>>}]
            /\ \A u \in Users : \/ gameRows'[u] \in {m, << >>}
                                \/ gameRows'[u] = gameRows[u] /\ gameRows[u] # <<g, t.round>>
            /\ \A h \in Hosted, u \in Users :
                 h # g /\ gameRows[u] = <<h, tables[h].round>> => gameRows'[u] = gameRows[u]
        BY <1>1, <1>3, <1>4, <1>7, <3>2, StartRowsFacts DEF t
      <4> QED BY <3>2, <4>1, <4>2
    <3> QED BY <1>11, <3>1, <3>2
  <2>12. /\ tableRows' \in [Users -> Games \cup {0}]
         /\ \A u \in Users : tableRows'[u] \in {tableRows[u], 0}
         /\ lock[g].reservedHere => \A u \in Users : tableRows'[u] # t.id
    <3>1. t.id # 0
      BY <1>4 DEF Table, Games
    <3> QED BY <1>1, <1>11, <3>1 DEF Rows
  <2>13. GameRowsKnown' /\ TableRowsKnown'
    <3>1. (t.kind # "flush" => r = 1) /\ m[1] = g /\ m[2] = r
      BY DEF r
    <3>2. \A h \in Hosted : h \in Games
      BY DEF Hosted
    <3>3. Sure(x) <=> Sure(t)
      BY <2>8, SureSame
    <3>4. ASSUME NEW u \in Users, gameRows'[u] # << >>
          PROVE  LET h == gameRows'[u][1] IN
                 /\ h \in Hosted
                 /\ tables'[h].kind # "flush" => gameRows'[u][2] = 1
                 /\ Sure(tables'[h]) => /\ gameRows'[u][2] = tables'[h].round
                                        /\ tables'[h].ended => tables'[h].kind = "flush"
      <4>1. CASE gameRows'[u] = m /\ RepliesLost
        <5>1. ~Sure(x)
          BY <1>3, <2>8, <4>1 DEF Sure, t
        <5> QED BY <1>3, <2>8, <2>9, <3>1, <4>1, <5>1
      <4>2. CASE gameRows'[u] = <<g, t.round>> /\ t.round # 0
        <5>1. gameRows'[u][1] = g /\ gameRows'[u][2] = t.round
          BY <4>2
        <5> QED BY <1>3, <2>8, <2>9, <4>2, <5>1 DEF t
      <4>3. CASE gameRows'[u] = gameRows[u]
        <5> DEFINE h == gameRows[u][1]
                   played == gameRows[u][2]
        <5>1. /\ h \in Hosted /\ (tables[h].kind # "flush" => played = 1)
              /\ Sure(tables[h]) => played = tables[h].round /\ (tables[h].ended => tables[h].kind = "flush")
          BY <1>4, <3>4, <4>3 DEF GameRowsKnown
        <5> HIDE DEF h, played
        <5>2. /\ tables'[h].kind = tables[h].kind /\ tables'[h].round = tables[h].round
              /\ tables'[h].ended = tables[h].ended
          BY <2>8, <2>9, <3>2, <5>1 DEF t
        <5>3. Sure(tables'[h]) <=> Sure(tables[h])
          BY <5>2, SureSame
        <5> QED BY <4>3, <5>1, <5>2, <5>3 DEF h, played
      <4> QED BY <2>11, <3>4, <4>1, <4>2, <4>3
    <3>5. GameRowsKnown'
      BY <2>9, <3>4 DEF GameRowsKnown
    <3>6. t.reserved /\ ~x.reserved => lock[g].reservedHere
      BY <2>2, <2>6
    <3>7. TableRowsKnown'
      BY <1>3, <1>4, <2>8, <2>9, <2>12, <3>2, <3>3, <3>6, TableRowsStay DEF t
    <3> QED BY <3>5, <3>7
  <2>14. Rest'
    BY <1>9, <1>11
  <2>15. Rows'
    BY <2>11, <2>12 DEF Rows
  <2> QED BY <1>3, <1>5, <2>1, <2>7, <2>8, <2>10, <2>11, <2>13, <2>14, <2>15, OneKeeps DEF t
<1> QED BY <1>10, <1>11 DEF StartOwned, Fails, StartRows, ReleasedRows

-------------------------------------------------------------------------------
(* New matches *)

\* Match g appears, and the matches of G are over.
LEMMA Appears ==
    ASSUME Inv, NEW g \in Games, g = NextGame, NEW G \in SUBSET Hosted, Free(G),
           UNCHANGED <<members, lock, leaving, ticking, failures>>,
           tables' = [h \in Games |-> tables'[h]],
           LET n == tables'[g] IN
           /\ Proper(n) /\ Unreserved(n) /\ n.phase # "STARTED"
           /\ n.id = g \/ (n.id \in Hosted /\ tables[n.id].kind = n.kind),
           \A h \in G : LET x == tables'[h] IN
             /\ Proper(x) /\ x.ended /\ ~x.reserved
             /\ x.id = tables[h].id /\ x.kind = tables[h].kind /\ x.round = tables[h].round
             /\ ~Starting(h) /\ x.engine = tables[h].engine,
           \A h \in Hosted \ G : tables'[h] = tables[h],
           \A h \in Games : h # g /\ h \notin Hosted => tables'[h] = NoTable
    PROVE  Inv'
<1>1. Places /\ Rest /\ Rows
  BY DEF Inv
<1>2. /\ Hosted \subseteq Games /\ g \notin Hosted
      /\ g = 1 \/ g - 1 \in Hosted
  BY <1>1, Numbered
<1>3. RowsShrink /\ \A h \in Hosted \ G, u \in Users :
         gameRows[u] = <<h, tables[h].round>> => gameRows'[u] = gameRows[u]
  BY <1>1, FreeFacts
<1>4. \A h \in G, u \in Users : /\ gameRows'[u] # <<h, tables[h].round>>
                                /\ tables[h].reserved => tableRows'[u] # tables[h].id
  BY <1>1, FreeFacts
<1>5. \A h \in Hosted : Proper(tables'[h]) /\ tables'[h].id = tables[h].id /\ tables'[h].kind = tables[h].kind
  BY <1>1 DEF Places
<1>6. Proper(tables'[g])
  OBVIOUS
<1>7. \A h \in Hosted \cup {g} : tables'[h] \in Table /\ tables'[h] # NoTable
  BY <1>5, <1>6, NoTableAssumption DEF Proper
<1>8. Hosted' = Hosted \cup {g}
  BY <1>2, <1>7 DEF Hosted
<1>9. tables' \in [Games -> Table \cup {NoTable}]
  <2>1. \A h \in Games : tables'[h] \in Table \cup {NoTable}
    BY <1>7
  <2> QED BY <2>1
<1>10. Places'
  <2>1. \A h \in Hosted' : h = 1 \/ h - 1 \in Hosted'
    BY <1>1, <1>2, <1>8 DEF Places
  <2>2. \A h \in Hosted' : /\ tables'[h].id \in Hosted'
                           /\ tables'[tables'[h].id].kind = tables'[h].kind
    <3>1. \A h \in Hosted : tables[h].id \in Hosted /\ tables[tables[h].id].kind = tables[h].kind
      BY <1>1 DEF Places
    <3>2. \A h \in Hosted : /\ tables'[h].id \in Hosted
                            /\ tables'[tables'[h].id].kind = tables'[h].kind
      BY <1>5, <3>1
    <3>3. tables'[g].id \in Hosted' /\ tables'[tables'[g].id].kind = tables'[g].kind
      BY <1>5, <1>8
    <3> QED BY <1>8, <3>2, <3>3
  <2> QED BY <1>5, <1>6, <1>8, <1>9, <2>1, <2>2 DEF Places
<1>11. ASSUME NEW h \in Hosted PROVE Moves(h)
  <2>1. CASE h \in G
    <3>1. tables'[h].phase # "STARTED" \/ tables'[h].ended
      BY <2>1
    <3> QED BY <1>4, <2>1, <3>1 DEF Moves, Held, Unreserved
  <2>2. CASE h \notin G
    <3>1. tables'[h] = tables[h] /\ lock'[h] = lock[h]
      BY <2>2
    <3> QED BY <1>3, <2>2, <3>1, Stays
  <2> QED BY <2>1, <2>2
<1>12. ASSUME NEW h \in Hosted' \ Hosted PROVE Held(h)' /\ Unreserved(tables'[h])
  BY <1>8 DEF Held
<1>13. ASSUME NEW h \in Games PROVE LockFits(h)'
  <2>1. LockFits(h) /\ lock' = lock
    BY DEF Inv
  <2>2. CASE h \in G
    BY <1>7, <2>1, <2>2 DEF LockFits, Starting
  <2>3. CASE h \in Hosted \ G
    BY <2>1, <2>3 DEF LockFits, Starting
  <2>4. CASE h \notin Hosted
    BY <2>1, <2>4 DEF LockFits, Starting, Hosted
  <2> QED BY <2>2, <2>3, <2>4
<1>14. Rest'
  BY <1>1 DEF Rest
<1>15. Hosted \subseteq Hosted'
  BY <1>8
<1> QED BY <1>3, <1>10, <1>11, <1>12, <1>13, <1>14, <1>15, MovesKeep

\* A match is over whose last state was t.
Over(t, p) == [t EXCEPT !.ended = TRUE, !.phase = p, !.reserved = FALSE]

LEMMA OverFacts ==
    ASSUME NEW t, Proper(t), NEW p \in {t.phase, "ENDED"}
    PROVE  LET x == Over(t, p) IN
           /\ Proper(x) /\ x.ended /\ ~x.reserved
           /\ x.id = t.id /\ x.kind = t.kind /\ x.round = t.round /\ x.engine = t.engine
<1> DEFINE x == Over(t, p)
<1>1. t \in Table
  BY DEF Proper
<1>2. x \in Table
  BY <1>1 DEF Table, Over
<1>3. /\ x.kind = t.kind /\ x.engine = t.engine /\ x.ended /\ x.departed = t.departed
      /\ x.id = t.id /\ x.round = t.round
      /\ x.users = t.users /\ x.queue = t.queue /\ x.phase = p /\ x.next = t.next
      /\ x.releases = t.releases /\ ~x.reserved /\ x.offers = t.offers
      /\ x.folded = t.folded
  BY <1>1 DEF Table, Over
<1> HIDE DEF x
<1>4. Phases(x)
  BY <1>3 DEF Proper, Phases
<1>5. t.kind # "flush" => OneStart(x)
  BY <1>3 DEF Proper, OneStart
<1>6. Seated(x) = Seated(t)
  BY <1>3, SeatedSame
<1>7. x.phase = "COMPLETED" => OffersFit(x) /\ ReleasesFit(x)
  BY <1>3, <1>6 DEF Proper, OffersFit, ReleasesFit
<1>8. Proper(x)
  BY <1>2, <1>3, <1>4, <1>5, <1>7 DEF Proper
<1> QED BY <1>3, <1>8 DEF x

LEMMA NewTableFacts ==
    ASSUME NEW u \in Users, NEW g \in Games, NEW kind \in Kinds
    PROVE  LET n == NewTable(u, g, kind) IN
           Proper(n) /\ Unreserved(n) /\ n.phase = "OPEN" /\ n.id = g /\ n.kind = kind /\ n.previous = 0
<1> DEFINE n == NewTable(u, g, kind)
<1>1. /\ <<u>> \in Seq(Users) /\ Len(<<u>>) = 1 /\ Len(<< >>) = 0
      /\ << >> \in Seq(Users) /\ << >> \in Seq(Seat)
      /\ << >> \in Seq([seat : 1..Capacity, by : Users])
  OBVIOUS
<1>2. 0 \in 0..MaxStarts /\ Capacity \in Nat /\ 1 <= Capacity
  BY SeatingAssumption DEF SeatingAssumption
<1>3. n \in Table
  <2>1. {} \in SUBSET Users /\ {} \in SUBSET [seat : 1..Capacity, to : Users]
    OBVIOUS
  <2> QED BY <1>1, <1>2, <2>1 DEF NewTable, Table
<1>4. /\ n.kind = kind /\ n.users = <<u>> /\ n.departed = {} /\ n.folded = {} /\ n.phase = "OPEN"
      /\ n.engine = "none" /\ n.ended = FALSE /\ n.next = << >> /\ n.releases = << >>
      /\ n.offers = {} /\ n.queue = << >> /\ n.id = g /\ n.reserved = FALSE /\ n.round = 0
      /\ n.previous = 0
  BY DEF NewTable
<1> HIDE DEF n
<1>5. Proper(n)
  <2>1. Phases(n)
    BY <1>4 DEF Phases
  <2>2. NoRepeats(n.queue)
    BY <1>4 DEF NoRepeats
  <2>3. CallBreakSeats(n) /\ OneStart(n)
    BY <1>4 DEF CallBreakSeats, OneStart
  <2> QED BY <1>1, <1>2, <1>3, <1>4, <2>1, <2>2, <2>3 DEF Proper
<1>6. Unreserved(n)
  BY <1>4 DEF Unreserved
<1> QED BY <1>4, <1>5, <1>6 DEF n

LEMMA CreateKeeps ==
    ASSUME Inv, NEW u \in Users, NEW kind \in Kinds, Create(u, kind)
    PROVE  Inv'
<1> DEFINE g == NextGame
           first == {h \in Occupied(u) : \A k \in Occupied(u) : h <= k}
           over(h) == Over(tables[h], "ENDED")
<1>1. /\ g \in Games
      /\ \A h \in first : Replaceable(tables[h])
      /\ tables' = [h \in Games |->
           CASE h = g -> NewTable(u, g, kind) [] h \in first -> over(h) [] OTHER -> tables[h]]
      /\ Free(first)
      /\ UNCHANGED <<members, lock, leaving, ticking, failures>>
  BY DEF Create, Over
<1>2. Places
  BY DEF Inv
<1>3. g \notin Hosted /\ Hosted \subseteq Games
  BY <1>1, <1>2, Numbered
<1>4. first \in SUBSET Hosted /\ \A h \in first : ~tables[h].ended
  BY DEF Occupied
<1>5. /\ Proper(NewTable(u, g, kind)) /\ Unreserved(NewTable(u, g, kind))
      /\ NewTable(u, g, kind).phase = "OPEN" /\ NewTable(u, g, kind).id = g
  BY <1>1, NewTableFacts
<1> HIDE DEF g, first, over
<1>6. /\ tables' = [h \in Games |-> tables'[h]]
      /\ tables'[g] = NewTable(u, g, kind)
      /\ \A h \in first : tables'[h] = over(h)
      /\ \A h \in Hosted \ first : tables'[h] = tables[h]
      /\ \A h \in Games : h # g /\ h \notin Hosted => tables'[h] = NoTable
  BY <1>1, <1>3, <1>4 DEF Hosted
<1>7. ASSUME NEW h \in first
      PROVE  LET x == tables'[h] IN
             /\ Proper(x) /\ x.ended /\ ~x.reserved
             /\ x.id = tables[h].id /\ x.kind = tables[h].kind /\ x.round = tables[h].round
             /\ ~Starting(h) /\ x.engine = tables[h].engine
  <2>1. h \in Hosted /\ Proper(tables[h]) /\ LockFits(h)
    BY <1>4, HostedProper DEF Inv
  <2>2. ~Starting(h)
    BY <1>1, <1>4, <2>1 DEF LockFits, Replaceable, Finished, FlushOpen
  <2> DEFINE t == tables[h]
             x == Over(t, "ENDED")
  <2>3. "ENDED" \in {t.phase, "ENDED"} /\ Proper(t)
    BY <2>1
  <2> HIDE DEF t
  <2>4. /\ Proper(x) /\ x.ended /\ ~x.reserved
        /\ x.id = t.id /\ x.kind = t.kind /\ x.round = t.round /\ x.engine = t.engine
    BY <2>3, OverFacts
  <2> HIDE DEF x
  <2>5. tables'[h] = x
    BY <1>6 DEF over, x, t
  <2> QED BY <2>2, <2>4, <2>5 DEF t
<1> QED BY <1>1, <1>4, <1>5, <1>6, <1>7, Appears DEF g

\* The seats of a table, and the players who sit on them.
LEMMA SeatsFacts ==
    ASSUME NEW t, Proper(t)
    PROVE  /\ Seats(t) \in Seq(Seat) /\ Len(Seats(t)) <= Capacity
           /\ Without(Seats(t), {Nobody}) \in Seq(Users)
           /\ Len(Without(Seats(t), {Nobody})) <= Capacity
<1> DEFINE v == [i \in 1..Len(t.users) |-> IF t.users[i] \in t.departed THEN Nobody ELSE t.users[i]]
           w == Without(t.users, t.departed)
           s == Seats(t)
           r == Without(s, {Nobody})
<1>1. /\ t \in Table /\ t.users \in Seq(Users) /\ t.next \in Seq(Seat)
      /\ Len(t.users) \in Nat /\ Len(t.next) \in Nat /\ Capacity \in Nat
      /\ Len(t.users) <= Capacity /\ Len(t.next) <= Capacity
  BY SeatingAssumption DEF Proper, Table, SeatingAssumption
<1>2. v \in Seq(Seat) /\ Len(v) = Len(t.users)
  <2>1. v \in [1..Len(t.users) -> Seat]
    BY <1>1 DEF Seat
  <2> HIDE DEF v
  <2>2. v \in Seq(Seat) /\ DOMAIN v = 1..Len(t.users)
    BY <1>1, <2>1
  <2> QED BY <1>1, <2>2
<1>3. w \in Seq(Seat) /\ Len(w) \in Nat /\ Len(w) <= Len(t.users)
  <2>1. w \in Seq(Users) /\ Len(w) \in Nat /\ Len(w) <= Len(t.users)
    BY <1>1, Left
  <2> HIDE DEF w
  <2> QED BY <2>1 DEF Seat
<1>4. s \in {t.next, v, w}
  BY DEF Seats
<1> HIDE DEF v, w, s
<1>5. s \in Seq(Seat) /\ Len(s) \in Nat /\ Len(s) <= Capacity
  <2>1. CASE s = t.next
    BY <1>1, <2>1
  <2>2. CASE s = v
    BY <1>1, <1>2, <2>2
  <2>3. CASE s = w
    BY <1>1, <1>3, <2>3
  <2> QED BY <1>4, <2>1, <2>2, <2>3
<1>6. r \in Seq(Seat) /\ Len(r) \in Nat /\ Len(r) <= Len(s) /\ ToSet(r) = ToSet(s) \ {Nobody}
  BY <1>5, Left
<1> HIDE DEF r
<1>7. \A i \in 1..Len(r) : r[i] \in Users
  <2>1. \A i \in 1..Len(r) : r[i] \in ToSet(r)
    BY <1>6, Members
  <2>2. ToSet(s) \subseteq Seat
    BY <1>5, Members
  <2> QED BY <1>6, <2>1, <2>2 DEF Seat
<1>8. r \in Seq(Users)
  BY <1>6, <1>7
<1>9. Len(r) <= Capacity
  BY <1>1, <1>5, <1>6
<1> QED BY <1>5, <1>8, <1>9 DEF s, r

\* The next match of a table, before its first _advance_table.
Successor(t, u, n, g) ==
    [NewTable(u, n, t.kind) EXCEPT !.users = Without(Seats(t), {Nobody}), !.queue = t.queue,
                                   !.id = t.id, !.previous = g]

LEMMA SuccessorFacts ==
    ASSUME NEW t, Proper(t), NEW u \in Users, NEW n \in Games, NEW g \in Games
    PROVE  LET s == Successor(t, u, n, g) IN
           /\ Proper(s) /\ s.phase = "OPEN" /\ ~s.reserved /\ s.id = t.id /\ s.kind = t.kind
           /\ s.previous = g
<1> DEFINE b == NewTable(u, n, t.kind)
           r == Without(Seats(t), {Nobody})
           s == [b EXCEPT !.users = r, !.queue = t.queue, !.id = t.id, !.previous = g]
<1>1. t \in Table /\ t.kind \in Kinds /\ t.queue \in Seq(Users) /\ t.id \in Games /\ NoRepeats(t.queue)
  BY DEF Proper, Table
<1>2. Proper(b) /\ b \in Table
  BY <1>1, NewTableFacts DEF Proper
<1>3. r \in Seq(Users) /\ Len(r) <= Capacity
  BY SeatsFacts
<1>4. /\ b.kind = t.kind /\ b.departed = {} /\ b.folded = {} /\ b.phase = "OPEN"
      /\ b.engine = "none" /\ b.ended = FALSE /\ b.next = << >> /\ b.releases = << >>
      /\ b.offers = {} /\ b.reserved = FALSE /\ b.round = 0
  BY DEF NewTable
<1>5. s = Successor(t, u, n, g)
  BY DEF Successor
<1> HIDE DEF b, r
<1>6. s \in Table
  BY <1>1, <1>2, <1>3 DEF Table
<1>7. /\ s.kind = t.kind /\ s.engine = "none" /\ s.ended = FALSE /\ s.departed = {}
      /\ s.id = t.id /\ s.round = 0 /\ s.previous = g
      /\ s.users = r /\ s.queue = t.queue /\ s.phase = "OPEN" /\ s.next = << >>
      /\ s.releases = << >> /\ s.reserved = FALSE /\ s.offers = {} /\ s.folded = {}
  BY <1>2, <1>4 DEF Table
<1> HIDE DEF s
<1>8. Phases(s) /\ CallBreakSeats(s) /\ OneStart(s)
  BY <1>7 DEF Phases, CallBreakSeats, OneStart
<1>9. Len(s.next) <= Capacity
  BY <1>2, <1>4, <1>7 DEF Proper
<1>10. Proper(s)
  BY <1>1, <1>3, <1>6, <1>7, <1>8, <1>9 DEF Proper
<1> QED BY <1>5, <1>7, <1>10

LEMMA NextMatchKeeps ==
    ASSUME Inv, NEW g \in Games, Unlocked(g), NEW u \in Users, NextMatch(u, g, Now(g))
    PROVE  Inv'
<1> DEFINE n == NextGame
           t == Now(g)
           s == Successor(t, u, n, g)
           a == Advanced(s)
           x == Over(t, t.phase)
<1>1. g \in Hosted /\ lock[g] = Idle /\ Places
  BY DEF Unlocked, Hosted, Inv
<1>2. Proper(t) /\ t \in Table /\ Kept(tables[g], t)
  BY <1>1, NowFacts DEF AdvanceMakes
<1>3. /\ n \in Games
      /\ tables' = [tables EXCEPT ![g] = [t EXCEPT !.ended = TRUE, !.reserved = FALSE], ![n] = a]
      /\ Free({g})
      /\ UNCHANGED <<members, lock, leaving, ticking, failures>>
  BY DEF NextMatch, Successor
<1>4. n \notin Hosted
  BY <1>1, <1>3, Numbered
<1> HIDE DEF t
<1>5. [t EXCEPT !.ended = TRUE, !.reserved = FALSE] = x
  BY <1>2 DEF Over, Table
<1>6. /\ Proper(x) /\ x.ended /\ ~x.reserved
      /\ x.id = t.id /\ x.kind = t.kind /\ x.round = t.round /\ x.engine = t.engine
  <2> DEFINE p == t.phase
  <2>1. p \in {t.phase, "ENDED"}
    OBVIOUS
  <2> HIDE DEF p
  <2>2. LET y == Over(t, p) IN
        /\ Proper(y) /\ y.ended /\ ~y.reserved
        /\ y.id = t.id /\ y.kind = t.kind /\ y.round = t.round /\ y.engine = t.engine
    BY <1>2, <2>1, OverFacts
  <2> QED BY <2>2 DEF p
<1>7. /\ Proper(s) /\ s.phase = "OPEN" /\ ~s.reserved /\ s.id = t.id /\ s.kind = t.kind
  BY <1>2, <1>3, SuccessorFacts
<1> HIDE DEF s, x, n
<1>8. AdvanceMakes(s, a) /\ (a.reserved <=> s.reserved /\ ~Releases(s))
  BY <1>7, AdvancedFacts
<1> HIDE DEF a
<1>9. /\ Proper(a) /\ ~a.reserved /\ a.phase # "STARTED"
      /\ a.id = t.id /\ a.kind = t.kind
  BY <1>7, <1>8 DEF AdvanceMakes, Kept
<1>10. Unreserved(a)
  BY <1>9 DEF Unreserved
<1>11. t.id \in Hosted /\ tables[t.id].kind = t.kind /\ x.id = tables[g].id /\ x.kind = tables[g].kind
       /\ x.round = tables[g].round /\ x.engine = tables[g].engine
  BY <1>1, <1>2, <1>6 DEF Kept, Places
<1>12. ~Starting(g)
  BY <1>1 DEF Starting, Idle
<1>13. tables' = [tables EXCEPT ![g] = x, ![n] = a]
  BY <1>3, <1>5
<1>14. /\ tables' = [h \in Games |-> tables'[h]]
       /\ tables'[n] = a /\ tables'[g] = x
       /\ \A h \in Games : h # g /\ h # n => tables'[h] = tables[h]
  BY <1>1, <1>3, <1>4, <1>13 DEF Places
<1>15. /\ \A h \in Hosted \ {g} : tables'[h] = tables[h]
       /\ \A h \in Games : h # n /\ h \notin Hosted => tables'[h] = NoTable
  BY <1>1, <1>4, <1>14 DEF Hosted
<1> DEFINE G == {g}
<1>16. G \in SUBSET Hosted /\ Free(G) /\ \A h \in G : h = g
  BY <1>1, <1>3
<1> HIDE DEF G
<1>17. \A h \in G : LET y == tables'[h] IN
             /\ Proper(y) /\ y.ended /\ ~y.reserved
             /\ y.id = tables[h].id /\ y.kind = tables[h].kind /\ y.round = tables[h].round
             /\ ~Starting(h) /\ y.engine = tables[h].engine
  BY <1>6, <1>11, <1>12, <1>14, <1>16
<1>18. \A h \in Hosted \ G : tables'[h] = tables[h]
  BY <1>15 DEF G
<1>19. LET m == tables'[n] IN
       /\ Proper(m) /\ Unreserved(m) /\ m.phase # "STARTED"
       /\ m.id = n \/ (m.id \in Hosted /\ tables[m.id].kind = m.kind)
  BY <1>9, <1>10, <1>11, <1>14
<1>20. n = NextGame
  BY DEF n
<1>21. tables' = [h \in Games |-> tables'[h]]
  BY <1>14
<1> QED BY <1>3, <1>15, <1>16, <1>17, <1>18, <1>19, <1>20, <1>21, Appears

-------------------------------------------------------------------------------
(* The room *)

LEMMA AdvanceAllKeeps ==
    ASSUME Inv, NEW m, NEW s, AdvanceAll(m, s), members' \subseteq Users,
           \A g \in Hosted : lock[g] = Idle,
           UNCHANGED <<lock, leaving, failures>>,
           \A g \in Hosted : Proper(s[g]) /\ Follows(tables[g], s[g], FALSE)
    PROVE  Inv'
<1> DEFINE done == {g \in Hosted : Releases(tables[g]) \/ Releases(s[g])}
           stays(g) == g \notin done
           a(g) == AdvancedFor(s[g], m, {})
           x(g) == [a(g) EXCEPT !.reserved = a(g).reserved /\ stays(g)]
<1>1. Places /\ Rest /\ Rows /\ Hosted \subseteq Games
  BY DEF Inv, Hosted
<1>2. /\ tables' = [g \in Games |-> IF g \in Hosted THEN x(g) ELSE NoTable]
      /\ ticking' = ticking \cup {g \in Hosted : tables'[g].offers # {}}
      /\ Free(done)
  BY DEF AdvanceAll
<1>3. /\ done \in SUBSET Hosted
      /\ \A g \in Hosted : g \in done <=> Releases(tables[g]) \/ Releases(s[g])
  OBVIOUS
<1> HIDE DEF done
<1>4. ASSUME NEW g \in Hosted
      PROVE  /\ tables'[g] = x(g) /\ Proper(x(g)) /\ AdvanceMakes(s[g], x(g))
             /\ x(g).reserved = (s[g].reserved /\ stays(g))
             /\ x(g).id = tables[g].id /\ x(g).kind = tables[g].kind
  <2> DEFINE b == a(g)
             keeps == stays(g)
             y == [b EXCEPT !.reserved = b.reserved /\ keeps]
  <2>1. AdvanceMakes(s[g], b) /\ b.reserved = s[g].reserved
    BY AdvancedForFacts
  <2>2. keeps \in BOOLEAN
    OBVIOUS
  <2>3. tables'[g] = y /\ y = x(g)
    BY <1>1, <1>2
  <2>4. Follows(tables[g], s[g], FALSE)
    OBVIOUS
  <2> HIDE DEF b, keeps
  <2>5. /\ AdvanceMakes(s[g], y) /\ Kept(b, y) /\ Proper(y)
        /\ y.reserved = (b.reserved /\ keeps)
    BY <2>1, <2>2, FreedMakes
  <2> HIDE DEF y
  <2>6. y.id = tables[g].id /\ y.kind = tables[g].kind
    BY <2>4, <2>5 DEF Follows, AdvanceMakes, Kept
  <2>7. y.reserved = (s[g].reserved /\ stays(g))
    BY <2>1, <2>5 DEF keeps
  <2> HIDE DEF x
  <2> QED BY <2>3, <2>5, <2>6, <2>7
<1> HIDE DEF x, a
<1>5. Hosted' = Hosted
  <2>1. \A g \in Hosted : x(g) # NoTable
    BY <1>4, NoTableAssumption DEF Proper
  <2>2. \A g \in Games : g \notin Hosted => tables'[g] = NoTable
    BY <1>2
  <2>3. \A g \in Hosted : tables'[g] # NoTable
    BY <1>4, <2>1
  <2> QED BY <1>1, <2>2, <2>3 DEF Hosted
<1>6. Places'
  <2>1. tables' \in [Games -> Table \cup {NoTable}]
    BY <1>2, <1>4 DEF Proper
  <2>2. \A g \in Hosted : g = 1 \/ g - 1 \in Hosted
    BY <1>1 DEF Places
  <2>3. \A g \in Hosted : Proper(tables'[g]) /\ tables'[g].id = tables[g].id
                          /\ tables'[g].kind = tables[g].kind
    BY <1>4
  <2>4. \A g \in Hosted : tables[g].id \in Hosted /\ tables[tables[g].id].kind = tables[g].kind
    BY <1>1 DEF Places
  <2>5. \A g \in Hosted : tables'[g].id \in Hosted /\ tables'[tables'[g].id].kind = tables'[g].kind
    BY <2>3, <2>4
  <2> QED BY <1>5, <2>1, <2>2, <2>3, <2>5 DEF Places
<1>7. /\ RowsShrink
      /\ \A g \in done, u \in Users : gameRows'[u] # <<g, tables[g].round>>
      /\ \A g \in done, u \in Users : tables[g].reserved => tableRows'[u] # tables[g].id
      /\ \A g \in Hosted \ done, u \in Users :
           gameRows[u] = <<g, tables[g].round>> => gameRows'[u] = gameRows[u]
  BY <1>1, <1>2, <1>3, FreeFacts
<1>8. ASSUME NEW g \in Hosted PROVE Moves(g)
  <2> DEFINE free == g \in done
             r == s[g]
  <2>1. /\ free \in BOOLEAN /\ free = (FALSE \/ Releases(tables[g]) \/ Releases(r))
        /\ Follows(tables[g], r, FALSE) /\ Proper(r)
    <3>1. free <=> FALSE \/ Releases(tables[g]) \/ Releases(r)
      BY <1>3
    <3>2. free \in BOOLEAN
      OBVIOUS
    <3>3. Follows(tables[g], r, FALSE) /\ Proper(r)
      OBVIOUS
    <3> HIDE DEF free, r
    <3>4. free = (FALSE \/ Releases(tables[g]) \/ Releases(r))
      BY <3>1, <3>2
    <3> QED BY <3>2, <3>3, <3>4
  <2>2. AdvanceMakes(r, tables'[g]) /\ (tables'[g].reserved <=> r.reserved /\ ~free)
    BY <1>4
  <2>3. /\ \A u \in Users : free => gameRows'[u] # <<g, tables[g].round>>
        /\ \A u \in Users : free /\ tables[g].reserved => tableRows'[u] # tables[g].id
        /\ \A u \in Users \ r.departed :
             ~free /\ gameRows[u] = <<g, tables[g].round>> => gameRows'[u] = gameRows[u]
    BY <1>7
  <2>4. lock'[g] = Idle /\ ~Starting(g)
    BY DEF Starting, Idle
  <2>5. FALSE \in BOOLEAN
    OBVIOUS
  <2> HIDE DEF free, r
  <2> QED BY <1>7, <2>1, <2>2, <2>3, <2>4, <2>5, FollowsMoves
<1>9. ASSUME NEW g \in Games PROVE LockFits(g)'
  <2>1. CASE g \in Hosted
    <3>1. lock' = lock /\ lock[g] = Idle
      BY <2>1
    <3> QED BY <3>1 DEF LockFits, Starting, Idle
  <2>2. CASE g \notin Hosted
    <3>1. LockFits(g) /\ tables[g] = NoTable
      BY <2>2 DEF Inv, Hosted
    <3> QED BY <3>1, Stages DEF LockFits, Starting
  <2> QED BY <2>1, <2>2
<1>10. Rest'
  BY <1>1, <1>2 DEF Rest
<1> QED BY <1>5, <1>6, <1>7, <1>8, <1>9, <1>10, MovesKeep

LEMMA EnterRoomKeeps ==
    ASSUME Inv, NEW u \in Visitors, EnterRoom(u)
    PROVE  Inv'
<1>1. \A g \in Hosted : Proper(tables[g]) /\ Follows(tables[g], tables[g], FALSE)
  BY HostedProper, FollowsItself
<1>2. members' \subseteq Users
  BY SeatingAssumption DEF Inv, Rest, EnterRoom, SeatingAssumption
<1>3. /\ AdvanceAll(members', tables) /\ UNCHANGED <<lock, leaving, failures>>
      /\ \A g \in Hosted : lock[g] = Idle
  BY DEF EnterRoom
<1> QED BY <1>1, <1>2, <1>3, AdvanceAllKeeps

LEMMA DepartedFollows ==
    ASSUME Inv, NEW g \in Hosted, NEW u \in Users
    PROVE  Proper(Departed(g, u)) /\ Follows(tables[g], Departed(g, u), FALSE)
<1> DEFINE t == tables[g]
           n == Now(g)
           q == Dequeued(n, u)
           r == IF u \in Seated(q) /\ SeatReleasable(q) THEN SeatReleased(q, u) ELSE q
           d == Advanced(r)
<1>1. /\ AdvanceMakes(t, n) /\ Settled(n) /\ Kept(t, n) /\ t \in Table /\ n \in Table
      /\ n.reserved <=> t.reserved /\ ~Releases(t)
  BY HostedProper, NowFacts, NowSettled DEF AdvanceMakes
<1>2. d = Departed(g, u)
  BY DEF Departed
<1>3. q.engine = n.engine
  BY <1>1 DEF Dequeued, Table
<1>4. t.reserved \in BOOLEAN /\ n.reserved \in BOOLEAN
  BY <1>1 DEF Table
<1>5. n.kind = t.kind /\ n.id = t.id /\ n.round = t.round /\ n.ended = t.ended /\ n.engine = t.engine
      /\ n.departed = t.departed
  BY <1>1 DEF Kept
<1>6. InPlay(n) => InPlay(t) /\ n.users = t.users
  BY <1>1, <1>5 DEF AdvanceMakes, InPlay
<1> HIDE DEF n, t
<1>7. Proper(q) /\ Changes(n, q, FALSE) /\ Settled(q)
  BY <1>1, DequeuedChanges
<1> HIDE DEF q
<1>8. /\ Proper(r) /\ ~Releases(r) /\ Unreserved(r)
      /\ r.id = q.id /\ r.kind = q.kind /\ r.round = q.round /\ r.reserved = q.reserved
      /\ InPlay(r) => InPlay(q) /\ r.users = q.users /\ q.departed \subseteq r.departed
      /\ r.ended /\ q.kind # "flush" => q.ended \/ q.engine = "none"
  <2>1. CASE u \in Seated(q) /\ SeatReleasable(q)
    <3>1. r = SeatReleased(q, u)
      BY <2>1
    <3> HIDE DEF r
    <3>2. Proper(r) /\ Changes(q, r, FALSE) /\ ~Releases(r)
      BY <1>7, <2>1, <3>1, SeatReleasedChanges
    <3> QED BY <3>2 DEF Changes
  <2>2. CASE ~(u \in Seated(q) /\ SeatReleasable(q))
    <3>1. r = q
      BY <2>2
    <3>2. ~Releases(q)
      BY <1>7, ReleasesFacts DEF Settled, Proper
    <3> HIDE DEF r
    <3> QED BY <1>7, <3>1, <3>2 DEF Settled
  <2> QED BY <2>1, <2>2
<1> HIDE DEF r
<1>9. AdvanceMakes(r, d) /\ (d.reserved <=> r.reserved /\ ~Releases(r))
  BY <1>8, AdvancedFacts
<1> HIDE DEF d
<1>10. /\ Proper(d) /\ d \in Table /\ d.id = r.id /\ d.kind = r.kind /\ d.round = r.round
       /\ d.ended = r.ended /\ d.engine = r.engine /\ d.departed = r.departed
  BY <1>9 DEF AdvanceMakes, Kept, Proper
<1>11. d.reserved = r.reserved
  <2>1. d.reserved \in BOOLEAN /\ r.reserved \in BOOLEAN
    BY <1>8, <1>10 DEF Table, Proper
  <2> QED BY <1>8, <1>9, <2>1
<1>12. InPlay(d) => InPlay(r) /\ d.users = r.users
  BY <1>9, <1>10 DEF AdvanceMakes, InPlay
<1>13. Unreserved(d)
  BY <1>8, <1>9, <1>10, <1>11 DEF AdvanceMakes, Unreserved
<1>14. /\ q.id = n.id /\ q.kind = n.kind /\ q.round = n.round /\ q.reserved = n.reserved
       /\ InPlay(q) => InPlay(n) /\ q.users = n.users /\ n.departed \subseteq q.departed
       /\ q.ended /\ n.kind # "flush" => n.ended \/ n.engine = "none"
  BY <1>7 DEF Changes
<1>15. InPlay(d) => InPlay(t) /\ d.users = t.users /\ t.departed \subseteq d.departed
  BY <1>5, <1>6, <1>8, <1>10, <1>12, <1>14
<1>16. d.ended /\ t.kind # "flush" => t.ended \/ t.engine = "none"
  BY <1>3, <1>5, <1>8, <1>10, <1>14
<1>17. /\ d.reserved => t.reserved
       /\ ~Releases(t) => d.reserved = t.reserved
  BY <1>1, <1>4, <1>8, <1>11, <1>14
<1>18. d.id = t.id /\ d.kind = t.kind /\ d.round = t.round
  BY <1>5, <1>8, <1>10, <1>14
<1>19. Follows(t, d, FALSE)
  BY <1>13, <1>15, <1>16, <1>17, <1>18 DEF Follows
<1> QED BY <1>2, <1>10, <1>19 DEF t

LEMMA LeaveRoomKeeps ==
    ASSUME Inv, NEW u \in Visitors, LeaveRoom(u)
    PROVE  Inv'
<1> DEFINE stops == {g \in Hosted : u \in Seated(Now(g)) /\ ~SeatReleasable(Now(g))}
           upTo(g) == \A h \in stops : g < h
           s == [g \in Games |-> IF g \in Hosted /\ upTo(g) THEN Departed(g, u) ELSE tables[g]]
<1>1. /\ AdvanceAll(members', s) /\ UNCHANGED <<lock, leaving, failures>>
      /\ \A g \in Hosted : lock[g] = Idle
      /\ members' \in {members, members \ {u}}
  BY DEF LeaveRoom
<1>2. u \in Users
  BY SeatingAssumption DEF SeatingAssumption
<1>3. \A g \in Hosted : s[g] \in {tables[g], Departed(g, u)}
  BY DEF Hosted
<1> HIDE DEF s
<1>4. \A g \in Hosted : Proper(s[g]) /\ Follows(tables[g], s[g], FALSE)
  BY <1>2, <1>3, HostedProper, FollowsItself, DepartedFollows
<1>5. members' \subseteq Users
  BY <1>1 DEF Inv, Rest
<1> QED BY <1>1, <1>4, <1>5, AdvanceAllKeeps

LEMMA AskKeeps ==
    ASSUME Inv, NEW u \in Users, NEW g \in Games, Unlocked(g), Ask(u, g, Now(g))
    PROVE  Inv'
<1> DEFINE t == Now(g)
<1>1. CASE Join(u, g, t) BY <1>1, JoinKeeps
<1>2. CASE JoinQueue(u, g, t) BY <1>2, JoinQueueKeeps
<1>3. CASE LeaveQueue(u, g, t) BY <1>3, LeaveQueueKeeps
<1>4. CASE LeaveSeat(u, g, t) BY <1>4, LeaveSeatKeeps
<1>5. CASE AcceptSeat(u, g, t) BY <1>5, AcceptSeatKeeps
<1>6. CASE DeclineSeat(u, g, t) BY <1>6, DeclineSeatKeeps
<1>7. CASE \E to \in Users : Invite(u, g, t, to) BY <1>7, InviteKeeps
<1>8. CASE Lock(u, g, t) BY <1>8, LockKeeps
<1>9. CASE Start(u, g, t) BY <1>9, StartKeeps
<1>10. CASE Abandon(u, g, t) BY <1>10, AbandonKeeps
<1>11. CASE NextMatch(u, g, t) BY <1>11, NextMatchKeeps
<1> QED
  BY <1>1, <1>2, <1>3, <1>4, <1>5, <1>6, <1>7, <1>8, <1>9, <1>10, <1>11 DEF Ask

LEMMA InitInv ==
    ASSUME Init PROVE Inv
<1>1. Hosted = {}
  BY DEF Init, Hosted
<1>2. Places
  BY <1>1 DEF Init, Places
<1>3. Idle \in Lock0 /\ Idle.stage = "free"
  BY DEF Idle, Lock0
<1>4. Rest
  BY <1>3, SeatingAssumption DEF Init, Rest, SeatingAssumption
<1>5. Rows /\ GameRowsKnown /\ TableRowsKnown
  BY DEF Init, Rows, GameRowsKnown, TableRowsKnown
<1>6. \A g \in Games : LockFits(g)
  BY <1>3 DEF Init, LockFits, Starting
<1> QED BY <1>1, <1>2, <1>4, <1>5, <1>6 DEF Inv

LEMMA NextKeeps ==
    ASSUME Inv, [Next]_vars PROVE Inv'
<1>1. CASE UNCHANGED vars
  BY <1>1, StandsStill DEF vars, db, Rest, Inv
<1>2. ASSUME NEW u \in Openers, NEW kind \in Kinds, Create(u, kind) PROVE Inv'
  BY <1>2, SeatingAssumption, CreateKeeps DEF SeatingAssumption
<1>3. ASSUME NEW u \in Visitors, EnterRoom(u) \/ LeaveRoom(u) PROVE Inv'
  BY <1>3, EnterRoomKeeps, LeaveRoomKeeps
<1>4. ASSUME NEW g \in Games, Unlocked(g), NEW t \in {Now(g)}, NEW u \in Users, Ask(u, g, t)
      PROVE Inv'
  BY <1>4, AskKeeps
<1>5. ASSUME NEW g \in Games, NEW u \in Users, End(u, g) \/ RequestLeave(u, g) \/ FoldAndLeave(u, g)
      PROVE Inv'
  BY <1>5, EndKeeps, RequestLeaveKeeps, FoldAndLeaveKeeps
<1>6. ASSUME NEW g \in Games,
             \/ ReserveForStart(g) \/ StartOwned(g) \/ LastMove(g) \/ Committed(g)
             \/ View(g) \/ Refresh(g)
      PROVE Inv'
  BY <1>6, ReserveForStartKeeps, StartOwnedKeeps, LastMoveKeeps, CommittedKeeps, ViewKeeps,
     RefreshKeeps
<1>7. ASSUME NEW g \in Games, g \in ticking, NEW expired \in SUBSET tables[g].offers, Tick(g, expired)
      PROVE Inv'
  BY <1>7, TickKeeps
<1> QED BY <1>1, <1>2, <1>3, <1>4, <1>5, <1>6, <1>7 DEF Next

LEMMA Invariant == Spec => []Inv
  BY InitInv, NextKeeps, PTL DEF Spec

-------------------------------------------------------------------------------
(* Theorems *)

\* The tables, the locks and the store's rows have their types in every state: no table
\* seats more than its capacity.
THEOREM SeatingTypeOK == Spec => []TypeOK
<1>1. Inv => TypeOK
  <2> SUFFICES ASSUME Inv PROVE TypeOK
    OBVIOUS
  <2>1. Places /\ Rest /\ Rows
    BY DEF Inv
  <2>2. \A g \in Games : tables[g] # NoTable => Len(tables[g].users) <= Capacity
    BY <2>1 DEF Places, Hosted, Proper
  <2> QED BY <2>1, <2>2 DEF TypeOK, Places, Rest, Rows, Lock0
<1> QED BY <1>1, Invariant, PTL

LEMMA PlayingFacts ==
    ASSUME Inv, NEW g \in Games, Playing(g)
    PROVE  /\ g \in Hosted /\ Seated(tables[g]) = ToSet(tables[g].users) \ tables[g].departed
           /\ \A u \in Seated(tables[g]) : u \in Users /\ gameRows[u] = <<g, tables[g].round>>
<1> DEFINE t == tables[g]
<1>1. g \in Hosted /\ Proper(t) /\ Held(g)
  BY DEF Playing, Unlocked, Hosted, Inv, Places
<1>2. t \in Table /\ t.phase = "STARTED" /\ t.next = << >>
  BY <1>1 DEF Proper, Phases, Playing
<1>3. ToSet(t.users) \subseteq Users
  BY <1>2, Members DEF Table
<1>4. lock[g].stage = "free"
  BY DEF Playing, Unlocked, Idle
<1> HIDE DEF t
<1>5. Seated(t) = ToSet(t.users) \ t.departed
  BY <1>2 DEF Seated
<1> USE DEF t
<1>6. \A u \in ToSet(tables[g].users) \ tables[g].departed : gameRows[u] = <<g, tables[g].round>>
  BY <1>1, <1>4 DEF Held, Starting, Playing
<1> QED BY <1>1, <1>3, <1>5, <1>6

\* Whoever plays a match is reserved for it: no command at this or at another table, no
\* failed call of the store and no view without the lock ends the reservation of a player
\* whose match goes on.
THEOREM PlayersStayReserved == Spec => []PlayersReserved
<1>1. Inv => PlayersReserved
  BY PlayingFacts DEF PlayersReserved
<1> QED BY <1>1, Invariant, PTL

LEMMA OneMatchFollows ==
    ASSUME Inv PROVE OneMatchPerPlayer
<1> SUFFICES ASSUME NEW g \in Games, NEW h \in Games, Playing(g), Playing(h), g # h,
                    NEW u \in Seated(tables[g]), u \in Seated(tables[h])
             PROVE  FALSE
  BY DEF OneMatchPerPlayer
<1>1. gameRows[u] = <<g, tables[g].round>> /\ gameRows[u] = <<h, tables[h].round>>
  BY PlayingFacts
<1> QED BY <1>1

\* Nobody plays two matches at once, although a table is joined, a seat accepted and a
\* match started under the lock of that match alone, and a waiter promoted without a look
\* at the other tables.
THEOREM OneMatchAtATime == Spec => []OneMatchPerPlayer
  BY OneMatchFollows, Invariant, PTL

LEMMA EndedFollows ==
    ASSUME Inv PROVE EndedReservesNothing
<1> SUFFICES ASSUME NEW g \in Games, Unlocked(g), tables[g].ended, tables[g].kind # "flush",
                    Known(tables[g])
             PROVE  /\ \A u \in Users : gameRows[u] = << >> \/ gameRows[u][1] # g
                    /\ (\A h \in Hosted : tables[h].id = tables[g].id =>
                                          tables[h].ended /\ Known(tables[h])) =>
                          \A u \in Users : tableRows[u] # tables[g].id
  BY DEF EndedReservesNothing
<1>1. g \in Hosted /\ GameRowsKnown /\ TableRowsKnown /\ Places
  BY DEF Unlocked, Hosted, Inv
<1>2. ASSUME NEW u \in Users, gameRows[u] # << >>, gameRows[u][1] = g PROVE FALSE
  <2>1. Sure(tables[g])
    BY DEF Sure, Known
  <2> QED BY <1>1, <1>2, <2>1 DEF GameRowsKnown
<1>3. ASSUME \A h \in Hosted : tables[h].id = tables[g].id => tables[h].ended /\ Known(tables[h]),
             NEW u \in Users, tableRows[u] = tables[g].id
      PROVE  FALSE
  <2>1. tables[g].id # 0
    BY <1>1 DEF Places, Hosted, Games
  <2>2. PICK h \in Hosted : tables[h].id = tables[g].id /\ (tables[h].reserved \/ ~Sure(tables[h]))
    BY <1>1, <1>3, <2>1 DEF TableRowsKnown
  <2>3. tables[h].ended /\ Known(tables[h]) /\ tables[h].kind = tables[g].kind
    BY <1>1, <1>3, <2>2 DEF Places
  <2>4. Sure(tables[h])
    BY <2>3 DEF Sure, Known
  <2> QED BY <2>2, <2>3, <2>4 DEF Inv, Unreserved
<1> QED BY <1>2, <1>3

\* Nobody plays two matches, whoever plays one is held for it, and a Call Break or Marriage
\* match that has ended holds nobody: where a reply of the store may be lost, the last is
\* said of the matches whose start was answered, and of tables all of whose matches are such.
THEOREM ReservationsStayTrue == Spec => []ReservationsTrue
<1>1. Inv => ReservationsTrue
  BY OneMatchFollows, EndedFollows, PlayingFacts DEF ReservationsTrue, PlayersReserved
<1> QED BY <1>1, Invariant, PTL

\* The offers of a table concern distinct vacant seats and distinct users who have no seat
\* there, whoever joins, leaves, invites, declines or lets an offer expire in between.
THEOREM OffersStayConsistent == Spec => []OffersConsistent
<1>1. Inv => OffersConsistent
  BY DEF Inv, Places, Proper, OffersFit, OffersConsistent
<1> QED BY <1>1, Invariant, PTL

\* A vacant seat of a completed Call Break table was given up by one player, once, and no
\* seat that is taken is still listed as given up.
THEOREM SeatsStayAccounted == Spec => []SeatsAccounted
<1>1. ASSUME Inv, NEW g \in Hosted, tables[g].kind = "callbreak",
             tables[g].phase = "COMPLETED", ~tables[g].ended, NEW i \in 1..Capacity
      PROVE  Cardinality({n \in 1..Len(tables[g].releases) : tables[g].releases[n].seat = i}) =
               IF tables[g].next[i] = Nobody THEN 1 ELSE 0
  <2> DEFINE t == tables[g]
             N == {n \in 1..Len(t.releases) : t.releases[n].seat = i}
  <2>1. ReleasesFit(t) /\ CallBreakSeats(t)
    BY <1>1 DEF Inv, Places, Proper
  <2>2. CASE t.next[i] = Nobody
    <3>1. PICK n \in 1..Len(t.releases) : t.releases[n].seat = i
      BY <1>1, <2>1, <2>2 DEF CallBreakSeats
    <3>2. N = {n}
      BY <2>1, <3>1 DEF ReleasesFit
    <3>3. Cardinality(N) = 1
      BY <3>2, FS_Singleton
    <3> QED BY <2>2, <3>3
  <2>3. CASE t.next[i] # Nobody
    <3>1. N = {}
      BY <2>1, <2>3 DEF ReleasesFit
    <3>2. Cardinality(N) = 0
      BY <3>1, FS_EmptySet
    <3> QED BY <2>3, <3>2
  <2> QED BY <2>2, <2>3
<1>2. Inv => SeatsAccounted
  BY <1>1 DEF SeatsAccounted
<1> QED BY <1>2, Invariant, PTL

\* Matches appear when a table is created or goes on with a next match.
LEMMA NoneAppears ==
    ASSUME Inv, [Next]_vars, NEW n \in Games, tables[n] = NoTable, tables'[n] # NoTable
    PROVE  \/ \E u \in Users, kind \in Kinds : Create(u, kind)
           \/ \E g \in Games, u \in Users : Unlocked(g) /\ NextMatch(u, g, Now(g))
<1> SUFFICES ASSUME ~ \E u \in Users, kind \in Kinds : Create(u, kind),
                    ~ \E g \in Games, u \in Users : Unlocked(g) /\ NextMatch(u, g, Now(g))
             PROVE  FALSE
  OBVIOUS
<1>1. tables \in [Games -> Table \cup {NoTable}] /\ Openers \subseteq Users
  BY SeatingAssumption DEF Inv, Places, SeatingAssumption
<1>2. ASSUME NEW g \in Games, tables[g] # NoTable, NEW x, tables' = [tables EXCEPT ![g] = x]
      PROVE  FALSE
  BY <1>1, <1>2
<1>3. ASSUME NEW g \in Games, Unlocked(g), NEW s, NEW freed, Settle(g, s, freed) PROVE FALSE
  BY <1>3, <1>2 DEF Settle, Unlocked
<1>4. ASSUME NEW g \in Games, lock[g].stage # "free" PROVE tables[g] # NoTable
  BY <1>4 DEF Inv, LockFits
<1>5. ASSUME NEW m, NEW s, AdvanceAll(m, s) PROVE FALSE
  BY <1>5 DEF AdvanceAll, Hosted
<1>6. ASSUME NEW u \in Visitors, EnterRoom(u) \/ LeaveRoom(u) PROVE FALSE
  BY <1>5, <1>6 DEF EnterRoom, LeaveRoom
<1>7. ASSUME NEW g \in Games, Unlocked(g), NEW u \in Users, Ask(u, g, Now(g)) PROVE FALSE
  <2> DEFINE t == Now(g)
  <2> HIDE DEF t
  <2>1. ASSUME NEW s, NEW freed, Command(u, g, s, freed) PROVE FALSE
    BY <1>3, <1>7, <2>1 DEF Command
  <2>2. ASSUME Lock(u, g, t) \/ Start(u, g, t) PROVE FALSE
    BY <1>2, <1>7, <2>2 DEF Lock, Start, Unlocked
  <2>3. ASSUME \/ Join(u, g, t) \/ JoinQueue(u, g, t) \/ LeaveQueue(u, g, t)
               \/ LeaveSeat(u, g, t) \/ DeclineSeat(u, g, t) \/ Abandon(u, g, t)
        PROVE  FALSE
    BY <2>1, <2>3 DEF Join, JoinQueue, LeaveQueue, LeaveSeat, DeclineSeat, Abandon
  <2>4. ASSUME AcceptSeat(u, g, t) PROVE FALSE
    <3>1. PICK o \in t.offers :
            Command(u, g, [t EXCEPT !.next[o.seat] = u,
                                    !.releases = AtPositions(@, {k \in 1..Len(@) : @[k].seat # o.seat}),
                                    !.offers = @ \ {o},
                                    !.queue = Without(@, {u})], FALSE)
      BY <2>4 DEF AcceptSeat
    <3> QED BY <2>1, <3>1
  <2>5. ASSUME NEW to \in Users, Invite(u, g, t, to) PROVE FALSE
    BY <2>1, <2>5 DEF Invite
  <2>6. t = Now(g)
    BY DEF t
  <2> QED BY <1>7, <2>2, <2>3, <2>4, <2>5, <2>6 DEF Ask
<1>8. ASSUME NEW g \in Games, NEW u \in Users, End(u, g) PROVE FALSE
  BY <1>3, <1>8 DEF End, Command
<1>9. ASSUME NEW g \in Games, NEW u \in Users, RequestLeave(u, g) PROVE FALSE
  BY <1>2, <1>9 DEF RequestLeave
<1>10. ASSUME NEW g \in Games, NEW u \in Users, FoldAndLeave(u, g) PROVE FALSE
  <2>1. Unlocked(g) /\ tables[g] # NoTable
    BY <1>10 DEF FoldAndLeave, Unlocked
  <2>2. \/ \E s, free : Settle(g, s, free)
        \/ \E x : tables' = [tables EXCEPT ![g] = x]
        \/ tables' = tables
    BY <1>10, ZenonT(60) DEF FoldAndLeave
  <2> QED BY <1>2, <1>3, <2>1, <2>2
<1>11. ASSUME NEW g \in Games, \/ ReserveForStart(g) \/ StartOwned(g) \/ LastMove(g) \/ View(g)
       PROVE FALSE
  <2>1. tables[g] # NoTable
    BY <1>4, <1>11 DEF ReserveForStart, StartOwned, LastMove, View, Unlocked
  <2>2. \E x : tables' = [tables EXCEPT ![g] = x]
    BY <1>11 DEF ReserveForStart, StartOwned, LastMove, View
  <2> QED BY <1>2, <2>1, <2>2
<1>12. ASSUME NEW g \in Games, Committed(g) \/ Refresh(g) PROVE FALSE
  <2>1. tables[g] # NoTable
    BY <1>4, <1>12 DEF Committed, Refresh, Unlocked
  <2>2. \E x : tables' = [tables EXCEPT ![g] = x]
    BY <1>12 DEF Committed, Refresh, Settle
  <2> QED BY <1>2, <2>1, <2>2
<1>13. ASSUME NEW g \in Games, NEW expired, Tick(g, expired) PROVE FALSE
  BY <1>2, <1>13 DEF Tick, Unlocked
<1>14. CASE UNCHANGED vars
  BY <1>14 DEF vars
<1> QED
  BY <1>1, <1>6, <1>7, <1>8, <1>9, <1>10, <1>11, <1>12, <1>13, <1>14 DEF Next

\* The seats of a completed Call Break table that may go on with a next match.
LEMMA AllSeated ==
    ASSUME NEW t, Proper(t), t.kind = "callbreak", t.phase = "COMPLETED", ~t.ended,
           t.releases = << >>
    PROVE  /\ Len(t.users) = Len(t.next) /\ Without(Seats(t), {Nobody}) = t.next
           /\ \A i \in 1..Len(t.users) : t.users[i] \notin t.departed => t.next[i] = t.users[i]
<1>1. /\ t \in Table /\ t.next \in Seq(Seat) /\ CallBreakSeats(t) /\ Capacity \in Nat \ {0, 1}
  BY SeatingAssumption DEF Proper, Table, SeatingAssumption
<1>2. /\ Len(t.users) = Capacity /\ Len(t.next) = Capacity /\ Len(t.releases) = 0
      /\ \A i \in 1..Capacity : t.next[i] = Nobody =>
              \E k \in 1..Len(t.releases) : t.releases[k].seat = i
      /\ \A i \in 1..Capacity : t.users[i] \notin t.departed => t.next[i] = t.users[i]
  BY <1>1 DEF CallBreakSeats
<1>3. \A i \in 1..Capacity : t.next[i] # Nobody
  BY <1>2
<1>4. t.next # << >> /\ Seats(t) = t.next
  BY <1>1, <1>2 DEF Seats
<1>5. ToSet(t.next) \cap {Nobody} = {}
  BY <1>1, <1>2, <1>3, Members
<1>6. Without(t.next, {Nobody}) = t.next
  BY <1>1, <1>5, Left
<1> QED BY <1>2, <1>4, <1>6

\* A Call Break player who goes on sits in the next match where he sat in the last one,
\* whatever seats were given up, offered and taken in between: turn order and deal rest on it.
THEOREM SeatsContinue == Spec => ContinuingKeepSeats
<1>1. ASSUME Inv, [Next]_vars, NEW g \in Games, NEW n \in Games, tables[n] = NoTable,
             tables'[n] # NoTable, tables'[n].previous = g, tables[g].kind = "callbreak",
             NEW i \in 1..Len(tables[g].users), tables[g].users[i] \notin tables[g].departed
      PROVE  i <= Len(tables'[n].users) /\ tables'[n].users[i] = tables[g].users[i]
  <2>1. tables \in [Games -> Table \cup {NoTable}] /\ n \notin Hosted
    BY <1>1 DEF Inv, Places, Hosted
  <2>2. ~ \E u \in Users, kind \in Kinds : Create(u, kind)
    <3> SUFFICES ASSUME NEW u \in Users, NEW kind \in Kinds, Create(u, kind) PROVE FALSE
      OBVIOUS
    <3>1. Occupied(u) \subseteq Hosted
      BY DEF Occupied
    <3>2. tables'[n] = IF n = NextGame THEN NewTable(u, NextGame, kind) ELSE tables[n]
      BY <2>1, <3>1 DEF Create
    <3>3. NewTable(u, NextGame, kind).previous = 0
      BY DEF NewTable
    <3> QED BY <1>1, <3>2, <3>3 DEF Games
  <2>3. PICK h \in Games : \E u \in Users : Unlocked(h) /\ NextMatch(u, h, Now(h))
    BY <1>1, <2>2, NoneAppears
  <2>4. PICK u \in Users : Unlocked(h) /\ NextMatch(u, h, Now(h))
    BY <2>3
  <2> DEFINE t == Now(h)
             s == Successor(t, u, NextGame, h)
  <2>5. h \in Hosted
    BY <2>4 DEF Unlocked, Hosted
  <2>6. AdvanceMakes(tables[h], t) /\ Proper(t)
    BY <1>1, <2>5, NowFacts
  <2>7. /\ ~t.ended /\ t.phase = "COMPLETED" /\ t.releases = << >> /\ NextGame \in Games
        /\ tables' = [tables EXCEPT ![h] = [t EXCEPT !.ended = TRUE, !.reserved = FALSE],
                                    ![NextGame] = Advanced(s)]
    BY <2>4 DEF NextMatch, Successor
  <2> HIDE DEF t
  <2>8. /\ Proper(s) /\ s.kind = t.kind /\ s.previous = h /\ s.users = Without(Seats(t), {Nobody})
    <3>1. Proper(t) /\ NextGame \in Games
      BY <2>6, <2>7
    <3> DEFINE k == NextGame
    <3>2. Proper(t) /\ k \in Games
      BY <3>1
    <3> HIDE DEF k
    <3> DEFINE y == Successor(t, u, k, h)
    <3>3. Proper(y)
      BY <3>2, SuccessorFacts
    <3>4. y.kind = t.kind /\ y.previous = h
      BY <3>2, SuccessorFacts
    <3>5. y.users = Without(Seats(t), {Nobody})
      BY DEF Successor, NewTable
    <3> QED BY <3>3, <3>4, <3>5 DEF k
  <2> HIDE DEF s
  <2>9. AdvanceMakes(s, Advanced(s))
    BY <2>8, AdvancedFacts
  <2>10. n = NextGame /\ tables'[n] = Advanced(s)
    BY <1>1, <2>1, <2>5, <2>7
  <2>11. h = g
    BY <1>1, <2>8, <2>9, <2>10 DEF AdvanceMakes, Kept
  <2>12. /\ t.kind = "callbreak" /\ t.departed = tables[g].departed /\ t.users = tables[g].users
    BY <1>1, <2>6, <2>11 DEF AdvanceMakes, Kept
  <2>13. tables'[n].users = t.next
    BY <2>6, <2>7, <2>8, <2>9, <2>10, <2>12, AllSeated DEF AdvanceMakes
  <2>14. Len(t.users) = Len(t.next) /\ t.next[i] = t.users[i]
    BY <1>1, <2>6, <2>7, <2>12, AllSeated
  <2>15. t.users \in Seq(Users) /\ Len(t.users) \in Nat
    BY <2>6 DEF Proper, Table
  <2> QED BY <1>1, <2>12, <2>13, <2>14, <2>15
<1>2. Inv /\ [Next]_vars =>
        [\A g, n \in Games :
           tables[n] = NoTable /\ tables'[n] # NoTable /\ tables'[n].previous = g =>
             \A i \in 1..Len(tables[g].users) :
               tables[g].kind = "callbreak" /\ tables[g].users[i] \notin tables[g].departed =>
                 i <= Len(tables'[n].users) /\ tables'[n].users[i] = tables[g].users[i]]_vars
  BY <1>1
<1> QED BY <1>2, Invariant, PTL DEF Spec, ContinuingKeepSeats
================================================================================
