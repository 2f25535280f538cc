--------------------------- MODULE FlushRoundProofs ---------------------------
(***************************************************************************)
(* The minima of a Flush round never fall, the pot goes to the best hand   *)
(* that stayed in, and no command leaves a state that the engine's audit   *)
(* refuses: for any players, any rules that the code accepts, any hands    *)
(* and bets of any size.                                                   *)
(***************************************************************************)
EXTENDS FlushRound, DataLemmas, TLAPS

-------------------------------------------------------------------------------
(* Division, rounded down and rounded up *)

LEMMA Quotient ==
    ASSUME NEW a \in Nat, NEW m \in Nat \ {0}
    PROVE  a \div m \in Nat /\ m * (a \div m) <= a /\ a < m * (a \div m) + m
<1>1. a % m \in 0..(m - 1)
  OBVIOUS
<1>2. a = m * (a \div m) + (a % m)
  OBVIOUS
<1> QED BY <1>1, <1>2

\* If q multiples of m fit into a, and a is less than p + 1 of them, then q is at most p.
LEMMA Multiples ==
    ASSUME NEW q \in Nat, NEW p \in Nat, NEW m \in Nat \ {0}, NEW a \in Nat, NEW b \in Nat,
           a <= b, m * q <= a, b < m * p + m
    PROVE  q <= p
<1>1. m * q < m * p + m /\ m * p + m = m * (p + 1)
  OBVIOUS
<1>2. CASE p + 1 <= q
  <2>1. PICK d \in Nat : q = p + 1 + d
    BY <1>2
  <2>2. m * q = m * (p + 1) + m * d /\ m * d \in Nat
    BY <2>1
  <2> QED BY <1>1, <2>2
<1> QED BY <1>2

LEMMA QuotientMonotone ==
    ASSUME NEW m \in Nat \ {0}, NEW a \in Nat, NEW b \in Nat, a <= b
    PROVE  a \div m <= b \div m
<1>1. a \div m \in Nat /\ m * (a \div m) <= a
  BY Quotient
<1>2. b \div m \in Nat /\ b < m * (b \div m) + m
  BY Quotient
<1> QED BY <1>1, <1>2, Multiples

\* The least number of which m make at least a.
RoundedUp(a, m) == (a + m - 1) \div m

LEMMA RoundedUpFacts ==
    ASSUME NEW a \in Nat, NEW m \in Nat \ {0}
    PROVE  RoundedUp(a, m) \in Nat /\ a <= m * RoundedUp(a, m)
<1>1. a + m - 1 \in Nat
  OBVIOUS
<1>2. a + m - 1 < m * ((a + m - 1) \div m) + m /\ (a + m - 1) \div m \in Nat
  BY <1>1, Quotient
<1>3. m * ((a + m - 1) \div m) \in Nat
  BY <1>2
<1> QED BY <1>2, <1>3 DEF RoundedUp

LEMMA RoundedUpMonotone ==
    ASSUME NEW m \in Nat \ {0}, NEW a \in Nat, NEW b \in Nat, a <= b
    PROVE  RoundedUp(a, m) <= RoundedUp(b, m)
<1>1. a + m - 1 \in Nat /\ b + m - 1 \in Nat /\ a + m - 1 <= b + m - 1
  OBVIOUS
<1> QED BY <1>1, QuotientMonotone DEF RoundedUp

\* A multiple of m is not rounded.
LEMMA RoundedUpProduct ==
    ASSUME NEW m \in Nat \ {0}, NEW a \in Nat
    PROVE  a * m \in Nat /\ RoundedUp(a * m, m) = a
<1> DEFINE b == a * m + m - 1
<1> DEFINE q == b \div m
<1>1. a * m \in Nat /\ b \in Nat /\ m * a = a * m
  OBVIOUS
<1>2. m * a <= b /\ b < m * a + m
  BY <1>1
<1>3. q \in Nat /\ m * q <= b /\ b < m * q + m
  BY <1>1, Quotient
<1> HIDE DEF b, q
<1>4. a <= q
  BY <1>1, <1>2, <1>3, Multiples
<1>5. q <= a
  BY <1>1, <1>2, <1>3, Multiples
<1>6. q = a
  BY <1>3, <1>4, <1>5
<1> QED BY <1>1, <1>6 DEF RoundedUp, b, q

\* A bet of at least the minimum leaves both minima where they were or higher.
LEMMA BetKeepsMinima ==
    ASSUME NEW m \in Nat \ {0}, NEW seenMin \in Nat, NEW blindMin \in Nat,
           blindMin = RoundedUp(seenMin, m),
           NEW seen, NEW amount \in Nat, amount >= IF seen THEN seenMin ELSE blindMin,
           NEW least, least = IF seen THEN amount ELSE amount * m
    PROVE  /\ least \in Nat /\ least >= seenMin
           /\ RoundedUp(least, m) \in Nat /\ RoundedUp(least, m) >= blindMin
<1>1. least \in Nat
  BY RoundedUpProduct
<1>2. RoundedUp(least, m) \in Nat
  BY <1>1, RoundedUpFacts
<1>3. CASE seen
  <2>1. least \in Nat /\ seenMin <= least
    BY <1>3
  <2> QED BY <1>2, <2>1, RoundedUpMonotone
<1>4. CASE ~seen
  <2>1. least = amount * m
    BY <1>4
  <2>2. amount <= RoundedUp(least, m) /\ blindMin <= amount
    BY <1>4, <2>1, RoundedUpProduct
  <2>3. seenMin <= m * blindMin
    BY RoundedUpFacts
  <2>4. PICK d \in Nat : amount = blindMin + d
    <3>1. amount - blindMin \in Nat /\ amount = blindMin + (amount - blindMin)
      BY <2>2
    <3> QED BY <3>1
  <2>5. least = m * blindMin + m * d /\ m * d \in Nat /\ m * blindMin \in Nat
    BY <2>1, <2>4
  <2> QED BY <1>1, <1>2, <2>1, <2>2, <2>3, <2>5
<1> QED BY <1>3, <1>4

-------------------------------------------------------------------------------
(* The invariant *)

\* A state has the fields of FlushGameState.
Fields == {"rules", "ids", "dealer", "status", "turn", "player", "blindBet", "seenBet", "pot",
           "show", "side", "revealed", "sideShows", "settlement", "net"}
Shaped(s) == s = [f \in Fields |-> s[f]]

\* The blind minimum is what the seen one is worth, rounded up.
MinimaAgree(s) ==
    /\ {s.blindBet, s.seenBet} \subseteq Nat
    /\ s.blindBet = RoundedUp(s.seenBet, s.rules.multiplier)

\* StakesNeverFall is not inductive by itself: whether a bet keeps both minima depends
\* on how they are related.
StakesInv ==
    /\ Shaped(state)
    /\ state.rules \in RuleSets
    /\ state.status = "IN_PROGRESS" => MinimaAgree(state)

\* A step that leaves the rules and the minima alone, or the round.
Keeps(s, t) ==
    /\ Shaped(t)
    /\ t.rules = s.rules
    /\ t.status = "IN_PROGRESS" =>
         /\ s.status = "IN_PROGRESS"
         /\ t.blindBet = s.blindBet
         /\ t.seenBet = s.seenBet

StakesRise == state.status = "IN_PROGRESS" /\ state'.status = "IN_PROGRESS"
                => state'.blindBet >= state.blindBet /\ state'.seenBet >= state.seenBet

LEMMA KeepsStakes ==
    ASSUME StakesInv, Keeps(state, state')
    PROVE  StakesInv' /\ StakesRise
  BY DEF StakesInv, Keeps, MinimaAgree, StakesRise

LEMMA NewStateShaped ==
    ASSUME NEW ruleSet, NEW ids, NEW dealer, NEW status, NEW turn
    PROVE  LET s == NewState(ruleSet, ids, dealer, status, turn)
           IN  Shaped(s) /\ s.rules = ruleSet /\ s.status = status
  BY DEF NewState, Shaped, Fields

LEMMA FoldedKeeps ==
    ASSUME NEW s, Shaped(s), NEW p
    PROVE  Keeps(s, Folded(s, p)) /\ Folded(s, p).status = s.status
<1> DEFINE players == [s.player EXCEPT ![p] = [s.player[p] EXCEPT !.folded = TRUE]]
<1>1. Folded(s, p) = [s EXCEPT !.player = players]
  BY DEF Folded
<1> HIDE DEF players
<1> QED BY <1>1 DEF Shaped, Fields, Keeps

LEMMA WithTurnKeeps ==
    ASSUME NEW s, Shaped(s), NEW p
    PROVE  Keeps(s, WithTurn(s, p))
  BY DEF Shaped, Fields, Keeps, WithTurn

LEMMA PaysKeeps ==
    ASSUME NEW s, Shaped(s), NEW p, NEW amount
    PROVE  Keeps(s, Pays(s, p, amount))
<1> DEFINE players == [s.player EXCEPT ![p] = [s.player[p] EXCEPT !.paid = s.player[p].paid + amount]]
<1>1. Pays(s, p, amount) = [s EXCEPT !.player = players, !.pot = s.pot + amount]
  BY DEF Pays
<1> HIDE DEF players
<1> QED BY <1>1 DEF Shaped, Fields, Keeps

LEMMA FinishedKeeps ==
    ASSUME NEW s, Shaped(s), NEW requester
    PROVE  Keeps(s, Finished(Settled(s, requester)))
<1> DEFINE t == Settled(s, requester)
<1>1. Shaped(t) /\ t.rules = s.rules /\ t.status = "FINISHED"
  BY DEF Shaped, Fields, Settled
<1> HIDE DEF t
<1>2. Shaped(Finished(t)) /\ Finished(t).rules = t.rules /\ Finished(t).status = t.status
  BY <1>1 DEF Shaped, Fields, Finished
<1> QED BY <1>1, <1>2 DEF Keeps, t

LEMMA KeepsTransitive ==
    ASSUME NEW s, NEW t, NEW u, Keeps(s, t), Keeps(t, u)
    PROVE  Keeps(s, u)
  BY DEF Keeps

LEMMA Initially == RoundInit => StakesInv
<1> SUFFICES ASSUME RoundInit PROVE StakesInv
  OBVIOUS
<1>1. PICK ruleSet, ids, dealer : /\ ruleSet \in RuleSets
                                   /\ state = NewState(ruleSet, ids, dealer, "WAITING", None)
  BY DEF RoundInit
<1> QED BY <1>1, NewStateShaped DEF StakesInv

-------------------------------------------------------------------------------
(* The steps *)

LEMMA SeeCardsKeeps == ASSUME NEW p, StakesInv, SeeCards(p) PROVE Keeps(state, state')
<1> DEFINE players == [state.player EXCEPT ![p] = [state.player[p] EXCEPT !.seen = TRUE]]
<1>1. state' = [state EXCEPT !.player = players]
  BY DEF SeeCards
<1> HIDE DEF players
<1> QED BY <1>1 DEF StakesInv, Shaped, Fields, Keeps

LEMMA FoldKeeps == ASSUME NEW p, StakesInv, Fold(p) PROVE Keeps(state, state')
<1> DEFINE s == Folded(state, p)
<1>1. Keeps(state, s) /\ Shaped(s)
  BY FoldedKeeps DEF StakesInv, Keeps
<1>2. \/ state' = Finished(Settled(s, None))
      \/ state' = WithTurn(s, NextSeat(s))
  BY DEF Fold
<1> HIDE DEF s
<1>3. Keeps(s, state')
  BY <1>1, <1>2, FinishedKeeps, WithTurnKeeps
<1> QED BY <1>1, <1>3, KeepsTransitive

LEMMA FoldForLeaveKeeps == ASSUME NEW p, StakesInv, FoldForLeave(p) PROVE Keeps(state, state')
<1> DEFINE s == Folded(state, p)
           ends == /\ state.side # None
                   /\ \/ p \in {state.side.requester, state.side.target}
                      \/ Cardinality(Active(s)) < 3
           freed == IF ends THEN [s EXCEPT !.side = None, !.turn = state.side.requester] ELSE s
<1>1. Keeps(state, s) /\ Shaped(s)
  BY FoldedKeeps DEF StakesInv, Keeps
<1>2. \/ state' = Finished(Settled(freed, None))
      \/ state' = WithTurn(freed, NextSeat(freed))
      \/ state' = freed
  BY DEF FoldForLeave
<1> HIDE DEF s, ends
<1>3. Keeps(s, freed) /\ Shaped(freed)
  BY <1>1 DEF Shaped, Fields, Keeps
<1> HIDE DEF freed
<1>4. Keeps(freed, state')
  <2>1. Keeps(freed, freed)
    BY <1>3 DEF Keeps
  <2> QED BY <1>2, <1>3, <2>1, FinishedKeeps, WithTurnKeeps
<1> QED BY <1>1, <1>3, <1>4, KeepsTransitive

LEMMA ShowKeeps == ASSUME NEW p, StakesInv, ShowCards(p) PROVE Keeps(state, state')
<1> DEFINE s == Pays(state, p, ShowCost(state, p))
<1>1. Keeps(state, s) /\ Shaped(s)
  BY PaysKeeps DEF StakesInv, Keeps
<1>2. PICK target, show : state' = [s EXCEPT !.show = show, !.revealed = {p}, !.turn = target]
  BY DEF ShowCards
<1> HIDE DEF s
<1>3. Keeps(s, state')
  BY <1>1, <1>2 DEF Shaped, Fields, Keeps
<1> QED BY <1>1, <1>3, KeepsTransitive

LEMMA RespondShowKeeps ==
    ASSUME NEW p, NEW reveal, StakesInv, RespondShow(p, reveal)
    PROVE  Keeps(state, state')
<1>1. PICK s, requester : /\ s = state \/ s = Folded(state, p)
                          /\ state' = Finished(Settled(s, requester))
  BY DEF RespondShow
<1>2. Keeps(state, s) /\ Shaped(s)
  BY <1>1, FoldedKeeps DEF StakesInv, Keeps
<1> QED BY <1>1, <1>2, FinishedKeeps, KeepsTransitive

LEMMA RequestSideShowKeeps ==
    ASSUME NEW p, StakesInv, RequestSideShow(p)
    PROVE  Keeps(state, state')
<1> DEFINE s == Pays(state, p, RequiredBet(state, p))
<1>1. Keeps(state, s) /\ Shaped(s)
  BY PaysKeeps DEF StakesInv, Keeps
<1>2. PICK target, side : state' = [s EXCEPT !.player[p].bets = @ + 1, !.side = side, !.turn = target]
  BY DEF RequestSideShow
<1> HIDE DEF s
<1> DEFINE players == [s.player EXCEPT ![p] = [s.player[p] EXCEPT !.bets = s.player[p].bets + 1]]
<1>3. state' = [s EXCEPT !.player = players, !.side = side, !.turn = target]
  BY <1>2
<1> HIDE DEF players
<1>4. Keeps(s, state')
  BY <1>1, <1>3 DEF Shaped, Fields, Keeps
<1> QED BY <1>1, <1>4, KeepsTransitive

LEMMA RespondSideShowKeeps ==
    ASSUME NEW p, NEW accept, StakesInv, RespondSideShow(p, accept)
    PROVE  Keeps(state, state')
<1> DEFINE closed == [state EXCEPT !.side = None, !.turn = state.side.requester]
<1>1. PICK loser, sideShows, s :
        /\ s = closed \/ s = [Folded(closed, loser) EXCEPT !.sideShows = sideShows]
        /\ state' = WithTurn(s, NextSeat(s))
  BY DEF RespondSideShow
<1>2. Keeps(state, closed) /\ Shaped(closed)
  BY DEF StakesInv, Shaped, Fields, Keeps
<1> HIDE DEF closed
<1> DEFINE folded == Folded(closed, loser)
<1>3. Keeps(closed, folded) /\ Shaped(folded)
  BY <1>2, FoldedKeeps DEF Keeps
<1> HIDE DEF folded
<1>4. LET t == [folded EXCEPT !.sideShows = sideShows] IN Keeps(folded, t)
  BY <1>3 DEF Shaped, Fields, Keeps
<1>5. Keeps(state, s) /\ Shaped(s)
  BY <1>1, <1>2, <1>3, <1>4, KeepsTransitive DEF Keeps, folded
<1> QED BY <1>1, <1>5, WithTurnKeeps, KeepsTransitive

\* The deal sets both minima; there is no round yet in which they could fall.
LEMMA CompleteDealStarts ==
    ASSUME NEW p, NEW hands, StakesInv, CompleteDeal(p, hands)
    PROVE  StakesInv' /\ StakesRise
<1> DEFINE r == state.rules
<1>1. r.initialBlind \in Nat /\ r.multiplier \in Nat \ {0}
  BY RulesAssumption DEF StakesInv
<1>2. PICK players, pot, turn :
        state' = [state EXCEPT !.status = "IN_PROGRESS", !.turn = turn, !.player = players,
                               !.blindBet = r.initialBlind,
                               !.seenBet = r.initialBlind * r.multiplier, !.pot = pot]
  BY DEF CompleteDeal
<1>3. /\ Shaped(state') /\ state'.rules = r
      /\ state'.blindBet = r.initialBlind
      /\ state'.seenBet = r.initialBlind * r.multiplier
  BY <1>2 DEF StakesInv, Shaped, Fields
<1>4. MinimaAgree(state')
  BY <1>1, <1>3, RoundedUpProduct DEF MinimaAgree
<1>5. state.status # "IN_PROGRESS"
  BY DEF CompleteDeal
<1> QED BY <1>3, <1>4, <1>5 DEF StakesInv, StakesRise

LEMMA BetRaises ==
    ASSUME NEW p, NEW raise \in 0..MaxRaise, StakesInv,
           Bet(p, RequiredBet(state, p) + raise)
    PROVE  StakesInv' /\ StakesRise
<1> DEFINE m == state.rules.multiplier
           seen == state.player[p].seen
           minimum == IF seen THEN state.seenBet ELSE state.blindBet
           amount == minimum + raise
           least == IF seen THEN amount ELSE amount * m
           s == Pays(state, p, amount)
<1>1. m \in Nat \ {0} /\ state.status = "IN_PROGRESS" /\ MinimaAgree(state)
  BY RulesAssumption DEF StakesInv, Bet, HasTurn
<1>2. amount \in Nat /\ amount >= minimum
  BY <1>1, BoundsAssumption DEF MinimaAgree
<1>3. /\ least \in Nat /\ least >= state.seenBet
      /\ RoundedUp(least, m) \in Nat /\ RoundedUp(least, m) >= state.blindBet
  BY <1>1, <1>2, BetKeepsMinima DEF MinimaAgree
<1>4. Shaped(s) /\ s.rules = state.rules
  BY PaysKeeps DEF StakesInv, Keeps
<1>5. RequiredBet(state, p) = minimum
  BY DEF RequiredBet
<1> DEFINE counted == [s EXCEPT !.player[p].bets = @ + 1]
           bettor == [counted EXCEPT !.player[p].blindBets = @ + (IF seen THEN 0 ELSE 1)]
           paid == [s EXCEPT !.player[p].bets = @ + 1,
                             !.player[p].blindBets = @ + (IF seen THEN 0 ELSE 1),
                             !.seenBet = least,
                             !.blindBet = RoundedUp(least, m)]
<1>6. state' = WithTurn(paid, NextSeat(paid))
  BY <1>5 DEF Bet, RoundedUp
<1> HIDE DEF s, least, m
<1>7. /\ Shaped(state') /\ state'.rules = state.rules
      /\ state'.seenBet = least /\ state'.blindBet = RoundedUp(least, m)
  <2> DEFINE raised == [bettor EXCEPT !.seenBet = least]
  <2>0. paid = [raised EXCEPT !.blindBet = RoundedUp(least, m)]
    OBVIOUS
  <2>1. Shaped(counted) /\ counted.rules = state.rules
    BY <1>4 DEF Shaped, Fields
  <2> HIDE DEF counted
  <2>2. Shaped(bettor) /\ bettor.rules = state.rules
    BY <2>1 DEF Shaped, Fields
  <2> HIDE DEF bettor, paid
  <2>3. /\ Shaped(paid) /\ paid.rules = state.rules
        /\ paid.seenBet = least /\ paid.blindBet = RoundedUp(least, m)
    BY <2>0, <2>2 DEF Shaped, Fields
  <2> QED BY <1>6, <2>3 DEF WithTurn, Shaped, Fields
<1>8. MinimaAgree(state')
  BY <1>3, <1>7 DEF MinimaAgree, m
<1> QED BY <1>3, <1>7, <1>8 DEF StakesInv, StakesRise

LEMMA NextKeepsStakes == StakesInv /\ [RoundNext]_state => StakesInv' /\ [StakesRise]_state
<1> SUFFICES ASSUME StakesInv, [RoundNext]_state PROVE StakesInv' /\ [StakesRise]_state
  OBVIOUS
<1>1. CASE UNCHANGED state
  BY <1>1 DEF StakesInv
<1>2. CASE StartGame
  <2>1. Keeps(state, state')
    BY <1>2 DEF StartGame, StakesInv, Shaped, Fields, Keeps
  <2> QED BY <2>1, KeepsStakes
<1>3. ASSUME NEW ids \in RosterSeqs, NEW creator \in PlayerIds, PrepareNextRound(ids, creator)
      PROVE  StakesInv' /\ StakesRise
  <2>1. PICK dealer : state' = NewState(state.rules, ids, dealer, "AWAITING_DEAL", dealer)
    BY <1>3 DEF PrepareNextRound
  <2>2. Keeps(state, state')
    BY <2>1, NewStateShaped DEF Keeps
  <2> QED BY <2>2, KeepsStakes
<1>4. ASSUME NEW p \in Roster(state), DealCards(p)
      PROVE  StakesInv' /\ StakesRise
  <2>1. Keeps(state, state')
    BY <1>4 DEF DealCards, StakesInv, Shaped, Fields, Keeps
  <2> QED BY <2>1, KeepsStakes
<1>5. ASSUME NEW p \in Roster(state), NEW hands, CompleteDeal(p, hands)
      PROVE  StakesInv' /\ StakesRise
  BY <1>5, CompleteDealStarts
<1>6. ASSUME NEW p \in Roster(state), NEW raise \in 0..MaxRaise,
             Bet(p, RequiredBet(state, p) + raise)
      PROVE  StakesInv' /\ StakesRise
  BY <1>6, BetRaises
<1>7. ASSUME NEW p \in Roster(state),
             \/ SeeCards(p) \/ Fold(p) \/ FoldForLeave(p) \/ ShowCards(p) \/ RequestSideShow(p)
             \/ \E reveal \in BOOLEAN : RespondShow(p, reveal)
             \/ \E accept \in BOOLEAN : RespondSideShow(p, accept)
      PROVE  StakesInv' /\ StakesRise
  <2>1. Keeps(state, state')
    BY <1>7, SeeCardsKeeps, FoldKeeps, FoldForLeaveKeeps, ShowKeeps, RequestSideShowKeeps,
       RespondShowKeeps, RespondSideShowKeeps
  <2> QED BY <2>1, KeepsStakes
<1> QED BY <1>1, <1>2, <1>3, <1>4, <1>5, <1>6, <1>7 DEF RoundNext

\* Within a round neither minimum ever falls (bet, flush/engine.py), for every
\* multiplier and first bet, and bets of every size.
THEOREM StakesOnlyRise == RoundSpec => StakesNeverFall
<1>1. RoundInit => StakesInv
  BY Initially
<1>2. StakesInv /\ [RoundNext]_state => StakesInv' /\ [StakesRise]_state
  BY NextKeepsStakes
<1> QED BY <1>1, <1>2, PTL DEF RoundSpec, StakesNeverFall, StakesRise

-------------------------------------------------------------------------------
(* Who is left, and with what *)

\* The strongest of some hands.
LEMMA GreatestNumber ==
    ASSUME NEW n \in Nat, NEW T \in SUBSET (0..n), T # {}
    PROVE  \E x \in T : \A y \in T : x >= y
<1> DEFINE D == {n - y : y \in T}
<1>1. D \in SUBSET (0..n) /\ D # {}
  <2>1. \A y \in T : n - y \in 0..n
    OBVIOUS
  <2> QED BY <2>1
<1>2. PICK d \in D : \A e \in D : d <= e
  <2> HIDE DEF D
  <2> QED BY <1>1, LeastNumber
<1>3. PICK x \in T : d = n - x
  BY <1>2
<1>4. ASSUME NEW y \in T PROVE x >= y
  <2>1. n - x <= n - y
    BY <1>2, <1>3
  <2>2. x \in Int /\ y \in Int
    OBVIOUS
  <2> QED BY <2>1, <2>2
<1> QED BY <1>4

LEMMA Division ==
    ASSUME NEW x \in Nat, NEW n \in Nat \ {0}
    PROVE  x = n * (x \div n) + (x % n) /\ x \div n \in Int
  OBVIOUS

\* The seats that stand at different distances from a seat are different.
LEMMA Around ==
    ASSUME NEW n \in Nat \ {0}, NEW a \in 1..n, NEW j \in 1..n, NEW k \in 1..n,
           ((a - 1 + j + n) % n) = ((a - 1 + k + n) % n)
    PROVE  j = k
<1> DEFINE x == a - 1 + j + n
           y == a - 1 + k + n
<1>1. x \in Nat /\ y \in Nat /\ x - y = j - k
  OBVIOUS
<1>2. j - k < n /\ k - j < n
  OBVIOUS
<1> HIDE DEF x, y
<1>3. /\ x = n * (x \div n) + (x % n) /\ x \div n \in Int
      /\ y = n * (y \div n) + (y % n) /\ y \div n \in Int
  BY <1>1
<1>4. x % n = y % n /\ x % n \in Int
  BY <1>1 DEF x, y
<1> DEFINE d == (x \div n) - (y \div n)
<1>5. d \in Int /\ n * d = j - k
  BY <1>1, <1>3, <1>4
<1> HIDE DEF d
<1>6. ~(d >= 1)
  <2> SUFFICES ASSUME d >= 1 PROVE FALSE
    OBVIOUS
  <2>1. PICK e \in Nat : d = e + 1
    BY <1>5
  <2>2. n * d = n * e + n /\ n * e \in Nat
    BY <2>1
  <2> QED BY <1>2, <1>5, <2>2
<1>7. ~(d <= -1)
  <2> SUFFICES ASSUME d <= -1 PROVE FALSE
    OBVIOUS
  <2>1. PICK e \in Nat : d = -(e + 1)
    <3>1. -d - 1 \in Nat /\ d = -((-d - 1) + 1)
      BY <1>5
    <3> QED BY <3>1
  <2>2. n * d = -(n * e) - n /\ n * e \in Nat
    BY <2>1
  <2> QED BY <1>2, <1>5, <2>2
<1>8. d = 0
  BY <1>5, <1>6, <1>7
<1> QED BY <1>5, <1>8

PlayerFields == {"folded", "seen", "paid", "bets", "blindBets", "hand"}

\* What the players of a table have.
Seated(s, f) ==
    /\ f = [p \in Roster(s) |-> f[p]]
    /\ \A p \in Roster(s) : f[p] = [x \in PlayerFields |-> f[p][x]]

Table(s) ==
    /\ Shaped(s)
    /\ s.rules \in RuleSets
    /\ s.ids \in RosterSeqs
    /\ s.dealer \in Roster(s)
    /\ Seated(s, s.player)

\* The same players hold the same hands.
SameHands(s, t) ==
    /\ Table(t)
    /\ t.rules = s.rules
    /\ t.ids = s.ids
    /\ \A p \in Roster(s) : t.player[p].hand = s.player[p].hand

\* Everything else that a proof about hands asks of a state.
SameRest(s, t) ==
    /\ t.status = s.status
    /\ t.show = s.show
    /\ t.side = s.side
    /\ t.sideShows = s.sideShows

LEMMA RosterFacts ==
    ASSUME NEW ids \in RosterSeqs
    PROVE  /\ ids \in Seq(PlayerIds) /\ Len(ids) \in Nat \ {0} /\ DOMAIN ids = 1..Len(ids)
           /\ \A i, j \in 1..Len(ids) : ids[i] = ids[j] => i = j
           /\ IsFiniteSet(ToSet(ids)) /\ ToSet(ids) \subseteq PlayerIds
<1>1. Cardinality(PlayerIds) \in Nat
  BY PlayersAssumption, FS_CardinalityType
<1>2. PICK n \in 2..Cardinality(PlayerIds) : ids \in [1..n -> PlayerIds]
  BY DEF RosterSeqs
<1>3. n \in Nat \ {0}
  BY <1>1
<1>4. ids \in Seq(PlayerIds) /\ Len(ids) = n /\ DOMAIN ids = 1..n
  BY <1>2, <1>3
<1>5. \A i, j \in 1..n : ids[i] = ids[j] => i = j
  BY <1>4 DEF RosterSeqs, IsInjective
<1>6. ToSet(ids) \subseteq PlayerIds
  BY <1>4 DEF ToSet
<1>7. IsFiniteSet(ToSet(ids))
  BY <1>6, PlayersAssumption, FS_Subset
<1> QED BY <1>3, <1>4, <1>5, <1>6, <1>7

LEMMA ActiveFacts ==
    ASSUME NEW s, Table(s)
    PROVE  /\ Active(s) \subseteq Roster(s) /\ Roster(s) \subseteq PlayerIds
           /\ IsFiniteSet(Active(s)) /\ Cardinality(Active(s)) \in Nat
           /\ \A p \in Active(s) :
                Cardinality(Active(s) \ {p}) = Cardinality(Active(s)) - 1
<1>1. Active(s) \subseteq Roster(s)
  BY DEF Active
<1>2. IsFiniteSet(Roster(s)) /\ Roster(s) \subseteq PlayerIds
  BY RosterFacts DEF Table, Roster
<1>3. IsFiniteSet(Active(s))
  BY <1>1, <1>2, FS_Subset
<1> QED BY <1>1, <1>2, <1>3, FS_CardinalityType, FS_RemoveElement

LEMMA SameHandsTransitive ==
    ASSUME NEW s, NEW t, NEW u, SameHands(s, t), SameHands(t, u)
    PROVE  SameHands(s, u)
  BY DEF SameHands, Roster

\* A state whose players stay as they are.
LEMMA PlayersStay ==
    ASSUME NEW s, NEW t, Table(s), Shaped(t), t.rules = s.rules, t.ids = s.ids,
           t.dealer = s.dealer, t.player = s.player
    PROVE  SameHands(s, t) /\ Roster(t) = Roster(s) /\ Active(t) = Active(s)
  BY DEF Table, SameHands, Seated, Roster, Active

\* A state in which some players become others.
LEMMA PlayersBecome ==
    ASSUME NEW s, Table(s), NEW f, Seated(s, f),
           \A p \in Roster(s) : f[p].hand = s.player[p].hand
    PROVE  LET t == [s EXCEPT !.player = f] IN
           /\ SameHands(s, t) /\ SameRest(s, t) /\ Roster(t) = Roster(s)
           /\ Active(t) = {p \in Roster(s) : ~f[p].folded}
<1> DEFINE t == [s EXCEPT !.player = f]
<1>1. Shaped(t) /\ t.rules = s.rules /\ t.ids = s.ids /\ t.dealer = s.dealer /\ t.player = f
  BY DEF Table, Shaped, Fields
<1>2. SameRest(s, t)
  BY DEF Table, Shaped, Fields, SameRest
<1> HIDE DEF t
<1>3. Roster(t) = Roster(s)
  BY <1>1 DEF Roster
<1>4. SameHands(s, t)
  BY <1>1, <1>3 DEF Table, SameHands, Seated
<1>5. Active(t) = {p \in Roster(s) : ~f[p].folded}
  BY <1>1, <1>3 DEF Active
<1> QED BY <1>2, <1>3, <1>4, <1>5 DEF t

LEMMA FieldBecomes ==
    ASSUME NEW g, g = [x \in PlayerFields |-> g[x]], NEW field \in PlayerFields, NEW v
    PROVE  LET h == [g EXCEPT ![field] = v] IN
           /\ h = [x \in PlayerFields |-> h[x]]
           /\ h[field] = v
           /\ \A x \in PlayerFields \ {field} : h[x] = g[x]
  OBVIOUS

LEMMA FoldedHands ==
    ASSUME NEW s, Table(s), NEW p \in Roster(s)
    PROVE  LET t == Folded(s, p) IN
           /\ SameHands(s, t) /\ SameRest(s, t) /\ Roster(t) = Roster(s)
           /\ Active(t) = Active(s) \ {p}
<1> DEFINE f == [s.player EXCEPT ![p] = [s.player[p] EXCEPT !.folded = TRUE]]
<1>1. Folded(s, p) = [s EXCEPT !.player = f]
  BY DEF Folded
<1>2. /\ f = [q \in Roster(s) |-> f[q]]
      /\ f[p] = [s.player[p] EXCEPT !.folded = TRUE]
      /\ \A q \in Roster(s) \ {p} : f[q] = s.player[q]
  BY DEF Table, Seated
<1>0. s.player[p] = [x \in PlayerFields |-> s.player[p][x]]
  BY DEF Table, Seated
<1>9. {"folded", "paid", "hand"} \subseteq PlayerFields
  BY DEF PlayerFields
<1> HIDE DEF f
<1>3. /\ f[p] = [x \in PlayerFields |-> f[p][x]]
      /\ f[p].folded = TRUE /\ f[p].hand = s.player[p].hand
  BY <1>0, <1>2, <1>9, FieldBecomes
<1>7. \A q \in Roster(s) : /\ f[q] = [x \in PlayerFields |-> f[q][x]]
                            /\ f[q].hand = s.player[q].hand
  <2> SUFFICES ASSUME NEW q \in Roster(s)
               PROVE  f[q] = [x \in PlayerFields |-> f[q][x]] /\ f[q].hand = s.player[q].hand
    OBVIOUS
  <2>1. CASE q = p
    BY <1>3, <2>1
  <2>2. CASE q # p
    BY <1>2, <2>2 DEF Table, Seated
  <2> QED BY <2>1, <2>2
<1>4. Seated(s, f)
  BY <1>2, <1>7 DEF Seated
<1>5. {q \in Roster(s) : ~f[q].folded} = Active(s) \ {p}
  BY <1>2, <1>3 DEF Active
<1>8. \A q \in Roster(s) : f[q].hand = s.player[q].hand
  BY <1>7
<1> QED BY <1>1, <1>4, <1>5, <1>8, PlayersBecome

\* A player who pays, bets or looks at his cards keeps them.
LEMMA PaysHands ==
    ASSUME NEW s, Table(s), NEW p \in Roster(s), NEW amount
    PROVE  LET t == Pays(s, p, amount) IN
           /\ SameHands(s, t) /\ SameRest(s, t) /\ Roster(t) = Roster(s)
           /\ Active(t) = Active(s)
<1> DEFINE f == [s.player EXCEPT ![p] = [s.player[p] EXCEPT !.paid = s.player[p].paid + amount]]
           u == [s EXCEPT !.player = f]
           t == [u EXCEPT !.pot = s.pot + amount]
<1>1. Pays(s, p, amount) = t
  BY DEF Pays
<1>2. /\ f = [q \in Roster(s) |-> f[q]]
      /\ f[p] = [s.player[p] EXCEPT !.paid = s.player[p].paid + amount]
      /\ \A q \in Roster(s) \ {p} : f[q] = s.player[q]
  BY DEF Table, Seated
<1>0. s.player[p] = [x \in PlayerFields |-> s.player[p][x]]
  BY DEF Table, Seated
<1>9. {"folded", "paid", "hand"} \subseteq PlayerFields
  BY DEF PlayerFields
<1> HIDE DEF f
<1>3. /\ f[p] = [x \in PlayerFields |-> f[p][x]]
      /\ f[p].folded = s.player[p].folded /\ f[p].hand = s.player[p].hand
  BY <1>0, <1>2, <1>9, FieldBecomes
<1>4. Seated(s, f) /\ \A q \in Roster(s) : f[q].hand = s.player[q].hand
  BY <1>2, <1>3 DEF Table, Seated
<1>5. {q \in Roster(s) : ~f[q].folded} = Active(s)
  BY <1>2, <1>3 DEF Active
<1>6. /\ SameHands(s, u) /\ SameRest(s, u) /\ Roster(u) = Roster(s) /\ Active(u) = Active(s)
  BY <1>4, <1>5, PlayersBecome
<1> HIDE DEF u
<1>7. Shaped(t) /\ t.rules = u.rules /\ t.ids = u.ids /\ t.dealer = u.dealer
      /\ t.player = u.player /\ SameRest(u, t)
  BY <1>6 DEF SameHands, Table, Shaped, Fields, SameRest
<1> HIDE DEF t
<1>8. SameHands(u, t) /\ Roster(t) = Roster(u) /\ Active(t) = Active(u)
  BY <1>6, <1>7, PlayersStay DEF SameHands
<1> QED BY <1>1, <1>6, <1>7, <1>8, SameHandsTransitive DEF SameRest

\* The same for any other field of a player that is neither his hand nor his fold.
LEMMA CountedHands ==
    ASSUME NEW s, Table(s), NEW p \in Roster(s),
           NEW field \in PlayerFields \ {"folded", "hand"}, NEW v
    PROVE  LET t == [s EXCEPT !.player = [s.player EXCEPT ![p] = [s.player[p] EXCEPT ![field] = v]]]
           IN  /\ SameHands(s, t) /\ SameRest(s, t) /\ Roster(t) = Roster(s)
               /\ Active(t) = Active(s)
<1> DEFINE f == [s.player EXCEPT ![p] = [s.player[p] EXCEPT ![field] = v]]
<1>2. /\ f = [q \in Roster(s) |-> f[q]]
      /\ f[p] = [s.player[p] EXCEPT ![field] = v]
      /\ \A q \in Roster(s) \ {p} : f[q] = s.player[q]
  BY DEF Table, Seated
<1>0. s.player[p] = [x \in PlayerFields |-> s.player[p][x]]
  BY DEF Table, Seated
<1>9. {"folded", "paid", "hand"} \subseteq PlayerFields
  BY DEF PlayerFields
<1> HIDE DEF f
<1>3. /\ f[p] = [x \in PlayerFields |-> f[p][x]]
      /\ f[p].folded = s.player[p].folded /\ f[p].hand = s.player[p].hand
  BY <1>0, <1>2, <1>9, FieldBecomes
<1>4. Seated(s, f) /\ \A q \in Roster(s) : f[q].hand = s.player[q].hand
  BY <1>2, <1>3 DEF Table, Seated
<1>5. {q \in Roster(s) : ~f[q].folded} = Active(s)
  BY <1>2, <1>3 DEF Active
<1> QED BY <1>4, <1>5, PlayersBecome DEF f

-------------------------------------------------------------------------------
(* The settlement *)

Circle(s) == [k \in 1..Len(s.ids) |-> Clockwise(s, s.dealer, k)]

LEMMA CircleFacts ==
    ASSUME NEW s, Table(s)
    PROVE  /\ Circle(s) \in Seq(Roster(s)) /\ Len(Circle(s)) = Len(s.ids)
           /\ \A j, k \in 1..Len(Circle(s)) : Circle(s)[j] = Circle(s)[k] => j = k
<1> DEFINE n == Len(s.ids)
           a == Seat(s, s.dealer)
           place(k) == ((a - 1 + k + n) % n) + 1
<1>1. /\ n \in Nat \ {0} /\ DOMAIN s.ids = 1..n
      /\ \A i, j \in 1..n : s.ids[i] = s.ids[j] => i = j
  BY RosterFacts DEF Table
<1>2. a \in 1..n
  BY <1>1 DEF Table, Roster, ToSet, Seat
<1>3. Circle(s) = [k \in 1..n |-> s.ids[place(k)]]
  BY DEF Circle, Clockwise
<1> HIDE DEF n, a
<1>4. ASSUME NEW k \in 1..n PROVE place(k) \in 1..n /\ a - 1 + k + n \in Nat
  BY <1>1, <1>2
<1>5. \A k \in 1..n : s.ids[place(k)] \in Roster(s)
  BY <1>1, <1>4 DEF Roster, ToSet
<1>6. ASSUME NEW j \in 1..n, NEW k \in 1..n, place(j) = place(k) PROVE j = k
  <2> DEFINE x == a - 1 + j + n
             y == a - 1 + k + n
  <2>1. x \in Nat /\ y \in Nat
    BY <1>4
  <2>2. (x % n) + 1 = (y % n) + 1
    BY <1>6
  <2> HIDE DEF x, y
  <2>3. x % n = y % n
    BY <1>1, <2>1, <2>2
  <2> QED BY <1>1, <1>2, <2>3, Around DEF x, y
<1>7. Circle(s) \in Seq(Roster(s)) /\ Len(Circle(s)) = n
  BY <1>1, <1>3, <1>5
<1>8. ASSUME NEW j \in 1..n, NEW k \in 1..n, Circle(s)[j] = Circle(s)[k] PROVE j = k
  <2>1. s.ids[place(j)] = s.ids[place(k)]
    BY <1>3, <1>8
  <2>2. place(j) \in 1..n /\ place(k) \in 1..n
    BY <1>4
  <2> HIDE DEF place
  <2>3. place(j) = place(k)
    BY <1>1, <2>1, <2>2
  <2> QED BY <1>6, <2>3
<1> QED BY <1>7, <1>8 DEF n

\* Who wins, as Settled has it.
Top(s) == {p \in Active(s) : s.player[p].hand = Max({s.player[q].hand : q \in Active(s)})}
Winners(s, requester) ==
    CASE requester = None -> Active(s)
      [] requester # None /\ Cardinality(Top(s)) > 1
           /\ s.rules.tie = "REQUESTER_LOSES" -> Top(s) \ {requester}
      [] OTHER -> Top(s)

\* A settlement ends the round and leaves the table and the side-shows as they are.
LEMMA SettledHands ==
    ASSUME NEW s, Table(s), NEW requester
    PROVE  LET t == Finished(Settled(s, requester)) IN
           /\ SameHands(s, t) /\ Active(t) = Active(s) /\ Roster(t) = Roster(s)
           /\ t.status = "FINISHED" /\ t.sideShows = s.sideShows
           /\ t.settlement.winners = Within(Circle(s), Winners(s, requester))
           /\ requester # None => t.settlement.reason = "SHOW"
<1> DEFINE u == Settled(s, requester)
<1>1. /\ Shaped(u) /\ u.rules = s.rules /\ u.ids = s.ids /\ u.dealer = s.dealer
      /\ u.player = s.player /\ u.status = "FINISHED" /\ u.sideShows = s.sideShows
  BY DEF Table, Shaped, Fields, Settled
<1>2. u.settlement.winners = Within(Circle(s), Winners(s, requester))
  BY DEF Table, Shaped, Fields, Settled, Winners, Top, Circle
<1>3. requester # None => u.settlement.reason = "SHOW"
  BY DEF Table, Shaped, Fields, Settled
<1> HIDE DEF u
<1> DEFINE t == Finished(u)
<1>4. /\ Shaped(t) /\ t.rules = u.rules /\ t.ids = u.ids /\ t.dealer = u.dealer
      /\ t.player = u.player /\ t.status = u.status /\ t.sideShows = u.sideShows
      /\ t.settlement = u.settlement
  BY <1>1 DEF Shaped, Fields, Finished
<1> HIDE DEF t
<1>5. SameHands(s, t) /\ Roster(t) = Roster(s) /\ Active(t) = Active(s)
  BY <1>1, <1>4, PlayersStay
<1> QED BY <1>1, <1>2, <1>3, <1>4, <1>5 DEF t, u

\* The winners in their order are the winners, and nobody twice.
LEMMA WinnersFacts ==
    ASSUME NEW s, Table(s), NEW W, W \subseteq Roster(s)
    PROVE  LET w == Within(Circle(s), W) IN
           /\ w \in Seq(Roster(s)) /\ ToSet(w) \subseteq W
           /\ Len(w) > 1 => \E x, y \in W : x # y
<1> DEFINE w == Within(Circle(s), W)
<1>1. /\ w \in Seq(Roster(s)) /\ Len(w) \in Nat
      /\ {w[k] : k \in 1..Len(w)} = {Circle(s)[i] : i \in 1..Len(Circle(s))} \cap W
      /\ \A i, j \in 1..Len(w) : w[i] = w[j] => i = j
  BY CircleFacts, WithinFacts
<1> HIDE DEF w
<1>2. ToSet(w) = {w[k] : k \in 1..Len(w)}
  BY <1>1 DEF ToSet
<1>3. ASSUME Len(w) > 1 PROVE \E x, y \in W : x # y
  <2>1. 1 \in 1..Len(w) /\ 2 \in 1..Len(w)
    BY <1>1, <1>3
  <2>2. w[1] # w[2] /\ w[1] \in W /\ w[2] \in W
    BY <1>1, <2>1
  <2> QED BY <2>2
<1> QED BY <1>1, <1>2, <1>3 DEF w

-------------------------------------------------------------------------------
(* The best hand *)

Hands(s) == \A p \in Roster(s) : s.player[p].hand \in 1..HandMax
Losers(s) == {r.loser : r \in s.sideShows}
OnlyLosersLeft(s) == Roster(s) \ Active(s) \subseteq Losers(s)

\* Whatever hand lost a side-show, one that is still played is as good.
StillMatched(s) ==
    OnlyLosersLeft(s) =>
        \A p \in Roster(s) : \E q \in Active(s) : s.player[p].hand <= s.player[q].hand

ShowOpen(s) ==
    /\ {s.show.requester, s.show.target} \subseteq Active(s)
    /\ Cardinality(Active(s)) = 2

SideOpen(s) ==
    /\ {s.side.requester, s.side.target} \subseteq Active(s)
    /\ s.side.requester # s.side.target

\* BestHandWins of a state.
BestWins(s) ==
    OnlyLosersLeft(s) =>
        /\ s.settlement.reason = "SHOW"
        /\ \A p \in Roster(s), w \in ToSet(s.settlement.winners) :
               s.player[p].hand <= s.player[w].hand
        /\ Len(s.settlement.winners) > 1 => s.rules.tie = "SPLIT"

LEMMA AtLeastTwo ==
    ASSUME NEW S, IsFiniteSet(S), NEW x \in S, NEW y \in S, x # y
    PROVE  Cardinality(S) \in Nat /\ Cardinality(S) >= 2
<1>1. /\ Cardinality(S) \in Nat
      /\ IsFiniteSet(S \ {x}) /\ Cardinality(S \ {x}) = Cardinality(S) - 1
  BY FS_CardinalityType, FS_RemoveElement
<1>2. y \in S \ {x}
  OBVIOUS
<1> DEFINE T == S \ {x}
<1> HIDE DEF T
<1>3. IsFiniteSet(T) /\ T # {}
  BY <1>1, <1>2 DEF T
<1>4. Cardinality(T) \in Nat /\ Cardinality(T) # 0
  BY <1>3, FS_CardinalityType, FS_EmptySet
<1> QED BY <1>1, <1>4 DEF T

LEMMA TopFacts ==
    ASSUME NEW s, Table(s), Hands(s), Active(s) # {}
    PROVE  \A w \in Top(s), p \in Active(s) : s.player[p].hand <= s.player[w].hand
<1> DEFINE M == {s.player[q].hand : q \in Active(s)}
<1>1. HandMax \in Nat
  BY BoundsAssumption
<1>2. M \in SUBSET (0..HandMax) /\ M # {}
  <2>1. \A q \in Active(s) : s.player[q].hand \in 0..HandMax
    BY <1>1, ActiveFacts DEF Hands
  <2> QED BY <2>1
<1>3. \A p \in Active(s) : s.player[p].hand \in M
  OBVIOUS
<1> HIDE DEF M
<1>4. \A y \in M : Max(M) >= y
  BY <1>1, <1>2, GreatestNumber DEF Max
<1>5. \A w \in Top(s) : s.player[w].hand = Max(M)
  BY DEF Top, M
<1>6. \A w \in Top(s), p \in Active(s) : s.player[w].hand >= s.player[p].hand
  BY <1>3, <1>4, <1>5
<1>7. \A p \in Active(s) : s.player[p].hand \in Int
  BY <1>1, <1>2, <1>3
<1>8. Top(s) \subseteq Active(s)
  BY DEF Top
<1> QED BY <1>6, <1>7, <1>8

LEMMA ShowIsBest ==
    ASSUME NEW s, Table(s), Hands(s), StillMatched(s), ShowOpen(s)
    PROVE  BestWins(Finished(Settled(s, s.show.requester)))
<1> DEFINE requester == s.show.requester
           W == Winners(s, requester)
           t == Finished(Settled(s, requester))
           w == t.settlement.winners
<1>1. requester \in Active(s) /\ requester # None
  BY ActiveFacts, PlayersAssumption DEF ShowOpen
<1>2. W \subseteq Top(s) /\ Top(s) \subseteq Active(s) /\ Active(s) \subseteq Roster(s)
  BY <1>1 DEF Winners, Top, Active
<1>3. /\ SameHands(s, t) /\ Active(t) = Active(s) /\ Roster(t) = Roster(s)
      /\ t.sideShows = s.sideShows /\ w = Within(Circle(s), W)
      /\ t.settlement.reason = "SHOW"
  BY <1>1, SettledHands
<1>4. ToSet(w) \subseteq W /\ (Len(w) > 1 => \E x, y \in W : x # y)
  BY <1>2, <1>3, WinnersFacts
<1> HIDE DEF t, W
<1>5. ASSUME OnlyLosersLeft(t), NEW p \in Roster(t), NEW v \in ToSet(w)
      PROVE  t.player[p].hand <= t.player[v].hand
  <2>1. OnlyLosersLeft(s)
    BY <1>3, <1>5 DEF OnlyLosersLeft, Losers
  <2>2. PICK q \in Active(s) : s.player[p].hand <= s.player[q].hand
    BY <1>3, <2>1 DEF StillMatched
  <2>3. v \in Top(s) /\ v \in Roster(s)
    BY <1>2, <1>4
  <2>4. s.player[q].hand <= s.player[v].hand
    BY <2>3, TopFacts
  <2>5. {s.player[p].hand, s.player[q].hand, s.player[v].hand} \subseteq Int
    <3>1. HandMax \in Int
      BY BoundsAssumption
    <3> QED BY <1>2, <1>3, <2>3, <3>1 DEF Hands
  <2>6. s.player[p].hand <= s.player[v].hand
    BY <2>2, <2>4, <2>5
  <2> QED BY <1>3, <2>3, <2>6 DEF SameHands
<1>6. ASSUME Len(w) > 1 PROVE t.rules.tie = "SPLIT"
  <2>1. PICK x, y \in W : x # y
    BY <1>4, <1>6
  <2>2. s.rules.tie \in {"REQUESTER_LOSES", "SPLIT"} /\ t.rules = s.rules
    BY <1>3, RulesAssumption DEF Table, SameHands
  <2>3. ASSUME s.rules.tie = "REQUESTER_LOSES" PROVE FALSE
    <3>1. IsFiniteSet(Active(s)) /\ Cardinality(Active(s) \ {requester}) = 1
      BY <1>1, ActiveFacts DEF ShowOpen
    <3>2. IsFiniteSet(Top(s)) /\ IsFiniteSet(Active(s) \ {requester})
      BY <1>2, <3>1, FS_Subset
    <3>3. Cardinality(Top(s)) > 1
      <4>1. Cardinality(Top(s)) \in Nat /\ Cardinality(Top(s)) >= 2
        BY <1>2, <2>1, <3>2, AtLeastTwo
      <4> QED BY <4>1
    <3>4. W = Top(s) \ {requester}
      BY <1>1, <2>3, <3>3 DEF W, Winners
    <3>5. x \in Active(s) \ {requester} /\ y \in Active(s) \ {requester}
      BY <1>2, <2>1, <3>4
    <3>6. Cardinality(Active(s) \ {requester}) >= 2
      BY <2>1, <3>2, <3>5, AtLeastTwo
    <3> QED BY <3>1, <3>6
  <2> QED BY <2>2, <2>3
<1>7. t.settlement.reason = "SHOW"
  BY <1>3
<1> QED BY <1>5, <1>6, <1>7 DEF BestWins, t

\* A round from which somebody else went is decided without the cards.
LEMMA LeaverIsNoLoser ==
    ASSUME NEW s, NEW t, NEW p \in Roster(s), Roster(t) = Roster(s),
           p \notin Active(t), p \notin Losers(t)
    PROVE  ~OnlyLosersLeft(t)
  BY DEF OnlyLosersLeft

-------------------------------------------------------------------------------
(* The steps, and the hands *)

Preparing(s) == s.status \in {"WAITING", "AWAITING_DEAL", "AWAITING_CUT"}

Playing(s) ==
    /\ Hands(s)
    /\ Losers(s) \cap Active(s) = {}
    /\ StillMatched(s)
    /\ s.show = None \/ s.side = None
    /\ s.show # None => ShowOpen(s)
    /\ s.side # None => SideOpen(s)

\* BestHandWins speaks of rounds that are over.  What makes it true is that until then every
\* hand that lost a side-show is matched by one that is still played.
HandsInv(s) ==
    /\ Table(s)
    /\ Preparing(s) => /\ Active(s) = Roster(s) /\ s.sideShows = {}
                       /\ s.show = None /\ s.side = None
    /\ s.status = "IN_PROGRESS" => Playing(s)
    /\ s.status = "FINISHED" => BestWins(s) /\ s.settlement.winners \in Seq(Roster(s))

LEMMA NewStateHands ==
    ASSUME NEW ruleSet \in RuleSets, NEW ids \in RosterSeqs, NEW dealer \in ToSet(ids),
           NEW status, status \notin {"IN_PROGRESS", "FINISHED"}, NEW turn
    PROVE  HandsInv(NewState(ruleSet, ids, dealer, status, turn))
<1> DEFINE s == NewState(ruleSet, ids, dealer, status, turn)
<1>1. /\ Shaped(s) /\ s.rules = ruleSet /\ s.ids = ids /\ s.dealer = dealer
      /\ s.status = status /\ s.player = [p \in ToSet(ids) |-> Fresh]
      /\ s.sideShows = {} /\ s.show = None /\ s.side = None
  BY DEF NewState, Shaped, Fields
<1> HIDE DEF s
<1>2. Fresh = [x \in PlayerFields |-> Fresh[x]] /\ ~Fresh.folded
  BY DEF Fresh, PlayerFields
<1>3. Roster(s) = ToSet(ids)
  BY <1>1 DEF Roster
<1>4. Table(s)
  BY <1>1, <1>2, <1>3 DEF Table, Seated
<1>5. Active(s) = Roster(s)
  BY <1>1, <1>2, <1>3 DEF Active
<1> QED BY <1>1, <1>4, <1>5 DEF HandsInv, s

\* A step before or in a round that changes nobody's hand and lets nobody go.
LEMMA RoundGoesOn ==
    ASSUME NEW s, NEW t, HandsInv(s), SameHands(s, t), Active(t) = Active(s),
           t.sideShows = s.sideShows,
           \/ s.status = "IN_PROGRESS" /\ t.status = "IN_PROGRESS"
           \/ Preparing(s) /\ Preparing(t) /\ t.show = s.show /\ t.side = s.side,
           t.show = None \/ t.side = None,
           t.show # None => ShowOpen(t), t.side # None => SideOpen(t)
    PROVE  HandsInv(t)
<1>1. Roster(t) = Roster(s)
  BY DEF SameHands, Roster
<1>2. CASE s.status = "IN_PROGRESS" /\ t.status = "IN_PROGRESS"
  <2>1. Hands(t) /\ Losers(t) = Losers(s)
    BY <1>1, <1>2 DEF HandsInv, Playing, Hands, SameHands, Losers
  <2>2. StillMatched(t)
    <3>1. Active(s) \subseteq Roster(s)
      BY DEF Active
    <3>2. \A p \in Roster(s) : t.player[p].hand = s.player[p].hand
      BY DEF SameHands
    <3>3. OnlyLosersLeft(t) => OnlyLosersLeft(s)
      BY <1>1, <2>1 DEF OnlyLosersLeft
    <3>4. StillMatched(s)
      BY <1>2 DEF HandsInv, Playing
    <3> QED BY <1>1, <3>1, <3>2, <3>3, <3>4 DEF StillMatched
  <2> QED BY <1>2, <2>1, <2>2 DEF HandsInv, Playing, SameHands, Preparing
<1>3. CASE Preparing(s) /\ Preparing(t) /\ t.show = s.show /\ t.side = s.side
  BY <1>1, <1>3 DEF HandsInv, Preparing, SameHands
<1> QED BY <1>2, <1>3

\* Somebody went, and did not lose a side-show by it.
LEMMA PlayerLeaves ==
    ASSUME NEW s, NEW t, HandsInv(s), s.status = "IN_PROGRESS", SameHands(s, t),
           NEW p \in Active(s), Active(t) = Active(s) \ {p}, t.sideShows = s.sideShows
    PROVE  /\ Hands(t) /\ Losers(t) \cap Active(t) = {} /\ ~OnlyLosersLeft(t)
           /\ StillMatched(t) /\ BestWins(t)
<1>1. Roster(t) = Roster(s) /\ Losers(t) = Losers(s)
  BY DEF SameHands, Roster, Losers
<1>2. Hands(t) /\ Losers(t) \cap Active(t) = {}
  BY <1>1 DEF HandsInv, Playing, Hands, SameHands
<1>3. p \in Roster(s) /\ p \notin Losers(t) /\ p \notin Active(t)
  BY <1>1 DEF HandsInv, Playing, Active
<1>4. ~OnlyLosersLeft(t)
  BY <1>1, <1>3, LeaverIsNoLoser
<1> QED BY <1>2, <1>4 DEF StillMatched, BestWins

\* A round that ends so.
LEMMA RoundEndsByLeaving ==
    ASSUME NEW s, NEW t, HandsInv(s), s.status = "IN_PROGRESS", SameHands(s, t),
           NEW p \in Active(s), Active(t) = Active(s) \ {p}, t.sideShows = s.sideShows
    PROVE  HandsInv(Finished(Settled(t, None)))
<1> DEFINE u == Finished(Settled(t, None))
<1>1. /\ SameHands(t, u) /\ Active(u) = Active(t) /\ Roster(u) = Roster(t)
      /\ u.status = "FINISHED" /\ u.sideShows = t.sideShows
      /\ u.settlement.winners = Within(Circle(t), Winners(t, None))
  BY SettledHands DEF SameHands
<1>2. Winners(t, None) \subseteq Roster(t)
  BY DEF Winners, Active
<1>3. u.settlement.winners \in Seq(Roster(t))
  BY <1>1, <1>2, WinnersFacts DEF SameHands
<1> HIDE DEF u
<1>4. SameHands(s, u)
  BY <1>1, SameHandsTransitive
<1>5. BestWins(u)
  BY <1>1, <1>4, PlayerLeaves
<1> QED BY <1>1, <1>3, <1>5 DEF HandsInv, Preparing, SameHands, u

LEMMA TurnHands ==
    ASSUME NEW s, Table(s), NEW p
    PROVE  LET t == WithTurn(s, p) IN
           /\ SameHands(s, t) /\ SameRest(s, t) /\ Active(t) = Active(s)
<1> DEFINE t == WithTurn(s, p)
<1>1. /\ Shaped(t) /\ t.rules = s.rules /\ t.ids = s.ids /\ t.dealer = s.dealer
      /\ t.player = s.player /\ SameRest(s, t)
  BY DEF Table, Shaped, Fields, WithTurn, SameRest
<1> HIDE DEF t
<1> QED BY <1>1, PlayersStay DEF t

LEMMA StartGameHands == ASSUME HandsInv(state), StartGame PROVE HandsInv(state')
<1>1. Table(state) /\ state.status = "WAITING"
  BY DEF HandsInv, StartGame
<1>2. /\ Shaped(state') /\ state'.rules = state.rules /\ state'.ids = state.ids
      /\ state'.dealer = state.dealer /\ state'.player = state.player
      /\ state'.status = "AWAITING_DEAL" /\ state'.sideShows = state.sideShows
      /\ state'.show = state.show /\ state'.side = state.side
  BY <1>1 DEF StartGame, Table, Shaped, Fields
<1>3. SameHands(state, state') /\ Active(state') = Active(state)
  BY <1>1, <1>2, PlayersStay
<1>4. state.show = None /\ state.side = None
  BY <1>1 DEF HandsInv, Preparing
<1> QED BY <1>1, <1>2, <1>3, <1>4, RoundGoesOn DEF Preparing

LEMMA DealCardsHands == ASSUME NEW p, HandsInv(state), DealCards(p) PROVE HandsInv(state')
<1>1. Table(state) /\ state.status = "AWAITING_DEAL"
  BY DEF HandsInv, DealCards
<1>2. /\ Shaped(state') /\ state'.rules = state.rules /\ state'.ids = state.ids
      /\ state'.dealer = state.dealer /\ state'.player = state.player
      /\ state'.status = "AWAITING_CUT" /\ state'.sideShows = state.sideShows
      /\ state'.show = state.show /\ state'.side = state.side
  BY <1>1 DEF DealCards, Table, Shaped, Fields
<1>3. SameHands(state, state') /\ Active(state') = Active(state)
  BY <1>1, <1>2, PlayersStay
<1>4. state.show = None /\ state.side = None
  BY <1>1 DEF HandsInv, Preparing
<1> QED BY <1>1, <1>2, <1>3, <1>4, RoundGoesOn DEF Preparing

\* The next round is dealt by one of its players.
LEMMA PrepareHands ==
    ASSUME NEW ids \in RosterSeqs, NEW creator, HandsInv(state), PrepareNextRound(ids, creator)
    PROVE  HandsInv(state')
<1> DEFINE winners == state.settlement.winners
           stayed == Within(winners, ToSet(ids))
           dealer == IF stayed = << >> THEN creator ELSE Head(stayed)
<1>1. /\ state' = NewState(state.rules, ids, dealer, "AWAITING_DEAL", dealer)
      /\ creator \in ToSet(ids) /\ state.status = "FINISHED"
  BY DEF PrepareNextRound
<1>2. winners \in Seq(Roster(state)) /\ state.rules \in RuleSets
  BY <1>1 DEF HandsInv, Table
<1> HIDE DEF winners
<1>3. /\ stayed \in Seq(Roster(state))
      /\ {stayed[k] : k \in 1..Len(stayed)} \subseteq ToSet(ids)
  BY <1>2, WithinFacts
<1> HIDE DEF stayed
<1>4. dealer \in ToSet(ids)
  <2>1. CASE stayed = << >>
    BY <1>1, <2>1
  <2>2. CASE stayed # << >>
    <3>1. Len(stayed) \in Nat /\ Len(stayed) # 0 /\ Head(stayed) = stayed[1]
      BY <1>3, <2>2
    <3> QED BY <1>3, <2>2, <3>1
  <2> QED BY <2>1, <2>2
<1> HIDE DEF dealer
<1> QED BY <1>1, <1>2, <1>4, NewStateHands

\* The deal gives every player a hand.
LEMMA CompleteDealHands ==
    ASSUME NEW p, NEW hands \in [Roster(state) -> 1..HandMax], HandsInv(state),
           CompleteDeal(p, hands)
    PROVE  HandsInv(state')
<1> DEFINE boot == state.rules.boot
           f == [q \in Roster(state) |->
                   [state.player[q] EXCEPT !.hand = hands[q], !.paid = boot]]
<1>1. state.status = "AWAITING_CUT" /\ Table(state)
  BY DEF CompleteDeal, HandsInv
<1>2. PICK blindBet, seenBet, pot, turn :
        state' = [state EXCEPT !.status = "IN_PROGRESS", !.turn = turn, !.player = f,
                               !.blindBet = blindBet, !.seenBet = seenBet, !.pot = pot]
  BY DEF CompleteDeal
<1>3. ASSUME NEW q \in Roster(state)
      PROVE  /\ f[q] = [x \in PlayerFields |-> f[q][x]]
             /\ f[q].hand = hands[q] /\ f[q].folded = state.player[q].folded
  <2> DEFINE g == state.player[q]
             h == [g EXCEPT !.hand = hands[q]]
             k == [h EXCEPT !.paid = boot]
  <2>1. g = [x \in PlayerFields |-> g[x]]
    BY <1>1 DEF Table, Seated
  <2>2. {"hand", "paid", "folded"} \subseteq PlayerFields
    BY DEF PlayerFields
  <2>3. f[q] = k
    OBVIOUS
  <2> HIDE DEF g
  <2>4. h = [x \in PlayerFields |-> h[x]] /\ h.hand = hands[q] /\ h.folded = g.folded
    BY <2>1, <2>2, FieldBecomes
  <2> HIDE DEF h
  <2>5. k = [x \in PlayerFields |-> k[x]] /\ k.hand = hands[q] /\ k.folded = g.folded
    BY <2>2, <2>4, FieldBecomes
  <2> QED BY <2>3, <2>5 DEF g
<1>4. f = [q \in Roster(state) |-> f[q]]
  OBVIOUS
<1> HIDE DEF f
<1>5. /\ Shaped(state') /\ state'.rules = state.rules /\ state'.ids = state.ids
      /\ state'.dealer = state.dealer /\ state'.player = f
      /\ state'.status = "IN_PROGRESS" /\ state'.sideShows = state.sideShows
      /\ state'.show = state.show /\ state'.side = state.side
  BY <1>1, <1>2 DEF Table, Shaped, Fields
<1>6. Roster(state') = Roster(state)
  BY <1>5 DEF Roster
<1>7. Table(state')
  BY <1>1, <1>3, <1>4, <1>5, <1>6 DEF Table, Seated
<1>8. Hands(state')
  BY <1>3, <1>5, <1>6 DEF Hands
<1>9. Active(state') = Roster(state')
  BY <1>1, <1>3, <1>5, <1>6 DEF HandsInv, Preparing, Active
<1>10. state'.show = None /\ state'.side = None /\ Losers(state') = {}
  BY <1>1, <1>5 DEF HandsInv, Preparing, Losers
<1>11. StillMatched(state')
  <2>1. HandMax \in Int
    BY BoundsAssumption
  <2>2. \A q \in Roster(state') : state'.player[q].hand <= state'.player[q].hand
    BY <1>8, <2>1 DEF Hands
  <2> QED BY <1>9, <2>2 DEF StillMatched
<1> QED BY <1>5, <1>7, <1>8, <1>9, <1>10, <1>11 DEF HandsInv, Playing, Preparing

LEMMA SeeCardsHands ==
    ASSUME NEW p \in Roster(state), HandsInv(state), SeeCards(p)
    PROVE  HandsInv(state')
<1>1. /\ Table(state) /\ state.status = "IN_PROGRESS" /\ state.show = None /\ state.side = None
  BY DEF HandsInv, SeeCards, CanSee, HasTurn
<1>2. state' = [state EXCEPT !.player =
                  [state.player EXCEPT ![p] = [state.player[p] EXCEPT !["seen"] = TRUE]]]
  BY DEF SeeCards
<1>3. "seen" \in PlayerFields \ {"folded", "hand"}
  BY DEF PlayerFields
<1>4. SameHands(state, state') /\ SameRest(state, state') /\ Active(state') = Active(state)
  BY <1>1, <1>2, <1>3, CountedHands
<1> QED BY <1>1, <1>4, RoundGoesOn DEF SameRest

LEMMA BetHands ==
    ASSUME NEW p \in Roster(state), NEW amount, HandsInv(state), Bet(p, amount)
    PROVE  HandsInv(state')
<1>1. /\ Table(state) /\ state.status = "IN_PROGRESS" /\ state.show = None /\ state.side = None
  BY DEF HandsInv, Bet, HasTurn
<1> DEFINE m == state.rules.multiplier
           seen == state.player[p].seen
           least == IF seen THEN amount ELSE amount * m
           s == Pays(state, p, amount)
           paid == [s EXCEPT !.player[p].bets = @ + 1,
                             !.player[p].blindBets = @ + (IF seen THEN 0 ELSE 1),
                             !.seenBet = least, !.blindBet = (least + m - 1) \div m]
           bets == s.player[p].bets + 1
           counted == [s EXCEPT !.player =
                         [s.player EXCEPT ![p] = [s.player[p] EXCEPT !["bets"] = bets]]]
           blind == counted.player[p].blindBets + (IF seen THEN 0 ELSE 1)
           bettor == [counted EXCEPT !.player =
                        [counted.player EXCEPT ![p] = [counted.player[p] EXCEPT !["blindBets"] = blind]]]
           raised == [bettor EXCEPT !.seenBet = least, !.blindBet = (least + m - 1) \div m]
<1>2. \E turn : state' = WithTurn(paid, turn)
  BY DEF Bet
<1>3. /\ SameHands(state, s) /\ SameRest(state, s) /\ Active(s) = Active(state)
      /\ Roster(s) = Roster(state)
  BY <1>1, PaysHands
<1> HIDE DEF s, m, seen, least
<1>10. paid = raised
  OBVIOUS
<1> HIDE DEF paid, bets
<1>4. {"bets", "blindBets"} \subseteq PlayerFields \ {"folded", "hand"}
  BY DEF PlayerFields
<1>5. /\ SameHands(s, counted) /\ SameRest(s, counted) /\ Active(counted) = Active(s)
      /\ Roster(counted) = Roster(s)
  BY <1>3, <1>4, CountedHands DEF SameHands
<1> HIDE DEF counted, blind
<1>6. /\ SameHands(counted, bettor) /\ SameRest(counted, bettor)
      /\ Active(bettor) = Active(counted) /\ Roster(bettor) = Roster(counted)
  BY <1>3, <1>4, <1>5, CountedHands DEF SameHands
<1> HIDE DEF bettor
<1>7. /\ SameHands(bettor, raised) /\ SameRest(bettor, raised) /\ Active(raised) = Active(bettor)
  <2>1. /\ Shaped(raised) /\ raised.rules = bettor.rules /\ raised.ids = bettor.ids
        /\ raised.dealer = bettor.dealer /\ raised.player = bettor.player
        /\ SameRest(bettor, raised)
    BY <1>6 DEF SameHands, Table, Shaped, Fields, SameRest
  <2> HIDE DEF raised
  <2> QED BY <1>6, <2>1, PlayersStay DEF SameHands
<1> HIDE DEF raised
<1>8. SameHands(state, raised) /\ SameRest(state, raised) /\ Active(raised) = Active(state)
  BY <1>3, <1>5, <1>6, <1>7, SameHandsTransitive DEF SameRest
<1>9. SameHands(state, state') /\ SameRest(state, state') /\ Active(state') = Active(state)
  BY <1>2, <1>8, <1>10, TurnHands, SameHandsTransitive DEF SameRest, SameHands
<1> QED BY <1>1, <1>9, RoundGoesOn DEF SameRest

LEMMA FoldHands ==
    ASSUME NEW p \in Roster(state), HandsInv(state), Fold(p)
    PROVE  HandsInv(state')
<1> DEFINE s == Folded(state, p)
<1>1. /\ Table(state) /\ state.status = "IN_PROGRESS" /\ state.show = None /\ state.side = None
      /\ p \in Active(state)
  BY DEF HandsInv, Fold, HasTurn
<1>2. SameHands(state, s) /\ SameRest(state, s) /\ Active(s) = Active(state) \ {p}
  BY <1>1, FoldedHands
<1>3. \/ state' = Finished(Settled(s, None))
      \/ \E turn : state' = WithTurn(s, turn)
  BY DEF Fold
<1> HIDE DEF s
<1>4. CASE state' = Finished(Settled(s, None))
  BY <1>1, <1>2, <1>4, RoundEndsByLeaving DEF SameRest
<1>5. ASSUME NEW turn, state' = WithTurn(s, turn) PROVE HandsInv(state')
  <2>1. /\ SameHands(s, state') /\ SameRest(s, state') /\ Active(state') = Active(s)
    BY <1>2, <1>5, TurnHands DEF SameHands
  <2>2. SameHands(state, state')
    BY <1>2, <2>1, SameHandsTransitive
  <2>3. /\ Hands(state') /\ Losers(state') \cap Active(state') = {} /\ StillMatched(state')
    BY <1>1, <1>2, <2>1, <2>2, PlayerLeaves DEF SameRest
  <2>4. state'.status = "IN_PROGRESS" /\ state'.show = None /\ state'.side = None
    BY <1>1, <1>2, <2>1 DEF SameRest
  <2> QED BY <2>2, <2>3, <2>4 DEF HandsInv, Playing, Preparing, SameHands
<1> QED BY <1>3, <1>4, <1>5

\* A departure during a show leaves one player; a departure during a side-show ends it, or
\* concerns neither of its players.
LEMMA FoldForLeaveHands ==
    ASSUME NEW p \in Roster(state), HandsInv(state), FoldForLeave(p)
    PROVE  HandsInv(state')
<1> DEFINE s == Folded(state, p)
           ends == /\ state.side # None
                   /\ p \in {state.side.requester, state.side.target} \/ Cardinality(Active(s)) < 3
           freed == IF ends THEN [s EXCEPT !.side = None, !.turn = state.side.requester] ELSE s
<1>1. /\ Table(state) /\ state.status = "IN_PROGRESS" /\ p \in Active(state) /\ Playing(state)
  BY DEF HandsInv, FoldForLeave
<1>2. SameHands(state, s) /\ SameRest(state, s) /\ Active(s) = Active(state) \ {p}
  BY <1>1, FoldedHands
<1>3. IF Cardinality(Active(freed)) = 1 THEN state' = Finished(Settled(freed, None))
      ELSE \/ \E turn : state' = WithTurn(freed, turn)
           \/ state' = freed
  BY DEF FoldForLeave
<1>4. state.side # None /\ ~ends => p \notin {state.side.requester, state.side.target}
  OBVIOUS
<1> HIDE DEF s, ends
<1>5. /\ SameHands(s, freed) /\ Active(freed) = Active(s) /\ freed.status = s.status
      /\ freed.show = s.show /\ freed.sideShows = s.sideShows
      /\ freed.side = IF ends THEN None ELSE s.side
  <2>1. /\ Shaped(freed) /\ freed.rules = s.rules /\ freed.ids = s.ids
        /\ freed.dealer = s.dealer /\ freed.player = s.player /\ freed.status = s.status
        /\ freed.show = s.show /\ freed.sideShows = s.sideShows
        /\ freed.side = IF ends THEN None ELSE s.side
    BY <1>2 DEF SameHands, Table, Shaped, Fields
  <2> HIDE DEF freed
  <2> QED BY <1>2, <2>1, PlayersStay DEF SameHands
<1> HIDE DEF freed
<1>6. /\ SameHands(state, freed) /\ Active(freed) = Active(state) \ {p}
      /\ freed.status = "IN_PROGRESS" /\ freed.sideShows = state.sideShows
      /\ freed.show = state.show /\ (freed.side # None => ~ends /\ freed.side = state.side)
  BY <1>1, <1>2, <1>5, SameHandsTransitive DEF SameRest
<1>7. CASE state' = Finished(Settled(freed, None))
  BY <1>1, <1>6, <1>7, RoundEndsByLeaving
<1>8. ASSUME Cardinality(Active(freed)) # 1,
             (\E turn : state' = WithTurn(freed, turn)) \/ state' = freed
      PROVE  HandsInv(state')
  <2>1. /\ SameHands(freed, state') /\ SameRest(freed, state') /\ Active(state') = Active(freed)
    <3>1. SameHands(freed, freed) /\ SameRest(freed, freed)
      BY <1>6 DEF SameHands, SameRest
    <3> QED BY <1>6, <1>8, <3>1, TurnHands DEF SameHands
  <2>2. SameHands(state, state')
    BY <1>6, <2>1, SameHandsTransitive
  <2>3. /\ Hands(state') /\ Losers(state') \cap Active(state') = {} /\ StillMatched(state')
    BY <1>1, <1>6, <2>1, <2>2, PlayerLeaves DEF SameRest
  <2>4. state'.show = None
    <3>1. Cardinality(Active(freed)) = Cardinality(Active(state)) - 1
      BY <1>1, <1>6, ActiveFacts
    <3>2. state.show = None
      BY <1>1, <1>8, <3>1 DEF Playing, ShowOpen
    <3> QED BY <1>6, <2>1, <3>2 DEF SameRest
  <2>5. state'.side # None => SideOpen(state')
    <3> SUFFICES ASSUME state'.side # None PROVE SideOpen(state')
      OBVIOUS
    <3>1. ~ends /\ state'.side = state.side /\ state.side # None
      BY <1>6, <2>1 DEF SameRest
    <3>2. SideOpen(state) /\ p \notin {state.side.requester, state.side.target}
      BY <1>1, <1>4, <3>1 DEF Playing
    <3> QED BY <1>6, <2>1, <3>1, <3>2 DEF SideOpen
  <2>6. state'.status = "IN_PROGRESS"
    BY <1>6, <2>1 DEF SameRest
  <2> QED BY <2>2, <2>3, <2>4, <2>5, <2>6 DEF HandsInv, Playing, Preparing, SameHands
<1> QED BY <1>3, <1>7, <1>8

\* A show leaves two players, who are its players.
LEMMA ShowCardsHands ==
    ASSUME NEW p \in Roster(state), HandsInv(state), ShowCards(p)
    PROVE  HandsInv(state')
<1> DEFINE s == Pays(state, p, ShowCost(state, p))
           target == CHOOSE q \in Active(s) : q # p
<1>1. /\ Table(state) /\ state.status = "IN_PROGRESS" /\ state.side = None
      /\ p \in Active(state) /\ Cardinality(Active(state)) = 2
  BY DEF HandsInv, ShowCards, CanShow, HasTurn
<1>2. SameHands(state, s) /\ SameRest(state, s) /\ Active(s) = Active(state)
  BY <1>1, PaysHands
<1>3. state' = [s EXCEPT !.show = [requester |-> p, target |-> target],
                         !.revealed = {p}, !.turn = target]
  BY DEF ShowCards
<1> HIDE DEF s
<1>4. target \in Active(state)
  <2>1. Cardinality(Active(state) \ {p}) = 1
    BY <1>1, ActiveFacts
  <2>2. Active(state) \ {p} # {}
    BY <2>1, FS_EmptySet
  <2> QED BY <1>2, <2>2
<1> HIDE DEF target
<1>5. /\ SameHands(s, state') /\ Active(state') = Active(s) /\ state'.status = s.status
      /\ state'.side = s.side /\ state'.sideShows = s.sideShows
      /\ state'.show = [requester |-> p, target |-> target]
  <2>1. /\ Shaped(state') /\ state'.rules = s.rules /\ state'.ids = s.ids
        /\ state'.dealer = s.dealer /\ state'.player = s.player /\ state'.status = s.status
        /\ state'.side = s.side /\ state'.sideShows = s.sideShows
        /\ state'.show = [requester |-> p, target |-> target]
    BY <1>2, <1>3 DEF SameHands, Table, Shaped, Fields
  <2> QED BY <1>2, <2>1, PlayersStay DEF SameHands
<1>6. SameHands(state, state')
  BY <1>2, <1>5, SameHandsTransitive
<1>7. ShowOpen(state')
  BY <1>1, <1>2, <1>4, <1>5 DEF ShowOpen
<1> QED BY <1>1, <1>2, <1>5, <1>6, <1>7, RoundGoesOn DEF SameRest

LEMMA RespondShowHands ==
    ASSUME NEW p \in Roster(state), NEW reveal, HandsInv(state), RespondShow(p, reveal)
    PROVE  HandsInv(state')
<1>1. /\ Table(state) /\ state.status = "IN_PROGRESS" /\ Playing(state)
      /\ ShowOpen(state) /\ state.show.target = p
  BY DEF HandsInv, RespondShow, Playing
<1>2. CASE reveal
  <2>1. state' = Finished(Settled(state, state.show.requester))
    BY <1>2 DEF RespondShow
  <2>2. BestWins(state')
    BY <1>1, <2>1, ShowIsBest DEF Playing
  <2>3. /\ SameHands(state, state') /\ Active(state') = Active(state)
        /\ Roster(state') = Roster(state) /\ state'.status = "FINISHED"
        /\ state'.settlement.winners = Within(Circle(state), Winners(state, state.show.requester))
    BY <1>1, <2>1, SettledHands
  <2>4. Winners(state, state.show.requester) \subseteq Roster(state)
    BY DEF Winners, Top, Active
  <2>5. state'.settlement.winners \in Seq(Roster(state'))
    BY <1>1, <2>3, <2>4, WinnersFacts
  <2> QED BY <2>2, <2>3, <2>5 DEF HandsInv, Preparing, SameHands
<1>3. CASE ~reveal
  <2> DEFINE s == Folded(state, p)
  <2>1. state' = Finished(Settled(s, None))
    BY <1>3 DEF RespondShow
  <2>2. SameHands(state, s) /\ SameRest(state, s) /\ Active(s) = Active(state) \ {p}
    BY <1>1, FoldedHands
  <2> HIDE DEF s
  <2>3. p \in Active(state)
    BY <1>1 DEF ShowOpen
  <2> QED BY <1>1, <2>1, <2>2, <2>3, RoundEndsByLeaving DEF SameRest
<1> QED BY <1>2, <1>3

\* The seat that is nearest among those of active players who saw their cards.
LEMMA PreviousSeenFacts ==
    ASSUME NEW s, Table(s), NEW p \in Roster(s), PreviousSeen(s, p) # None
    PROVE  /\ PreviousSeen(s, p) \in Active(s) /\ PreviousSeen(s, p) # p
           /\ s.player[PreviousSeen(s, p)].seen
<1> DEFINE n == Len(s.ids)
           Found == {j \in 1..(n - 1) : /\ Clockwise(s, p, -j) \in Active(s)
                                        /\ s.player[Clockwise(s, p, -j)].seen}
           k == Min(Found)
           a == Seat(s, p)
           x == a - 1 + (-k) + n
           y == a - 1 + 0 + n
<1>1. /\ n \in Nat \ {0} /\ DOMAIN s.ids = 1..n
      /\ \A i, j \in 1..n : s.ids[i] = s.ids[j] => i = j
  BY RosterFacts DEF Table
<1>2. Found # {} /\ PreviousSeen(s, p) = Clockwise(s, p, -k)
  BY DEF PreviousSeen
<1>3. Found \in SUBSET (0..n)
  BY <1>1
<1>4. k \in Found
  <2> HIDE DEF Found
  <2> QED BY <1>1, <1>2, <1>3, LeastNumber DEF Min
<1>5. k \in 1..(n - 1) /\ Clockwise(s, p, -k) \in Active(s) /\ s.player[Clockwise(s, p, -k)].seen
  BY <1>4
<1> HIDE DEF k, Found
<1>6. a \in 1..n /\ s.ids[a] = p
  BY <1>1 DEF Roster, ToSet, Seat
<1>7. Clockwise(s, p, -k) = s.ids[(x % n) + 1]
  BY DEF Clockwise
<1> HIDE DEF a, n
<1>8. ASSUME Clockwise(s, p, -k) = p PROVE FALSE
  <2>1. x \in Nat /\ x = (a - 1 - k) + n /\ x < 2 * n
    BY <1>1, <1>5, <1>6
  <2>2. x % n \in 0..(n - 1)
    BY <1>1, <2>1
  <2>3. (x % n) + 1 \in 1..n
    BY <1>1, <2>2
  <2>4. (x % n) + 1 = a
    BY <1>1, <1>6, <1>7, <1>8, <2>3
  <2>5. x % n = a - 1
    <3> DEFINE r == x % n
    <3> HIDE DEF r
    <3>1. r \in Int /\ r + 1 = a
      BY <1>1, <2>2, <2>4 DEF r
    <3> QED BY <1>6, <3>1 DEF r
  <2>6. x = n * (x \div n) + (x % n) /\ x \div n \in Int
    <3>1. x \in Nat /\ n \in Nat \ {0}
      BY <1>1, <2>1
    <3> HIDE DEF x
    <3> QED BY <3>1, Division
  <2> DEFINE d == x \div n
  <2>7. d \in Int /\ n * d = n - k
    <3> DEFINE r == x % n
               nd == n * d
    <3>1. x = nd + r /\ r = a - 1 /\ d \in Int
      BY <2>5, <2>6
    <3>2. nd \in Int
      BY <1>1, <3>1
    <3> HIDE DEF r, nd, d, x
    <3>3. n \in Int /\ k \in Int /\ a \in Int
      BY <1>1, <1>5, <1>6
    <3>4. nd = n - k
      BY <2>1, <3>1, <3>2, <3>3
    <3> QED BY <3>1, <3>4 DEF nd
  <2> HIDE DEF d
  <2>8. ~(d >= 1)
    <3> SUFFICES ASSUME d >= 1 PROVE FALSE
      OBVIOUS
    <3>1. PICK e \in Nat : d = e + 1
      BY <2>7
    <3>2. n * d = n * e + n /\ n * e \in Nat
      BY <1>1, <3>1
    <3> QED BY <1>1, <1>5, <2>7, <3>2
  <2>9. ~(d <= 0)
    <3> SUFFICES ASSUME d <= 0 PROVE FALSE
      OBVIOUS
    <3>1. PICK e \in Nat : d = -e
      <4>1. -d \in Nat /\ d = -(-d)
        BY <2>7
      <4> QED BY <4>1
    <3>2. n * d = -(n * e) /\ n * e \in Nat
      BY <1>1, <3>1
    <3> QED BY <1>1, <1>5, <2>7, <3>2
  <2> QED BY <2>7, <2>8, <2>9
<1> QED BY <1>2, <1>5, <1>8

LEMMA RequestSideShowHands ==
    ASSUME NEW p \in Roster(state), HandsInv(state), RequestSideShow(p)
    PROVE  HandsInv(state')
<1> DEFINE target == PreviousSeen(state, p)
           s == Pays(state, p, RequiredBet(state, p))
           bets == s.player[p].bets + 1
           counted == [s EXCEPT !.player =
                         [s.player EXCEPT ![p] = [s.player[p] EXCEPT !["bets"] = bets]]]
           asked == [counted EXCEPT !.side = [requester |-> p, target |-> target], !.turn = target]
<1>1. /\ Table(state) /\ state.status = "IN_PROGRESS" /\ state.show = None
      /\ p \in Active(state) /\ target # None
  BY DEF HandsInv, RequestSideShow, CanSideShow, HasTurn
<1>2. state' = [s EXCEPT !.player[p].bets = @ + 1,
                         !.side = [requester |-> p, target |-> target], !.turn = target]
  BY DEF RequestSideShow
<1>3. SameHands(state, s) /\ SameRest(state, s) /\ Active(s) = Active(state)
      /\ Roster(s) = Roster(state)
  BY <1>1, PaysHands
<1>4. target \in Active(state) /\ target # p
  BY <1>1, PreviousSeenFacts
<1> HIDE DEF s, target
<1>5. state' = asked
  BY <1>2
<1> HIDE DEF bets
<1>6. "bets" \in PlayerFields \ {"folded", "hand"}
  BY DEF PlayerFields
<1>7. SameHands(s, counted) /\ SameRest(s, counted) /\ Active(counted) = Active(s)
  BY <1>3, <1>6, CountedHands DEF SameHands
<1> HIDE DEF counted
<1>8. /\ SameHands(counted, asked) /\ Active(asked) = Active(counted)
      /\ asked.status = counted.status /\ asked.show = counted.show
      /\ asked.sideShows = counted.sideShows
      /\ asked.side = [requester |-> p, target |-> target]
  <2>1. /\ Shaped(asked) /\ asked.rules = counted.rules /\ asked.ids = counted.ids
        /\ asked.dealer = counted.dealer /\ asked.player = counted.player
        /\ asked.status = counted.status /\ asked.show = counted.show
        /\ asked.sideShows = counted.sideShows
        /\ asked.side = [requester |-> p, target |-> target]
    BY <1>7 DEF SameHands, Table, Shaped, Fields
  <2> HIDE DEF asked
  <2> QED BY <1>7, <2>1, PlayersStay DEF SameHands
<1> HIDE DEF asked
<1>9. /\ SameHands(state, state') /\ Active(state') = Active(state)
      /\ state'.status = "IN_PROGRESS" /\ state'.show = None
      /\ state'.sideShows = state.sideShows
      /\ state'.side = [requester |-> p, target |-> target]
  BY <1>1, <1>3, <1>5, <1>7, <1>8, SameHandsTransitive DEF SameRest
<1>10. SideOpen(state')
  BY <1>1, <1>4, <1>9 DEF SideOpen
<1> QED BY <1>1, <1>9, <1>10, RoundGoesOn

\* The loser of a side-show goes; the other player's hand is at least as good.
LEMMA RespondSideShowHands ==
    ASSUME NEW p \in Roster(state), NEW accept, HandsInv(state), RespondSideShow(p, accept)
    PROVE  HandsInv(state')
<1> DEFINE r == state.side.requester
           winner == IF state.player[r].hand > state.player[p].hand THEN r ELSE p
           loser == IF winner = r THEN p ELSE r
           closed == [state EXCEPT !.side = None, !.turn = r]
           told == [requester |-> r, target |-> p, winner |-> winner, loser |-> loser]
           out == Folded(closed, loser)
           s == IF accept THEN [out EXCEPT !.sideShows = out.sideShows \cup {told}] ELSE closed
<1>1. /\ Table(state) /\ state.status = "IN_PROGRESS" /\ Playing(state)
      /\ r \in Active(state) /\ p \in Active(state) /\ r # p
  BY DEF HandsInv, RespondSideShow, Playing, SideOpen
<1>2. \E turn : state' = WithTurn(s, turn)
  BY DEF RespondSideShow
<1>3. /\ {winner, loser} = {r, p} /\ winner # loser
      /\ state.player[loser].hand <= state.player[winner].hand
  <2>1. state.player[r].hand \in Int /\ state.player[p].hand \in Int
    <3>1. HandMax \in Int
      BY BoundsAssumption
    <3> QED BY <1>1, <3>1, ActiveFacts DEF Playing, Hands
  <2> QED BY <1>1, <2>1
<1>4. told.loser = loser
  OBVIOUS
<1> HIDE DEF winner, loser, told
<1>5. /\ SameHands(state, closed) /\ Active(closed) = Active(state)
      /\ Roster(closed) = Roster(state) /\ closed.status = state.status
      /\ closed.show = state.show /\ closed.side = None /\ closed.sideShows = state.sideShows
  <2>1. /\ Shaped(closed) /\ closed.rules = state.rules /\ closed.ids = state.ids
        /\ closed.dealer = state.dealer /\ closed.player = state.player
        /\ closed.status = state.status /\ closed.show = state.show
        /\ closed.side = None /\ closed.sideShows = state.sideShows
    BY <1>1 DEF Table, Shaped, Fields
  <2> HIDE DEF closed
  <2> QED BY <1>1, <2>1, PlayersStay
<1> HIDE DEF closed
<1>6. state.show # None => ShowOpen(state)
  BY <1>1 DEF Playing
<1>7. CASE ~accept
  <2>1. \E turn : state' = WithTurn(closed, turn)
    BY <1>2, <1>7
  <2>2. SameHands(closed, state') /\ SameRest(closed, state') /\ Active(state') = Active(closed)
    BY <1>5, <2>1, TurnHands DEF SameHands
  <2>3. SameHands(state, state')
    BY <1>5, <2>2, SameHandsTransitive
  <2>4. state'.show # None => ShowOpen(state')
    BY <1>5, <1>6, <2>2 DEF SameRest, ShowOpen
  <2> QED BY <1>1, <1>5, <2>2, <2>3, <2>4, RoundGoesOn DEF SameRest
<1>8. CASE accept
  <2> DEFINE t == [out EXCEPT !.sideShows = out.sideShows \cup {told}]
  <2>1. /\ SameHands(closed, out) /\ SameRest(closed, out) /\ Roster(out) = Roster(closed)
        /\ Active(out) = Active(closed) \ {loser}
    <3>1. loser \in Roster(closed) /\ Table(closed)
      BY <1>1, <1>3, <1>5, ActiveFacts DEF SameHands
    <3> QED BY <3>1, FoldedHands
  <2> HIDE DEF out
  <2>2. \E turn : state' = WithTurn(t, turn)
    BY <1>2, <1>8
  <2>3. /\ SameHands(out, t) /\ Active(t) = Active(out) /\ t.status = out.status
        /\ t.show = out.show /\ t.side = out.side /\ t.sideShows = out.sideShows \cup {told}
    <3>1. /\ Shaped(t) /\ t.rules = out.rules /\ t.ids = out.ids
          /\ t.dealer = out.dealer /\ t.player = out.player
          /\ t.status = out.status /\ t.show = out.show /\ t.side = out.side
          /\ t.sideShows = out.sideShows \cup {told}
      BY <2>1 DEF SameHands, Table, Shaped, Fields
    <3> HIDE DEF t
    <3> QED BY <2>1, <3>1, PlayersStay DEF SameHands
  <2> HIDE DEF t
  <2>4. SameHands(t, state') /\ SameRest(t, state') /\ Active(state') = Active(t)
    BY <2>2, <2>3, TurnHands DEF SameHands
  <2>5. /\ SameHands(state, state') /\ Active(state') = Active(state) \ {loser}
        /\ state'.status = "IN_PROGRESS" /\ state'.show = state.show /\ state'.side = None
        /\ state'.sideShows = state.sideShows \cup {told}
    BY <1>1, <1>5, <2>1, <2>3, <2>4, SameHandsTransitive DEF SameRest
  <2>6. Roster(state') = Roster(state) /\ Losers(state') = Losers(state) \cup {loser}
    BY <1>4, <2>5 DEF SameHands, Roster, Losers
  <2>7. state.show = None
    BY DEF HandsInv, RespondSideShow, Playing
  <2>8. Hands(state') /\ Losers(state') \cap Active(state') = {}
    BY <1>1, <2>5, <2>6 DEF Playing, Hands, SameHands
  <2>9. ASSUME OnlyLosersLeft(state'), NEW q \in Roster(state')
        PROVE  \E v \in Active(state') : state'.player[q].hand <= state'.player[v].hand
    <3>1. OnlyLosersLeft(state)
      BY <1>1, <1>3, <2>5, <2>6, <2>9 DEF OnlyLosersLeft
    <3>2. PICK v \in Active(state) : state.player[q].hand <= state.player[v].hand
      BY <1>1, <2>6, <3>1 DEF Playing, StillMatched
    <3>3. /\ winner \in Active(state') /\ Active(state) \subseteq Roster(state)
          /\ loser \in Active(state)
      BY <1>1, <1>3, <2>5 DEF Active
    <3>4. \A x \in Roster(state) : /\ state.player[x].hand \in Int
                                   /\ state'.player[x].hand = state.player[x].hand
      <4>1. HandMax \in Int
        BY BoundsAssumption
      <4> QED BY <1>1, <2>5, <4>1 DEF Playing, Hands, SameHands
    <3>5. CASE v = loser
      <4>1. state.player[q].hand <= state.player[winner].hand
        <5>1. q \in Roster(state) /\ loser \in Roster(state) /\ winner \in Roster(state)
          BY <2>5, <2>6, <3>3
        <5>2. /\ state.player[q].hand \in Int /\ state.player[loser].hand \in Int
              /\ state.player[winner].hand \in Int
          BY <3>4, <5>1
        <5>3. /\ state.player[q].hand <= state.player[loser].hand
              /\ state.player[loser].hand <= state.player[winner].hand
          BY <1>3, <3>2, <3>5
        <5> QED BY <5>2, <5>3
      <4> QED BY <2>6, <3>3, <3>4, <4>1, <2>5
    <3>6. CASE v # loser
      BY <2>5, <2>6, <3>2, <3>3, <3>4, <3>6
    <3> QED BY <3>5, <3>6
  <2>10. StillMatched(state')
    BY <2>9 DEF StillMatched
  <2> QED BY <2>5, <2>7, <2>8, <2>10 DEF HandsInv, Playing, Preparing, SameHands
<1> QED BY <1>7, <1>8

LEMMA NextKeepsHands == HandsInv(state) /\ [RoundNext]_state => HandsInv(state')
<1> SUFFICES ASSUME HandsInv(state), [RoundNext]_state PROVE HandsInv(state')
  OBVIOUS
<1>1. CASE UNCHANGED state
  BY <1>1
<1>2. CASE StartGame
  BY <1>2, StartGameHands
<1>3. ASSUME NEW ids \in RosterSeqs, NEW creator \in PlayerIds, PrepareNextRound(ids, creator)
      PROVE  HandsInv(state')
  BY <1>3, PrepareHands
<1>4. ASSUME NEW p \in Roster(state), NEW hands \in [Roster(state) -> 1..HandMax],
             CompleteDeal(p, hands)
      PROVE  HandsInv(state')
  BY <1>4, CompleteDealHands
<1>5. ASSUME NEW p \in Roster(state), NEW raise \in 0..MaxRaise,
             Bet(p, RequiredBet(state, p) + raise)
      PROVE  HandsInv(state')
  BY <1>5, BetHands
<1>6. ASSUME NEW p \in Roster(state),
             \/ DealCards(p) \/ SeeCards(p) \/ Fold(p) \/ FoldForLeave(p) \/ ShowCards(p)
             \/ RequestSideShow(p)
             \/ \E reveal \in BOOLEAN : RespondShow(p, reveal)
             \/ \E accept \in BOOLEAN : RespondSideShow(p, accept)
      PROVE  HandsInv(state')
  BY <1>6, DealCardsHands, SeeCardsHands, FoldHands, FoldForLeaveHands, ShowCardsHands,
     RequestSideShowHands, RespondShowHands, RespondSideShowHands
<1> QED BY <1>1, <1>2, <1>3, <1>4, <1>5, <1>6 DEF RoundNext

\* A round that nobody but losers of side-shows left is won by a hand that no hand of the
\* table beats (_settle and _respond_side_show, flush/engine.py), for any number of players,
\* any strengths of hands and any rules.
THEOREM TheBestHandWins == RoundSpec => []BestHandWins
<1>1. RoundInit => HandsInv(state)
  <2> SUFFICES ASSUME RoundInit PROVE HandsInv(state)
    OBVIOUS
  <2>1. PICK ruleSet, ids, dealer :
          /\ ruleSet \in RuleSets /\ ids \in RosterSeqs /\ dealer \in ToSet(ids)
          /\ state = NewState(ruleSet, ids, dealer, "WAITING", None)
    BY DEF RoundInit
  <2> QED BY <2>1, NewStateHands
<1>2. HandsInv(state) /\ [RoundNext]_state => HandsInv(state)'
  BY NextKeepsHands
<1>3. HandsInv(state) => BestHandWins
  BY DEF HandsInv, BestWins, OnlyLosersLeft, Losers, BestHandWins
<1> QED BY <1>1, <1>2, <1>3, PTL DEF RoundSpec

-------------------------------------------------------------------------------
(* Whose turn is next *)

\* Everybody sits at some distance clockwise from a seat.
LEMMA AroundTable ==
    ASSUME NEW s, Table(s), NEW p \in Roster(s)
    PROVE  /\ Len(s.ids) \in Nat \ {0} /\ Len(s.ids) >= 2 /\ Cardinality(Roster(s)) = Len(s.ids)
           /\ \A k \in 1..Len(s.ids) : Clockwise(s, p, k) \in Roster(s)
           /\ \A q \in Roster(s) : \E k \in 1..Len(s.ids) : Clockwise(s, p, k) = q
<1> DEFINE n == Len(s.ids)
           R == Roster(s)
           t == [s EXCEPT !.dealer = p]
           c == Circle(t)
<1>1. Shaped(t) /\ t.rules = s.rules /\ t.ids = s.ids /\ t.dealer = p /\ t.player = s.player
  BY DEF Table, Shaped, Fields
<1> HIDE DEF t
<1>2. Table(t) /\ Roster(t) = R
  BY <1>1 DEF Table, Roster, Seated
<1>3. /\ c \in Seq(R) /\ Len(c) = n
      /\ \A j, k \in 1..n : c[j] = c[k] => j = k
  BY <1>1, <1>2, CircleFacts
<1>4. c = [k \in 1..n |-> Clockwise(s, p, k)]
  BY <1>1 DEF Circle, Clockwise, Seat
<1> HIDE DEF c
<1>5. /\ n \in Nat \ {0} /\ DOMAIN s.ids = 1..n /\ IsFiniteSet(R)
      /\ \A i, j \in 1..n : s.ids[i] = s.ids[j] => i = j
  BY RosterFacts DEF Table, Roster
<1>6. n >= 2
  <2>1. PICK m \in 2..Cardinality(PlayerIds) : s.ids \in [1..m -> PlayerIds]
    BY DEF Table, RosterSeqs
  <2>2. Cardinality(PlayerIds) \in Nat
    BY PlayersAssumption, FS_CardinalityType
  <2> QED BY <2>1, <2>2
<1>7. Cardinality(R) = n
  <2>1. s.ids \in Bijection(1..n, R)
    <3>1. s.ids = [i \in 1..n |-> s.ids[i]]
      BY <1>5, RosterFacts DEF Table
    <3>2. R = {s.ids[i] : i \in 1..n}
      BY <1>5 DEF Roster, ToSet
    <3> HIDE DEF R
    <3>3. s.ids \in [1..n -> R]
      BY <3>1, <3>2
    <3> QED BY <1>5, <3>2, <3>3 DEF Bijection, Injection, Surjection, IsInjective
  <2>2. ExistsBijection(1..n, R)
    BY <2>1 DEF ExistsBijection
  <2> QED BY <1>5, <2>2, FS_CountingElements
<1> HIDE DEF R
<1>8. c \in [1..n -> R]
  BY <1>3, <1>5
<1>9. c \in Surjection(1..n, R)
  <2>1. c \in Injection(1..n, R)
    BY <1>3, <1>8 DEF Injection, IsInjective
  <2>2. Cardinality(1..n) = n
    <3>1. 1 \in Int /\ n \in Int
      BY <1>5
    <3>2. Cardinality(1..n) = IF 1 > n THEN 0 ELSE n - 1 + 1
      BY <3>1, FS_Interval
    <3> QED BY <1>5, <3>2
  <2> QED BY <1>5, <1>7, <2>1, <2>2, FS_Injection
<1>10. \A q \in R : \E k \in 1..n : c[k] = q
  BY <1>9 DEF Surjection
<1> QED BY <1>4, <1>5, <1>6, <1>7, <1>8, <1>10 DEF R

\* The next seat is somebody's who plays; it is the next one where everybody does.
LEMMA NextSeatFacts ==
    ASSUME NEW s, Table(s), s.turn \in Roster(s), Active(s) # {}
    PROVE  /\ NextSeat(s) \in Active(s)
           /\ Active(s) = Roster(s) => NextSeat(s) = Clockwise(s, s.turn, 1)
<1> DEFINE n == Len(s.ids)
           Found == {j \in 1..n : Clockwise(s, s.turn, j) \in Active(s)}
           k == Min(Found)
<1>1. /\ n \in Nat /\ n >= 2
      /\ \A q \in Roster(s) : \E j \in 1..n : Clockwise(s, s.turn, j) = q
      /\ \A j \in 1..n : Clockwise(s, s.turn, j) \in Roster(s)
  BY AroundTable
<1>2. Found \in SUBSET (0..n) /\ Found # {}
  BY <1>1 DEF Active
<1>3. NextSeat(s) = Clockwise(s, s.turn, k)
  BY DEF NextSeat
<1>4. Active(s) = Roster(s) => 1 \in Found /\ \A j \in Found : 1 <= j
  BY <1>1
<1>5. \A j \in Found : Clockwise(s, s.turn, j) \in Active(s) /\ j \in Int
  BY <1>1
<1> HIDE DEF Found
<1>6. k \in Found /\ \A j \in Found : k <= j
  BY <1>1, <1>2, LeastNumber DEF Min
<1>7. Active(s) = Roster(s) => k = 1
  BY <1>4, <1>5, <1>6
<1> HIDE DEF k
<1> QED BY <1>3, <1>5, <1>6, <1>7

\* Two players of two are all of them.
LEMMA TheTwo ==
    ASSUME NEW S, IsFiniteSet(S), Cardinality(S) = 2, NEW x \in S, NEW y \in S, x # y
    PROVE  S = {x, y}
<1> SUFFICES ASSUME NEW z \in S, z # x, z # y PROVE FALSE
  OBVIOUS
<1>1. IsFiniteSet(S \ {x}) /\ Cardinality(S \ {x}) = 1
  BY FS_RemoveElement
<1>2. y \in S \ {x} /\ z \in S \ {x}
  OBVIOUS
<1> QED BY <1>1, <1>2, AtLeastTwo

-------------------------------------------------------------------------------
(* What a command changes, field by field *)

\* Only these fields differ.
Only(s, t, F) == Shaped(t) /\ \A f \in Fields \ F : t[f] = s[f]

WithField(s, p, field, v) ==
    [s EXCEPT !.player = [s.player EXCEPT ![p] = [s.player[p] EXCEPT ![field] = v]]]

LEMMA FieldOfPlayer ==
    ASSUME NEW s, Table(s), NEW p \in Roster(s), NEW field \in PlayerFields, NEW v
    PROVE  LET t == WithField(s, p, field, v) IN
           /\ Only(s, t, {"player"}) /\ Table(t) /\ Roster(t) = Roster(s)
           /\ t.player[p][field] = v
           /\ \A x \in PlayerFields \ {field} : t.player[p][x] = s.player[p][x]
           /\ \A q \in Roster(s) \ {p} : t.player[q] = s.player[q]
<1> DEFINE h == [s.player[p] EXCEPT ![field] = v]
           f == [s.player EXCEPT ![p] = h]
           t == WithField(s, p, field, v)
<1>0. t = [s EXCEPT !.player = f]
  BY DEF WithField
<1>1. /\ f = [q \in Roster(s) |-> f[q]] /\ f[p] = h
      /\ \A q \in Roster(s) \ {p} : f[q] = s.player[q]
  BY DEF Table, Seated
<1>2. s.player[p] = [x \in PlayerFields |-> s.player[p][x]]
  BY DEF Table, Seated
<1>3. /\ h = [x \in PlayerFields |-> h[x]] /\ h[field] = v
      /\ \A x \in PlayerFields \ {field} : h[x] = s.player[p][x]
  BY <1>2, FieldBecomes
<1> HIDE DEF h, f, t
<1>4. \A q \in Roster(s) : f[q] = [x \in PlayerFields |-> f[q][x]]
  <2> SUFFICES ASSUME NEW q \in Roster(s) PROVE f[q] = [x \in PlayerFields |-> f[q][x]]
    OBVIOUS
  <2>1. CASE q = p
    BY <1>1, <1>3, <2>1
  <2>2. CASE q # p
    BY <1>1, <2>2 DEF Table, Seated
  <2> QED BY <2>1, <2>2
<1>5. Only(s, t, {"player"}) /\ t.player = f
  BY <1>0 DEF Only, Table, Shaped, Fields
<1>6. t.rules = s.rules /\ t.ids = s.ids /\ t.dealer = s.dealer
  BY <1>5 DEF Only, Fields
<1>7. Roster(t) = Roster(s) /\ Table(t)
  BY <1>1, <1>4, <1>5, <1>6 DEF Table, Seated, Only, Roster
<1> QED BY <1>1, <1>3, <1>5, <1>7 DEF h, t

LEMMA OnlyTransitive ==
    ASSUME NEW s, NEW F, NEW t, Only(s, t, F), NEW G, NEW u, Only(t, u, G)
    PROVE  Only(s, u, F \cup G)
  BY DEF Only

\* The players' table stays as it is.
LEMMA OnlyTable ==
    ASSUME NEW s, Table(s), NEW F, NEW t, Only(s, t, F),
           F \cap {"rules", "ids", "dealer", "player"} = {}
    PROVE  /\ Table(t) /\ Roster(t) = Roster(s) /\ Active(t) = Active(s) /\ t.player = s.player
           /\ SameHands(s, t)
<1>1. /\ t.rules = s.rules /\ t.ids = s.ids /\ t.dealer = s.dealer /\ t.player = s.player
      /\ Shaped(t)
  BY DEF Only, Fields
<1> QED BY <1>1, PlayersStay DEF SameHands

LEMMA TurnIs ==
    ASSUME NEW s, Shaped(s), NEW p
    PROVE  Only(s, WithTurn(s, p), {"turn"}) /\ WithTurn(s, p).turn = p
  BY DEF WithTurn, Only, Shaped, Fields

LEMMA FoldedIs ==
    ASSUME NEW s, Table(s), NEW p \in Roster(s)
    PROVE  LET t == Folded(s, p) IN
           /\ Only(s, t, {"player"}) /\ Roster(t) = Roster(s)
           /\ SameHands(s, t) /\ Active(t) = Active(s) \ {p}
           /\ \A q \in Roster(s), x \in PlayerFields \ {"folded"} : t.player[q][x] = s.player[q][x]
<1> DEFINE v == TRUE
           t == WithField(s, p, "folded", v)
<1>1. t = Folded(s, p)
  BY DEF Folded, WithField
<1>2. "folded" \in PlayerFields
  BY DEF PlayerFields
<1> HIDE DEF v
<1>3. /\ Only(s, t, {"player"}) /\ Roster(t) = Roster(s)
      /\ \A x \in PlayerFields \ {"folded"} : t.player[p][x] = s.player[p][x]
      /\ \A q \in Roster(s) \ {p} : t.player[q] = s.player[q]
  BY <1>2, FieldOfPlayer
<1> HIDE DEF t
<1>4. SameHands(s, t) /\ Active(t) = Active(s) \ {p}
  BY <1>1, FoldedHands
<1>5. \A q \in Roster(s), x \in PlayerFields \ {"folded"} : t.player[q][x] = s.player[q][x]
  BY <1>3
<1> QED BY <1>1, <1>3, <1>4, <1>5

LEMMA PaysIs ==
    ASSUME NEW s, Table(s), NEW p \in Roster(s), NEW amount
    PROVE  LET t == Pays(s, p, amount) IN
           /\ Only(s, t, {"player", "pot"}) /\ Roster(t) = Roster(s)
           /\ SameHands(s, t) /\ Active(t) = Active(s)
           /\ t.pot = s.pot + amount /\ t.player[p].paid = s.player[p].paid + amount
           /\ \A q \in Roster(s), x \in PlayerFields \ {"paid"} : t.player[q][x] = s.player[q][x]
           /\ \A q \in Roster(s) \ {p} : t.player[q] = s.player[q]
<1> DEFINE t == Pays(s, p, amount)
           v == s.player[p].paid + amount
           u == WithField(s, p, "paid", v)
<1>1. t = [u EXCEPT !.pot = s.pot + amount]
  BY DEF Pays, WithField
<1>2. "paid" \in PlayerFields
  BY DEF PlayerFields
<1> HIDE DEF v
<1>3. /\ Only(s, u, {"player"}) /\ Roster(u) = Roster(s) /\ Table(u)
      /\ u.player[p].paid = v
      /\ \A x \in PlayerFields \ {"paid"} : u.player[p][x] = s.player[p][x]
      /\ \A q \in Roster(s) \ {p} : u.player[q] = s.player[q]
  BY <1>2, FieldOfPlayer
<1> HIDE DEF u, t
<1>4. Only(u, t, {"pot"}) /\ t.pot = s.pot + amount
  <2>1. Shaped(u)
    BY <1>3 DEF Only
  <2> QED BY <1>1, <2>1 DEF Only, Shaped, Fields
<1>5. t.player = u.player
  BY <1>4 DEF Only, Fields
<1>6. SameHands(s, t) /\ Active(t) = Active(s) /\ Roster(t) = Roster(s)
  BY PaysHands DEF t
<1>7. Only(s, t, {"player", "pot"})
  BY <1>3, <1>4 DEF Only
<1>8. \A q \in Roster(s), x \in PlayerFields \ {"paid"} : t.player[q][x] = s.player[q][x]
  BY <1>3, <1>5
<1> QED BY <1>3, <1>4, <1>5, <1>6, <1>7, <1>8 DEF t, v

-------------------------------------------------------------------------------
(* A command that leaves the round going *)

Counted(s) == \A q \in Roster(s) : /\ {s.player[q].bets, s.player[q].blindBets} \subseteq Nat
                                   /\ s.player[q].blindBets <= s.player[q].bets

\* The pot is what the players have paid.
Balanced(s) == /\ \A q \in Roster(s) : s.player[q].paid \in Nat
               /\ s.pot = SumFunction([q \in Roster(s) |-> s.player[q].paid])

\* A player's payment is in the pot.
LEMMA PaymentBalances ==
    ASSUME NEW s, Table(s), Balanced(s), NEW t, Roster(t) = Roster(s), NEW p \in Roster(s),
           NEW amount \in Nat, t.pot = s.pot + amount, t.player[p].paid = s.player[p].paid + amount,
           \A q \in Roster(s) \ {p} : t.player[q].paid = s.player[q].paid
    PROVE  Balanced(t)
<1> DEFINE R == Roster(s)
           f == [q \in R |-> s.player[q].paid]
           h == [q \in R |-> t.player[q].paid]
<1>1. IsFiniteSet(R)
  BY RosterFacts DEF Table, Roster
<1>2. f[p] \in Nat /\ h[p] = f[p] + amount /\ \A q \in R \ {p} : h[q] = f[q]
  BY DEF Balanced
<1>3. Whole(f, R)
  BY DEF Balanced, Whole
<1>4. \A q \in R : h[q] \in Nat /\ h[q] = t.player[q].paid
  BY DEF Balanced
<1>5. DOMAIN f = R /\ DOMAIN h = R
  OBVIOUS
<1> HIDE DEF f, h, R
<1>6. SumFunctionOnSet(h, R) = SumFunctionOnSet(f, R) + amount
  BY <1>1, <1>2, <1>3, SumChanged DEF R
<1>7. SumFunction(h) = SumFunction(f) + amount
  BY <1>5, <1>6 DEF SumFunction
<1> QED BY <1>4, <1>7 DEF Balanced, R, f, h

LEMMA StillBalanced ==
    ASSUME NEW s, Table(s), Balanced(s), NEW t, Roster(t) = Roster(s), t.pot = s.pot,
           \A q \in Roster(s) : t.player[q].paid = s.player[q].paid
    PROVE  Balanced(t)
<1> [q \in Roster(s) |-> t.player[q].paid] = [q \in Roster(s) |-> s.player[q].paid]
  OBVIOUS
<1> QED BY DEF Balanced

\* A round in which nobody waits for an answer.
LEMMA NothingAsked ==
    ASSUME NEW s, NEW t, s.status = "IN_PROGRESS", ShowAudit(s), SideShowAudit(s),
           s.show = None, t.status = "IN_PROGRESS", t.show = None, t.side = None,
           t.revealed = s.revealed, t.sideShows = s.sideShows, Active(t) \subseteq Active(s)
    PROVE  ShowAudit(t) /\ SideShowAudit(t)
  BY DEF ShowAudit, SideShowAudit

\* What the audit asks of a round that goes on.
Going(s) ==
    /\ s.status = "IN_PROGRESS"
    /\ Counted(s) /\ Balanced(s)
    /\ s.net = None /\ s.settlement = None
    /\ ShowAudit(s) /\ SideShowAudit(s) /\ StakesAudit(s)
    /\ Cardinality(Active(s)) >= 2 /\ s.turn \in Active(s)

LEMMA GoingAudit ==
    ASSUME NEW s
    PROVE  /\ Going(s) => Audit(s)
           /\ Audit(s) /\ s.status = "IN_PROGRESS" => Going(s)
<1>1. Counted(s) /\ Balanced(s) /\ s.net = None /\ s.status = "IN_PROGRESS" => MoneyAudit(s)
  BY DEF Counted, Balanced, MoneyAudit
<1>2. MoneyAudit(s) /\ s.status = "IN_PROGRESS" => Counted(s) /\ Balanced(s) /\ s.net = None
  BY DEF Counted, Balanced, MoneyAudit
<1>3. s.status = "IN_PROGRESS" =>
        (RoundAudit(s) <=> Cardinality(Active(s)) >= 2 /\ s.settlement = None /\ s.turn \in Active(s))
  BY DEF RoundAudit
<1> QED BY <1>1, <1>2, <1>3 DEF Going, Audit

LEMMA StakesStay ==
    ASSUME NEW s, NEW t, SameHands(s, t), StakesAudit(s), t.seenBet = s.seenBet, t.blindBet = s.blindBet
    PROVE  StakesAudit(t)
<1> Roster(t) = Roster(s)
  BY DEF SameHands, Roster
<1> QED BY DEF SameHands, StakesAudit

\* A command by which nobody pays or bets.
LEMMA MoneyStays ==
    ASSUME NEW s, Table(s), Going(s), NEW t, SameHands(s, t), NEW F, Only(s, t, F),
           F \cap {"pot", "net", "settlement", "blindBet", "seenBet", "status"} = {},
           \A q \in Roster(s), x \in {"paid", "bets", "blindBets"} : t.player[q][x] = s.player[q][x]
    PROVE  /\ Counted(t) /\ Balanced(t) /\ t.net = None /\ t.settlement = None
           /\ StakesAudit(t) /\ t.status = "IN_PROGRESS"
<1>1. Roster(t) = Roster(s)
  BY DEF SameHands, Roster
<1>2. /\ t.pot = s.pot /\ t.net = s.net /\ t.settlement = s.settlement
      /\ t.blindBet = s.blindBet /\ t.seenBet = s.seenBet /\ t.status = s.status
  BY DEF Only, Fields
<1>3. StakesAudit(t)
  BY <1>2, StakesStay DEF Going
<1>4. \A q \in Roster(s) : /\ t.player[q].paid = s.player[q].paid
                           /\ t.player[q].bets = s.player[q].bets
                           /\ t.player[q].blindBets = s.player[q].blindBets
  OBVIOUS
<1>5. Counted(t)
  BY <1>1, <1>4 DEF Going, Counted
<1>6. Balanced(t)
  BY <1>1, <1>2, <1>4, StillBalanced DEF Going
<1> QED BY <1>2, <1>3, <1>5, <1>6 DEF Going

LEMMA SeeCardsAudit ==
    ASSUME NEW p \in Roster(state), HandsInv(state), Going(state), SeeCards(p)
    PROVE  Going(state')
<1> DEFINE v == TRUE
           s == state
           t == WithField(s, p, "seen", v)
<1>1. /\ Table(s) /\ s.status = "IN_PROGRESS" /\ s.show = None /\ s.side = None
  BY DEF HandsInv, SeeCards, CanSee, HasTurn
<1>2. state' = t
  BY DEF SeeCards, WithField
<1>3. "seen" \in PlayerFields /\ {"folded", "hand", "paid", "bets", "blindBets"} \subseteq PlayerFields \ {"seen"}
  BY DEF PlayerFields
<1> HIDE DEF v
<1>4. /\ Only(s, t, {"player"}) /\ Table(t) /\ Roster(t) = Roster(s)
      /\ \A x \in PlayerFields \ {"seen"} : t.player[p][x] = s.player[p][x]
      /\ \A q \in Roster(s) \ {p} : t.player[q] = s.player[q]
  BY <1>1, <1>3, FieldOfPlayer
<1> HIDE DEF t
<1>5. \A q \in Roster(s), x \in {"folded", "hand", "paid", "bets", "blindBets"} : t.player[q][x] = s.player[q][x]
  BY <1>3, <1>4
<1>6. Active(t) = Active(s)
  BY <1>4, <1>5 DEF Active
<1>7. /\ t.rules = s.rules /\ t.ids = s.ids /\ t.turn = s.turn
      /\ t.show = None /\ t.side = None /\ t.revealed = s.revealed /\ t.sideShows = s.sideShows
  BY <1>1, <1>4 DEF Only, Fields
<1>8. SameHands(s, t)
  BY <1>4, <1>5, <1>7 DEF SameHands
<1>9. /\ Counted(t) /\ Balanced(t) /\ t.net = None /\ t.settlement = None
      /\ StakesAudit(t) /\ t.status = "IN_PROGRESS"
  BY <1>1, <1>4, <1>5, <1>8, MoneyStays
<1>10. ShowAudit(t) /\ SideShowAudit(t)
  BY <1>1, <1>6, <1>7, <1>9, NothingAsked DEF Going
<1> QED BY <1>2, <1>6, <1>7, <1>9, <1>10 DEF Going

\* The turn goes on to somebody who plays.
LEMMA TurnPasses ==
    ASSUME NEW s, Table(s), s.turn \in Roster(s), Active(s) # {}
    PROVE  LET t == WithTurn(s, NextSeat(s)) IN
           /\ Only(s, t, {"turn"}) /\ t.turn \in Active(t) /\ Active(t) = Active(s)
           /\ SameHands(s, t) /\ t.player = s.player /\ Roster(t) = Roster(s)
<1> DEFINE t == WithTurn(s, NextSeat(s))
<1>1. Only(s, t, {"turn"}) /\ t.turn = NextSeat(s)
  BY TurnIs DEF Table
<1> HIDE DEF t
<1>2. /\ Roster(t) = Roster(s) /\ Active(t) = Active(s) /\ t.player = s.player /\ SameHands(s, t)
  BY <1>1, OnlyTable
<1> QED BY <1>1, <1>2, NextSeatFacts DEF t

\* A bet is paid, counted and sets the minima; MinimaAgree(state) is needed to know that the
\* amount is a number.
LEMMA BetAudit ==
    ASSUME NEW p \in Roster(state), NEW raise \in 0..MaxRaise, StakesInv, HandsInv(state), Going(state),
           Bet(p, RequiredBet(state, p) + raise), StakesInv', StakesRise
    PROVE  Going(state')
<1> DEFINE amount == RequiredBet(state, p) + raise
           m == state.rules.multiplier
           seen == state.player[p].seen
           least == IF seen THEN amount ELSE amount * m
           s == Pays(state, p, amount)
           paid == [s EXCEPT !.player[p].bets = @ + 1,
                             !.player[p].blindBets = @ + (IF seen THEN 0 ELSE 1),
                             !.seenBet = least, !.blindBet = (least + m - 1) \div m]
           bets == s.player[p].bets + 1
           counted == WithField(s, p, "bets", bets)
           blind == counted.player[p].blindBets + (IF seen THEN 0 ELSE 1)
           bettor == WithField(counted, p, "blindBets", blind)
           raised == [bettor EXCEPT !.seenBet = least, !.blindBet = (least + m - 1) \div m]
<1>1. /\ Table(state) /\ state.status = "IN_PROGRESS" /\ state.show = None /\ state.side = None
      /\ state.turn = p /\ p \in Active(state)
  BY DEF HandsInv, Bet, HasTurn
<1>2. state' = WithTurn(paid, NextSeat(paid))
  BY DEF Bet
<1>3. amount \in Nat
  <2>1. {state.blindBet, state.seenBet} \subseteq Nat
    BY <1>1 DEF StakesInv, MinimaAgree
  <2>2. raise \in Nat
    BY BoundsAssumption
  <2> QED BY <2>1, <2>2 DEF RequiredBet
<1>4. {"paid", "bets", "blindBets", "folded", "hand"} \subseteq PlayerFields
  BY DEF PlayerFields
<1> HIDE DEF amount, seen, least, m
<1>5. /\ Only(state, s, {"player", "pot"}) /\ Roster(s) = Roster(state)
      /\ SameHands(state, s) /\ Active(s) = Active(state) /\ Table(s)
      /\ s.pot = state.pot + amount /\ s.player[p].paid = state.player[p].paid + amount
      /\ \A q \in Roster(state), x \in PlayerFields \ {"paid"} : s.player[q][x] = state.player[q][x]
      /\ \A q \in Roster(state) \ {p} : s.player[q] = state.player[q]
  BY <1>1, PaysIs DEF SameHands
<1>6. paid = raised
  BY DEF WithField
<1> HIDE DEF s, paid, bets
<1>7. /\ Only(s, counted, {"player"}) /\ Table(counted) /\ Roster(counted) = Roster(s)
      /\ counted.player[p].bets = bets
      /\ \A x \in PlayerFields \ {"bets"} : counted.player[p][x] = s.player[p][x]
      /\ \A q \in Roster(s) \ {p} : counted.player[q] = s.player[q]
  BY <1>4, <1>5, FieldOfPlayer
<1> HIDE DEF counted, blind
<1>8. /\ Only(counted, bettor, {"player"}) /\ Table(bettor) /\ Roster(bettor) = Roster(counted)
      /\ bettor.player[p].blindBets = blind
      /\ \A x \in PlayerFields \ {"blindBets"} : bettor.player[p][x] = counted.player[p][x]
      /\ \A q \in Roster(s) \ {p} : bettor.player[q] = counted.player[q]
  BY <1>4, <1>5, <1>7, FieldOfPlayer
<1> HIDE DEF bettor
<1>9. Only(bettor, raised, {"seenBet", "blindBet"})
  BY <1>8 DEF Table, Only, Shaped, Fields
<1> HIDE DEF raised
<1>10. /\ Table(raised) /\ raised.player = bettor.player /\ Roster(raised) = Roster(state)
       /\ Active(raised) = Active(bettor)
  BY <1>5, <1>7, <1>8, <1>9, OnlyTable
<1>11. Only(state, raised, {"player", "pot", "seenBet", "blindBet"})
  BY <1>5, <1>7, <1>8, <1>9 DEF Only
<1>12. /\ raised.player[p].paid = state.player[p].paid + amount
       /\ raised.player[p].bets = state.player[p].bets + 1
       /\ raised.player[p].blindBets = state.player[p].blindBets + (IF seen THEN 0 ELSE 1)
       /\ raised.player[p].folded = state.player[p].folded /\ raised.player[p].hand = state.player[p].hand
  BY <1>4, <1>5, <1>7, <1>8, <1>10 DEF bets, blind
<1>13. \A q \in Roster(state) \ {p} : raised.player[q] = state.player[q]
  BY <1>5, <1>7, <1>8, <1>10
<1>14. Active(raised) = Active(state)
  BY <1>10, <1>12, <1>13 DEF Active
<1>15. raised.turn = p /\ raised.pot = state.pot + amount
  <2>1. raised.turn = state.turn
    BY <1>11 DEF Only, Fields
  <2>2. raised.pot = bettor.pot /\ bettor.pot = counted.pot /\ counted.pot = s.pot
    BY <1>7, <1>8, <1>9 DEF Only, Fields
  <2> QED BY <1>1, <1>5, <2>1, <2>2
<1> DEFINE t == state'
<1>16. /\ Only(raised, t, {"turn"}) /\ t.turn \in Active(t) /\ Active(t) = Active(state)
       /\ t.player = raised.player /\ Roster(t) = Roster(state)
  BY <1>1, <1>2, <1>6, <1>10, <1>14, <1>15, TurnPasses
<1>17. Only(state, t, {"player", "pot", "seenBet", "blindBet", "turn"})
  BY <1>11, <1>16 DEF Only
<1>18. /\ t.rules = state.rules /\ t.show = None /\ t.side = None
       /\ t.revealed = state.revealed /\ t.sideShows = state.sideShows
       /\ t.net = None /\ t.settlement = None /\ t.status = "IN_PROGRESS"
  BY <1>1, <1>17 DEF Only, Fields, Going
<1>19. t.pot = state.pot + amount
  BY <1>15, <1>16 DEF Only, Fields
<1>20. Balanced(t)
  BY <1>1, <1>3, <1>12, <1>13, <1>16, <1>19, PaymentBalances DEF Going
<1>21. Counted(t)
  <2>1. \A q \in Roster(state) \ {p} : /\ {t.player[q].bets, t.player[q].blindBets} \subseteq Nat
                                        /\ t.player[q].blindBets <= t.player[q].bets
    BY <1>13, <1>16 DEF Going, Counted
  <2>2. /\ {state.player[p].bets, state.player[p].blindBets} \subseteq Nat
        /\ state.player[p].blindBets <= state.player[p].bets
    BY DEF Going, Counted
  <2>3. /\ t.player[p].bets = state.player[p].bets + 1
        /\ t.player[p].blindBets = state.player[p].blindBets + (IF seen THEN 0 ELSE 1)
    BY <1>12, <1>16
  <2>4. /\ {t.player[p].bets, t.player[p].blindBets} \subseteq Nat
        /\ t.player[p].blindBets <= t.player[p].bets
    BY <2>2, <2>3
  <2> QED BY <1>16, <2>1, <2>4 DEF Counted
<1>22. ShowAudit(t) /\ SideShowAudit(t)
  BY <1>1, <1>16, <1>18, NothingAsked DEF Going
<1>23. StakesAudit(t)
  <2>1. MinimaAgree(t) /\ t.seenBet >= state.seenBet
    BY <1>1, <1>18 DEF StakesInv, StakesRise
  <2>2. /\ t.blindBet = (t.seenBet + m - 1) \div m
        /\ t.seenBet \in Nat
    BY <1>18, <2>1 DEF MinimaAgree, RoundedUp, m
  <2>3. /\ state.rules.initialBlind * m \in Nat /\ state.seenBet >= state.rules.initialBlind * m
        /\ state.seenBet \in Nat
    <3>1. state.rules.initialBlind \in Nat /\ m \in Nat
      BY <1>1, RulesAssumption DEF Table, m
    <3> QED BY <1>1, <3>1 DEF Going, StakesAudit, StakesInv, MinimaAgree, m
  <2>4. t.seenBet >= state.rules.initialBlind * m
    <3> DEFINE x == state.rules.initialBlind * m
    <3> HIDE DEF x
    <3> QED BY <2>1, <2>2, <2>3 DEF x
  <2>5. \A q \in Roster(state) : t.player[q].hand # 0
    BY <1>12, <1>13, <1>16 DEF Going, StakesAudit
  <2> QED BY <1>16, <1>18, <2>2, <2>4, <2>5 DEF StakesAudit, m
<1> QED BY <1>16, <1>18, <1>20, <1>21, <1>22, <1>23 DEF Going

-------------------------------------------------------------------------------
(* A command that ends the round *)

\* What the audit asks of a round that is to be settled: the player it is settled for, if
\* any, is one of the last two, and somebody else is left alone.
Settling(s, requester) ==
    /\ Table(s) /\ Hands(s)
    /\ Counted(s) /\ Balanced(s) /\ StakesAudit(s)
    /\ s.side = None /\ SideShowAudit(s)
    /\ requester # None => Cardinality(Active(s)) = 2
    /\ requester = None => Cardinality(Active(s)) = 1
    /\ requester = None /\ s.show # None => s.revealed \in SUBSET Roster(s) /\ Cardinality(s.revealed) = 1

\* The winners in their order, and the shares of a pot for as many.
Ordered(s, requester) == Within(Circle(s), Winners(s, requester))
Shares(pot, w) == [i \in DOMAIN w |-> (pot \div Len(w)) + (IF i <= pot % Len(w) THEN 1 ELSE 0)]

\* The settlement, field by field.
LEMMA SettledIs ==
    ASSUME NEW s, Table(s), NEW requester
    PROVE  LET t == Settled(s, requester)
               w == Ordered(s, requester)
               r == t.settlement
           IN  /\ Only(s, t, {"show", "revealed", "status", "turn", "settlement"})
               /\ t.show = None /\ t.status = "FINISHED" /\ t.turn = None
               /\ r = [reason |-> r.reason, winners |-> r.winners, shown |-> r.shown, payouts |-> r.payouts]
               /\ r.winners = w /\ r.payouts = Shares(s.pot, w)
               /\ requester # None => r.reason = "SHOW" /\ r.shown = Active(s)
               /\ requester = None /\ s.show # None => r.reason = "SHOW_FOLD" /\ r.shown = s.revealed
               /\ requester = None /\ s.show = None => r.reason = "LAST_PLAYER_REMAINING" /\ r.shown = {}
<1> DEFINE t == Settled(s, requester)
           w == Ordered(s, requester)
           pay == Shares(s.pot, w)
<1>1. PICK reason, shown :
        /\ t = [s EXCEPT !.show = None, !.revealed = shown, !.status = "FINISHED", !.turn = None,
                         !.settlement = [reason |-> reason, winners |-> w, shown |-> shown, payouts |-> pay]]
        /\ requester # None => reason = "SHOW" /\ shown = Active(s)
        /\ requester = None /\ s.show # None => reason = "SHOW_FOLD" /\ shown = s.revealed
        /\ requester = None /\ s.show = None => reason = "LAST_PLAYER_REMAINING" /\ shown = {}
  BY DEF Settled, Winners, Top, Circle, Ordered, Shares
<1> HIDE DEF t, w, pay
<1>2. /\ Only(s, t, {"show", "revealed", "status", "turn", "settlement"})
      /\ t.show = None /\ t.status = "FINISHED" /\ t.turn = None
      /\ t.settlement = [reason |-> reason, winners |-> w, shown |-> shown, payouts |-> pay]
  BY <1>1 DEF Only, Table, Shaped, Fields
<1>3. /\ t.settlement.reason = reason /\ t.settlement.shown = shown
      /\ t.settlement.winners = w /\ t.settlement.payouts = pay
  BY <1>2
<1> QED BY <1>1, <1>2, <1>3 DEF t, w, pay

\* Equal portions, the first few of them greater by one.
LEMMA Portions ==
    ASSUME NEW n \in Nat \ {0}, NEW share \in Nat, NEW odd \in Nat, odd <= n,
           NEW e, \A i \in 1..n : e[i] = share + (IF i <= odd THEN 1 ELSE 0)
    PROVE  (\A i \in 1..n : e[i] \in Nat) /\ SumFunctionOnSet(e, 1..n) = n * share + odd
<1> DEFINE S == 1..n
           W == 1..odd
           f == [i \in S |-> share]
           h == [i \in S |-> IF i <= odd THEN 1 ELSE 0]
<1>1. n * share = share * n /\ n * share \in Int
  OBVIOUS
<1>2. \A i \in 1..n : e[i] \in Nat
  BY <1>1
<1>3. W \in SUBSET S /\ \A i \in S : h[i] = IF i \in W THEN 1 ELSE 0
  BY <1>1
<1>4. /\ IsFiniteSet(S) /\ Cardinality(S) = n
      /\ IsFiniteSet(W) /\ Cardinality(W) = odd
  <2>1. 1 \in Int /\ n \in Int /\ odd \in Int
    BY <1>1
  <2>2. /\ IsFiniteSet(1..n) /\ Cardinality(1..n) = IF 1 > n THEN 0 ELSE n - 1 + 1
    BY <2>1, FS_Interval
  <2>3. /\ IsFiniteSet(1..odd) /\ Cardinality(1..odd) = IF 1 > odd THEN 0 ELSE odd - 1 + 1
    BY <2>1, FS_Interval
  <2> QED BY <1>1, <2>2, <2>3
<1>5. \A i \in S : e[i] = f[i] + h[i] /\ f[i] = share
  OBVIOUS
<1> HIDE DEF S, W, f, h
<1>6. Whole(f, S) /\ Whole(h, S) /\ (\A i \in S \ W : h[i] = 0) /\ (\A i \in W : h[i] = 1)
  BY <1>1, <1>3, <1>5 DEF Whole
<1>7. SumFunctionOnSet(f, S) = share * n
  <2>1. share \in Int /\ \A i \in S : f[i] = share
    BY <1>1, <1>5
  <2>2. SumFunctionOnSet(f, S) = share * Cardinality(S)
    BY <1>4, <2>1, SumConstant, Zenon
  <2> QED BY <1>4, <2>2
<1>8. SumFunctionOnSet(h, S) = SumFunctionOnSet(h, W)
  BY <1>3, <1>4, <1>6, SumWithin
<1>9. SumFunctionOnSet(h, W) = 1 * odd
  <2>1. 1 \in Int /\ \A i \in W : h[i] = 1
    BY <1>6
  <2>2. SumFunctionOnSet(h, W) = 1 * Cardinality(W)
    BY <1>4, <2>1, SumConstant, Zenon
  <2> QED BY <1>4, <2>2
<1>10. SumFunctionOnSet(e, S) = SumFunctionOnSet(f, S) + SumFunctionOnSet(h, S)
  <2>1. \A i \in S : e[i] = f[i] + h[i]
    BY <1>5
  <2> QED BY <1>4, <1>6, <2>1, SumPlus, SMTT(30)
<1> QED BY <1>1, <1>2, <1>7, <1>8, <1>9, <1>10 DEF S

\* The shares of a pot add up to it.
LEMMA SharesAddUp ==
    ASSUME NEW pot \in Nat, NEW S, NEW w \in Seq(S), Len(w) # 0
    PROVE  LET e == Shares(pot, w) IN
           e \in Seq(Nat) /\ Len(e) = Len(w) /\ SumFunctionOnSet(e, 1..Len(w)) = pot
<1> DEFINE n == Len(w)
           share == pot \div n
           odd == pot % n
           e == Shares(pot, w)
<1>1. n \in Nat \ {0} /\ DOMAIN w = 1..n
  OBVIOUS
<1>2. /\ e = [i \in 1..n |-> e[i]]
      /\ \A i \in 1..n : e[i] = share + (IF i <= odd THEN 1 ELSE 0)
  BY <1>1 DEF Shares
<1> HIDE DEF e, n
<1>3. (\A i \in 1..n : e[i] \in Nat) /\ SumFunctionOnSet(e, 1..n) = pot
  <2>1. share \in Nat /\ odd \in Nat /\ odd <= n /\ pot = n * share + odd
    BY <1>1, Division, Quotient
  <2> HIDE DEF share, odd
  <2> QED BY <1>1, <1>2, <2>1, Portions
<1>4. e \in Seq(Nat) /\ Len(e) = n
  BY <1>1, <1>2, <1>3
<1> QED BY <1>3, <1>4 DEF e, n

\* What is paid out to players, each at one place of a list, is what is listed.
PaysWinners(r, R) ==
    /\ r.winners \in Seq(R)
    /\ \A i, j \in 1..Len(r.winners) : r.winners[i] = r.winners[j] => i = j
    /\ \A i \in 1..Len(r.winners) : r.payouts[i] \in Nat

LEMMA PayoutsAddUp ==
    ASSUME NEW t, IsFiniteSet(Roster(t)), PaysWinners(t.settlement, Roster(t))
    PROVE  /\ \A p \in Roster(t) : Payout(t, p) \in Nat
           /\ SumFunctionOnSet([p \in Roster(t) |-> Payout(t, p)], Roster(t))
                = SumFunctionOnSet(t.settlement.payouts, 1..Len(t.settlement.winners))
<1> DEFINE w == t.settlement.winners
           e == t.settlement.payouts
           R == Roster(t)
           S == 1..Len(w)
           W == {w[i] : i \in S}
           f == [p \in R |-> Payout(t, p)]
<1>0. /\ w \in Seq(R) /\ (\A i, j \in S : w[i] = w[j] => i = j) /\ \A i \in S : e[i] \in Nat
  BY DEF PaysWinners
<1>11. w = t.settlement.winners /\ e = t.settlement.payouts
  OBVIOUS
<1> HIDE DEF w, e
<1>1. DOMAIN w = S /\ Len(w) \in Nat /\ W \in SUBSET R /\ ToSet(w) = W
  BY <1>0 DEF ToSet
<1>2. \A i \in S : Payout(t, w[i]) = e[i]
  <2> SUFFICES ASSUME NEW i \in S PROVE Payout(t, w[i]) = e[i]
    OBVIOUS
  <2>1. w[i] \in ToSet(w) /\ (CHOOSE j \in DOMAIN w : w[j] = w[i]) = i
    BY <1>0, <1>1
  <2> QED BY <1>11, <2>1 DEF Payout
<1>3. \A p \in R \ W : Payout(t, p) = 0
  BY <1>1, <1>11 DEF Payout
<1>4. IsFiniteSet(S)
  BY <1>1, FS_Interval
<1>5. \A p \in R : f[p] = Payout(t, p)
  OBVIOUS
<1>6. \A p \in W : \E i \in S : p = w[i]
  OBVIOUS
<1> HIDE DEF f, S, R
<1>7. \A p \in R : Payout(t, p) \in Nat
  BY <1>0, <1>2, <1>3, <1>6
<1>8. Whole(f, R) /\ Whole(e, S) /\ (\A p \in R \ W : f[p] = 0) /\ (\A i \in S : f[w[i]] = e[i])
  BY <1>0, <1>1, <1>2, <1>3, <1>5, <1>7 DEF Whole
<1>9. SumFunctionOnSet(f, R) = SumFunctionOnSet(f, W)
  <2> HIDE DEF W
  <2> QED BY <1>1, <1>8, SumWithin DEF R
<1>10. SumFunctionOnSet(f, W) = SumFunctionOnSet(e, S)
  <2>1. \A i, j \in S : w[i] = w[j] => i = j
    BY <1>0
  <2> QED BY <1>4, <1>8, <2>1, SumRenamed, SMTT(30)
<1> QED BY <1>7, <1>9, <1>10, <1>11 DEF R, S, f

LEMMA SomebodyWins ==
    ASSUME NEW s, Table(s), Hands(s), Active(s) # {}, NEW requester
    PROVE  Winners(s, requester) # {} /\ Winners(s, requester) \subseteq Active(s)
<1> DEFINE M == {s.player[q].hand : q \in Active(s)}
<1>1. M \in SUBSET (0..HandMax) /\ M # {} /\ HandMax \in Nat
  <2>1. HandMax \in Nat
    BY BoundsAssumption
  <2>2. \A q \in Active(s) : s.player[q].hand \in 0..HandMax
    BY <2>1, ActiveFacts DEF Hands
  <2> QED BY <2>1, <2>2
<1>2. \A x \in M : \E q \in Active(s) : s.player[q].hand = x
  OBVIOUS
<1> HIDE DEF M
<1>3. Max(M) \in M
  BY <1>1, GreatestNumber DEF Max
<1>4. Top(s) = {q \in Active(s) : s.player[q].hand = Max(M)}
  BY DEF Top, M
<1>5. Top(s) # {} /\ Top(s) \subseteq Active(s)
  BY <1>2, <1>3, <1>4
<1>6. ASSUME Cardinality(Top(s)) > 1 PROVE Top(s) \ {requester} # {}
  <2> SUFFICES ASSUME Top(s) \subseteq {requester} PROVE FALSE
    OBVIOUS
  <2>1. Top(s) = {requester}
    BY <1>5
  <2>2. Cardinality({requester}) = 1
    BY FS_Singleton
  <2> QED BY <1>6, <2>1, <2>2
<1>7. \/ Winners(s, requester) = Active(s)
      \/ Cardinality(Top(s)) > 1 /\ Winners(s, requester) = Top(s) \ {requester}
      \/ Winners(s, requester) = Top(s)
  BY DEF Winners
<1> QED BY <1>5, <1>6, <1>7

LEMMA OrderedFacts ==
    ASSUME NEW s, Table(s), NEW requester, Winners(s, requester) \subseteq Roster(s)
    PROVE  LET w == Ordered(s, requester) IN
           /\ w \in Seq(Roster(s)) /\ Len(w) \in Nat
           /\ {w[k] : k \in 1..Len(w)} = Winners(s, requester)
           /\ \A i, j \in 1..Len(w) : w[i] = w[j] => i = j
<1> DEFINE W == Winners(s, requester)
           w == Within(Circle(s), W)
           c == Circle(s)
<1>1. /\ c \in Seq(Roster(s)) /\ Len(c) = Len(s.ids)
      /\ \A j, k \in 1..Len(c) : c[j] = c[k] => j = k
  BY CircleFacts
<1>2. /\ w \in Seq(Roster(s)) /\ Len(w) \in Nat
      /\ {w[k] : k \in 1..Len(w)} = {c[i] : i \in 1..Len(c)} \cap W
      /\ \A i, j \in 1..Len(w) : w[i] = w[j] => i = j
  BY CircleFacts, WithinFacts
<1>3. Roster(s) \subseteq {c[i] : i \in 1..Len(c)}
  <2>1. s.dealer \in Roster(s)
    BY DEF Table
  <2>2. \A q \in Roster(s) : \E k \in 1..Len(s.ids) : Clockwise(s, s.dealer, k) = q
    BY <2>1, AroundTable
  <2>3. \A k \in 1..Len(s.ids) : c[k] = Clockwise(s, s.dealer, k)
    BY DEF Circle
  <2> QED BY <1>1, <2>2, <2>3
<1>4. Ordered(s, requester) = w /\ W \subseteq Roster(s)
  BY DEF Ordered
<1> HIDE DEF w, c, W
<1> QED BY <1>2, <1>3, <1>4 DEF W

\* What a settlement has recorded of the money when the round is finished.
LEMMA FinishedMoney ==
    ASSUME NEW s, NEW requester, Settling(s, requester), NEW u, u = Settled(s, requester)
    PROVE  LET t == Finished(u)
               r == t.settlement
           IN  /\ Only(u, t, {"net"}) /\ SameHands(s, t) /\ Active(t) = Active(s)
               /\ MoneyAudit(t)
               /\ r.winners # << >> /\ IsInjective(r.winners) /\ ToSet(r.winners) \subseteq Active(t)
               /\ Len(r.payouts) = Len(r.winners)
               /\ ToSet(r.payouts) \subseteq Nat /\ SumFunction(r.payouts) = t.pot
               /\ r.winners \in Seq(PlayerIds) /\ r.payouts \in Seq(Nat)
<1> DEFINE R == Roster(s)
           W == Winners(s, requester)
           w == Ordered(s, requester)
           n == Len(w)
           e == Shares(s.pot, w)
           f == [p \in R |-> Payout(u, p)]
           paid == [p \in R |-> s.player[p].paid]
           net == [p \in R |-> Payout(u, p) - s.player[p].paid]
           t == Finished(u)
<1>1. /\ Table(s) /\ Hands(s) /\ Active(s) # {} /\ Counted(s) /\ Balanced(s)
  <2>1. Cardinality(Active(s)) # 0
    BY DEF Settling
  <2> QED BY <2>1, FS_EmptySet DEF Settling
<1>2. /\ Only(s, u, {"show", "revealed", "status", "turn", "settlement"})
      /\ u.status = "FINISHED" /\ u.settlement.winners = w /\ u.settlement.payouts = e
  BY <1>1, SettledIs
<1>3. /\ W # {} /\ W \subseteq Active(s) /\ Active(s) \subseteq R /\ R \subseteq PlayerIds
      /\ IsFiniteSet(R)
  BY <1>1, SomebodyWins, ActiveFacts, RosterFacts DEF Table, Roster
<1>4. Table(u) /\ Roster(u) = R /\ Active(u) = Active(s) /\ u.player = s.player
  BY <1>1, <1>2, OnlyTable
<1>5. /\ w \in Seq(R) /\ n \in Nat
      /\ {w[k] : k \in 1..n} = W
      /\ \A i, j \in 1..n : w[i] = w[j] => i = j
  BY <1>1, <1>3, OrderedFacts
<1>6. DOMAIN w = 1..n /\ n # 0 /\ w # << >> /\ ToSet(w) = W /\ IsInjective(w) /\ w \in Seq(PlayerIds)
  <2> HIDE DEF w, W, R
  <2>1. DOMAIN w = 1..n /\ ToSet(w) = W
    BY <1>5 DEF ToSet
  <2>2. n # 0 /\ w # << >>
    BY <1>3, <1>5
  <2>3. w \in Seq(PlayerIds)
    BY <1>3, <1>5
  <2> QED BY <1>5, <2>1, <2>2, <2>3 DEF IsInjective
<1> HIDE DEF w, W
<1>7. s.pot \in Nat
  <2>1. /\ \A q \in R : paid[q] \in Nat
        /\ s.pot = SumFunctionOnSet(paid, R)
    BY <1>1 DEF Balanced, SumFunction
  <2> HIDE DEF paid
  <2> QED BY <1>3, <2>1, SumNatural
<1>8. e \in Seq(Nat) /\ Len(e) = n /\ SumFunctionOnSet(e, 1..n) = s.pot
  BY <1>5, <1>6, <1>7, SharesAddUp
<1> HIDE DEF e, f
<1>9. DOMAIN e = 1..n /\ \A i \in 1..n : e[i] \in Nat
  BY <1>8
<1>10. ToSet(e) \subseteq Nat /\ SumFunction(e) = s.pot
  BY <1>8, <1>9 DEF ToSet, SumFunction
<1>11. /\ \A p \in R : Payout(u, p) \in Nat
       /\ SumFunctionOnSet(f, R) = SumFunctionOnSet(e, 1..n)
  <2>1. IsFiniteSet(Roster(u)) /\ PaysWinners(u.settlement, Roster(u))
    BY <1>2, <1>3, <1>4, <1>5, <1>9 DEF PaysWinners
  <2>2. /\ \A p \in Roster(u) : Payout(u, p) \in Nat
        /\ SumFunctionOnSet([p \in Roster(u) |-> Payout(u, p)], Roster(u))
             = SumFunctionOnSet(u.settlement.payouts, 1..Len(u.settlement.winners))
    BY <2>1, PayoutsAddUp
  <2> QED BY <1>2, <1>4, <2>2 DEF f
<1>12. t.net = net /\ Only(u, t, {"net"})
  <2>1. Shaped(u)
    BY <1>4 DEF Table
  <2>2. [p \in Roster(u) |-> Payout(u, p) - u.player[p].paid] = net
    BY <1>4
  <2>3. t = [u EXCEPT !.net = net]
    BY <2>2 DEF Finished
  <2> HIDE DEF net, t
  <2> QED BY <2>1, <2>3 DEF Only, Shaped, Fields
<1> HIDE DEF t
<1>13. /\ Table(t) /\ Roster(t) = R /\ Active(t) = Active(s) /\ t.player = s.player
       /\ SameHands(u, t)
  BY <1>4, <1>12, OnlyTable
<1>14. /\ t.status = "FINISHED" /\ t.pot = s.pot /\ t.settlement = u.settlement
       /\ t.rules = s.rules /\ t.ids = s.ids
  <2>1. t.status = u.status /\ t.pot = u.pot /\ t.settlement = u.settlement /\ t.rules = u.rules /\ t.ids = u.ids
    BY <1>12 DEF Only, Fields
  <2>2. u.pot = s.pot /\ u.rules = s.rules /\ u.ids = s.ids
    BY <1>2 DEF Only, Fields
  <2> QED BY <1>2, <2>1, <2>2
<1>15. SameHands(s, t)
  BY <1>13, <1>14 DEF SameHands
<1>16. \A p \in Roster(t) : Payout(t, p) = Payout(u, p)
  BY <1>14 DEF Payout
<1>17. t.net = [p \in Roster(t) |-> Payout(t, p) - t.player[p].paid]
  BY <1>12, <1>13, <1>16
<1>18. SumFunction(t.net) = 0
  <2>1. Whole(f, R) /\ Whole(paid, R) /\ \A p \in R : net[p] = f[p] - paid[p]
    BY <1>1, <1>11 DEF Whole, Balanced, f
  <2>2. DOMAIN t.net = R
    BY <1>12
  <2>3. SumFunctionOnSet(paid, R) = s.pot
    BY <1>1 DEF Balanced, SumFunction
  <2>4. SumFunctionOnSet(net, R) = SumFunctionOnSet(f, R) - SumFunctionOnSet(paid, R)
    <3> HIDE DEF net, paid
    <3> QED BY <1>3, <2>1, SumMinus
  <2> HIDE DEF net, paid
  <2> QED BY <1>7, <1>8, <1>11, <1>12, <2>2, <2>3, <2>4 DEF SumFunction
<1>19. t.net # None
  <2>1. net \in [R -> Int]
    BY <1>1, <1>11 DEF Balanced
  <2> QED BY <1>3, <1>12, <2>1, PlayersAssumption
<1>20. MoneyAudit(t)
  <2>1. \A p \in Roster(t) : LET q == t.player[p] IN {q.paid, q.bets, q.blindBets} \subseteq Nat /\ q.blindBets <= q.bets
    BY <1>1, <1>13 DEF Balanced, Counted
  <2>2. t.pot = SumFunction([p \in Roster(t) |-> t.player[p].paid])
    BY <1>1, <1>13, <1>14 DEF Balanced
  <2> QED BY <1>14, <1>17, <1>18, <1>19, <2>1, <2>2 DEF MoneyAudit
<1> QED BY <1>2, <1>3, <1>6, <1>8, <1>9, <1>10, <1>12, <1>13, <1>14, <1>15, <1>20 DEF t

\* A settled round passes the audit.
LEMMA EndsAudit ==
    ASSUME NEW s, NEW requester, Settling(s, requester)
    PROVE  Audit(Finished(Settled(s, requester)))
<1> DEFINE u == Settled(s, requester)
           t == Finished(u)
           r == t.settlement
<1>1. Table(s)
  BY DEF Settling
<1>2. /\ Only(s, u, {"show", "revealed", "status", "turn", "settlement"})
      /\ u.show = None /\ u.status = "FINISHED" /\ u.turn = None
      /\ LET x == u.settlement IN
           x = [reason |-> x.reason, winners |-> x.winners, shown |-> x.shown, payouts |-> x.payouts]
      /\ requester # None => u.settlement.reason = "SHOW" /\ u.settlement.shown = Active(s)
      /\ requester = None /\ s.show # None =>
           u.settlement.reason = "SHOW_FOLD" /\ u.settlement.shown = s.revealed
      /\ requester = None /\ s.show = None =>
           u.settlement.reason = "LAST_PLAYER_REMAINING" /\ u.settlement.shown = {}
  BY <1>1, SettledIs
<1> HIDE DEF u
<1>3. /\ Only(u, t, {"net"}) /\ SameHands(s, t) /\ Active(t) = Active(s)
      /\ MoneyAudit(t)
      /\ r.winners # << >> /\ IsInjective(r.winners) /\ ToSet(r.winners) \subseteq Active(t)
      /\ Len(r.payouts) = Len(r.winners)
      /\ ToSet(r.payouts) \subseteq Nat /\ SumFunction(r.payouts) = t.pot
      /\ r.winners \in Seq(PlayerIds) /\ r.payouts \in Seq(Nat)
  BY FinishedMoney DEF u
<1> HIDE DEF t
<1>4. /\ t.show = None /\ t.status = "FINISHED" /\ t.turn = None /\ r = u.settlement
  BY <1>2, <1>3 DEF Only, Fields
<1>5. Only(s, t, {"show", "revealed", "status", "turn", "settlement", "net"})
  BY <1>2, <1>3 DEF Only
<1>6. /\ t.side = s.side /\ t.sideShows = s.sideShows /\ t.seenBet = s.seenBet /\ t.blindBet = s.blindBet
      /\ t.rules = s.rules
  BY <1>5 DEF Only, Fields
<1>7. ShowAudit(t)
  BY <1>4 DEF ShowAudit
<1>8. SideShowAudit(t)
  BY <1>3, <1>6 DEF SideShowAudit, Settling
<1>9. StakesAudit(t)
  BY <1>3, <1>6, StakesStay DEF Settling
<1>10. /\ r.reason \in {"SHOW", "SHOW_FOLD", "LAST_PLAYER_REMAINING"} /\ r.shown \in SUBSET PlayerIds
       /\ CASE r.reason = "LAST_PLAYER_REMAINING" -> Cardinality(Active(t)) = 1 /\ r.shown = {}
            [] r.reason = "SHOW_FOLD" -> Cardinality(Active(t)) = 1 /\ Cardinality(r.shown) = 1
            [] OTHER -> Cardinality(Active(t)) = 2 /\ r.shown = Active(t)
  <2>0. Active(s) \subseteq PlayerIds /\ Roster(s) \subseteq PlayerIds
    BY <1>1, ActiveFacts
  <2>1. CASE requester # None
    BY <1>2, <1>3, <1>4, <2>0, <2>1 DEF Settling
  <2>2. CASE requester = None /\ s.show # None
    BY <1>2, <1>3, <1>4, <2>0, <2>2 DEF Settling
  <2>3. CASE requester = None /\ s.show = None
    BY <1>2, <1>3, <1>4, <2>0, <2>3 DEF Settling
  <2> QED BY <2>1, <2>2, <2>3
<1>11. r # None
  <2>1. r = [reason |-> r.reason, winners |-> r.winners, shown |-> r.shown, payouts |-> r.payouts]
    BY <1>2, <1>4
  <2> HIDE DEF r
  <2>2. r \in [reason : {"SHOW", "SHOW_FOLD", "LAST_PLAYER_REMAINING"}, winners : Seq(PlayerIds),
               shown : SUBSET PlayerIds, payouts : Seq(Nat)]
    BY <1>3, <1>10, <2>1
  <2> QED BY <2>2, PlayersAssumption
<1>12. RoundAudit(t)
  BY <1>3, <1>4, <1>10, <1>11 DEF RoundAudit
<1> QED BY <1>3, <1>4, <1>7, <1>8, <1>9, <1>12 DEF Audit, t, u

-------------------------------------------------------------------------------
(* The departures *)

\* What is left of a round when a player has folded.
LEMMA FoldLeaves ==
    ASSUME NEW s, Table(s), Hands(s), Going(s), NEW p \in Active(s), NEW t, t = Folded(s, p)
    PROVE  /\ Only(s, t, {"player"}) /\ SameHands(s, t) /\ Active(t) = Active(s) \ {p} /\ Hands(t)
           /\ Roster(t) = Roster(s) /\ Cardinality(Active(t)) = Cardinality(Active(s)) - 1
           /\ Cardinality(Active(t)) \in Nat \ {0} /\ Cardinality(Active(s)) \in Nat
           /\ Counted(t) /\ Balanced(t) /\ t.net = None /\ t.settlement = None
           /\ StakesAudit(t) /\ t.status = "IN_PROGRESS" /\ t.turn = s.turn /\ t.show = s.show
           /\ t.side = s.side /\ t.sideShows = s.sideShows /\ t.revealed = s.revealed /\ t.rules = s.rules
           /\ \A q \in Roster(s) : t.player[q].seen = s.player[q].seen
<1>1. p \in Roster(s) /\ {"paid", "bets", "blindBets", "seen"} \subseteq PlayerFields \ {"folded"}
  BY DEF Active, PlayerFields
<1>2. /\ Only(s, t, {"player"}) /\ Roster(t) = Roster(s)
      /\ SameHands(s, t) /\ Active(t) = Active(s) \ {p}
      /\ \A q \in Roster(s), x \in PlayerFields \ {"folded"} : t.player[q][x] = s.player[q][x]
  BY <1>1, FoldedIs
<1>3. \A q \in Roster(s), x \in {"paid", "bets", "blindBets", "seen"} : t.player[q][x] = s.player[q][x]
  BY <1>1, <1>2
<1>4. /\ Counted(t) /\ Balanced(t) /\ t.net = None /\ t.settlement = None
      /\ StakesAudit(t) /\ t.status = "IN_PROGRESS"
  BY <1>2, <1>3, MoneyStays
<1>5. /\ t.turn = s.turn /\ t.show = s.show /\ t.rules = s.rules
      /\ t.side = s.side /\ t.sideShows = s.sideShows /\ t.revealed = s.revealed
  BY <1>2 DEF Only, Fields
<1>6. Hands(t)
  BY <1>2 DEF Hands, SameHands
<1>7. /\ Cardinality(Active(t)) = Cardinality(Active(s)) - 1
      /\ Cardinality(Active(s)) \in Nat /\ Cardinality(Active(s)) >= 2
  BY <1>2, ActiveFacts DEF Going
<1> QED BY <1>2, <1>3, <1>4, <1>5, <1>6, <1>7

\* Whoever has lost a side-show has not come back.
LEMMA LosersStayOut ==
    ASSUME NEW s, NEW t, SideShowAudit(s), t.side = None, t.sideShows = s.sideShows,
           Active(t) \subseteq Active(s)
    PROVE  SideShowAudit(t)
  BY DEF SideShowAudit


\* A round in which the turn can pass on.
Ready(s) ==
    /\ Table(s) /\ s.turn \in Roster(s) /\ Cardinality(Active(s)) >= 2
    /\ Counted(s) /\ Balanced(s) /\ s.net = None /\ s.settlement = None
    /\ StakesAudit(s) /\ SideShowAudit(s) /\ s.status = "IN_PROGRESS"
    /\ s.show = None /\ s.side = None /\ s.revealed = {}

LEMMA ReadyGoesOn ==
    ASSUME NEW s, Ready(s)
    PROVE  Going(WithTurn(s, NextSeat(s)))
<1> DEFINE t == WithTurn(s, NextSeat(s))
<1>1. Active(s) # {} /\ Table(s) /\ s.turn \in Roster(s)
  <2>1. Cardinality(Active(s)) # 0
    BY DEF Ready
  <2> QED BY <2>1, FS_EmptySet DEF Ready
<1>2. /\ Only(s, t, {"turn"}) /\ t.turn \in Active(t) /\ Active(t) = Active(s)
      /\ SameHands(s, t) /\ t.player = s.player /\ Roster(t) = Roster(s)
  BY <1>1, TurnPasses
<1> HIDE DEF t
<1>3. /\ t.status = s.status /\ t.show = s.show /\ t.side = s.side /\ t.revealed = s.revealed
      /\ t.sideShows = s.sideShows /\ t.net = s.net /\ t.settlement = s.settlement
      /\ t.pot = s.pot /\ t.seenBet = s.seenBet /\ t.blindBet = s.blindBet
  BY <1>2 DEF Only, Fields
<1>4. Counted(t) /\ Balanced(t)
  BY <1>2, <1>3 DEF Ready, Counted, Balanced
<1>5. StakesAudit(t) /\ SideShowAudit(t) /\ ShowAudit(t)
  BY <1>2, <1>3, StakesStay, LosersStayOut DEF Ready, ShowAudit
<1> QED BY <1>2, <1>3, <1>4, <1>5 DEF Going, Ready, t

LEMMA FoldAudit ==
    ASSUME NEW p \in Roster(state), HandsInv(state), Going(state), Fold(p)
    PROVE  Audit(state')
<1> DEFINE s == Folded(state, p)
<1>1. /\ Table(state) /\ Hands(state) /\ state.status = "IN_PROGRESS" /\ state.show = None
      /\ state.side = None /\ p \in Active(state) /\ state.turn = p
  BY DEF HandsInv, Playing, Fold, HasTurn
<1>2. state' = IF Cardinality(Active(s)) = 1 THEN Finished(Settled(s, None)) ELSE WithTurn(s, NextSeat(s))
  BY DEF Fold
<1>3. /\ Only(state, s, {"player"}) /\ SameHands(state, s) /\ Active(s) = Active(state) \ {p} /\ Hands(s)
      /\ Roster(s) = Roster(state) /\ Cardinality(Active(s)) \in Nat \ {0}
      /\ Counted(s) /\ Balanced(s) /\ s.net = None /\ s.settlement = None
      /\ StakesAudit(s) /\ s.status = "IN_PROGRESS" /\ s.turn = state.turn /\ s.show = state.show
      /\ s.side = state.side /\ s.sideShows = state.sideShows /\ s.revealed = state.revealed
  BY <1>1, FoldLeaves
<1> HIDE DEF s
<1>4. Table(s) /\ SideShowAudit(s) /\ s.revealed = {}
  BY <1>1, <1>3, LosersStayOut DEF SameHands, Going, ShowAudit
<1>5. CASE Cardinality(Active(s)) = 1
  <2>1. Settling(s, None)
    BY <1>1, <1>3, <1>4, <1>5 DEF Settling
  <2> QED BY <1>2, <1>5, <2>1, EndsAudit
<1>6. CASE Cardinality(Active(s)) # 1
  <2>1. Ready(s)
    BY <1>1, <1>3, <1>4, <1>6 DEF Ready
  <2> QED BY <1>2, <1>6, <2>1, ReadyGoesOn, GoingAudit
<1> QED BY <1>5, <1>6

\* A departure during a show leaves one player.  A departure during a side-show ends it unless
\* it concerns neither of its players and leaves a third.
LEMMA FoldForLeaveAudit ==
    ASSUME NEW p \in Roster(state), HandsInv(state), Going(state), FoldForLeave(p)
    PROVE  Audit(state')
<1> DEFINE s == Folded(state, p)
           asked == {state.side.requester, state.side.target}
           ends == /\ state.side # None
                   /\ p \in asked \/ Cardinality(Active(s)) < 3
           freed == IF ends THEN [s EXCEPT !.side = None, !.turn = state.side.requester] ELSE s
<1>1. /\ Table(state) /\ Hands(state) /\ state.status = "IN_PROGRESS" /\ p \in Active(state)
  BY DEF HandsInv, Playing, FoldForLeave
<1>2. /\ Cardinality(Active(freed)) = 1 => state' = Finished(Settled(freed, None))
      /\ Cardinality(Active(freed)) # 1 /\ (state.turn = p \/ ends) =>
           state' = WithTurn(freed, NextSeat(freed))
      /\ Cardinality(Active(freed)) # 1 /\ ~(state.turn = p \/ ends) => state' = freed
  BY DEF FoldForLeave
<1>3. /\ Only(state, s, {"player"}) /\ SameHands(state, s) /\ Active(s) = Active(state) \ {p} /\ Hands(s)
      /\ Roster(s) = Roster(state) /\ Cardinality(Active(s)) = Cardinality(Active(state)) - 1
      /\ Cardinality(Active(s)) \in Nat \ {0} /\ Cardinality(Active(state)) \in Nat /\ Table(s)
      /\ Counted(s) /\ Balanced(s) /\ s.net = None /\ s.settlement = None
      /\ StakesAudit(s) /\ s.status = "IN_PROGRESS" /\ s.turn = state.turn /\ s.show = state.show
      /\ s.side = state.side /\ s.sideShows = state.sideShows /\ s.revealed = state.revealed
      /\ s.rules = state.rules
      /\ \A q \in Roster(state) : s.player[q].seen = state.player[q].seen
  BY <1>1, FoldLeaves DEF SameHands
<1>4. /\ state.side # None => /\ asked \subseteq Active(state) /\ Cardinality(Active(state)) >= 3
                              /\ state.turn = state.side.target /\ state.show = None
      /\ state.show # None => Cardinality(Active(state)) = 2 /\ state.side = None
                              /\ state.revealed = {state.show.requester} /\ state.show.requester \in Active(state)
      /\ state.show = None => state.revealed = {}
      /\ state.turn \in Active(state) /\ Active(state) \subseteq Roster(state)
  <2>1. /\ state.side # None => /\ asked \subseteq Active(state) /\ Cardinality(Active(state)) >= 3
                                /\ state.turn = state.side.target
        /\ state.turn \in Active(state)
    BY DEF Going, SideShowAudit
  <2>2. /\ state.show # None => state.side = None /\ state.revealed = {state.show.requester}
        /\ state.show = None => state.revealed = {}
    BY <1>1 DEF Going, ShowAudit
  <2>3. state.show # None => Cardinality(Active(state)) = 2 /\ state.show.requester \in Active(state)
    BY <1>1 DEF HandsInv, Playing, ShowOpen
  <2> QED BY <2>1, <2>2, <2>3 DEF Active
<1>5. SideShowAudit(state) /\ ShowAudit(state)
  BY DEF Going
<1>6. ends => state.side # None
  OBVIOUS
<1>7. state.side # None /\ ~ends => p \notin asked /\ Cardinality(Active(s)) >= 3
  BY <1>3
<1> HIDE DEF s, ends
<1>8. /\ Only(s, freed, {"side", "turn"})
      /\ freed.side = IF ends THEN None ELSE s.side
      /\ freed.turn = IF ends THEN state.side.requester ELSE s.turn
  BY <1>3 DEF Table, Only, Shaped, Fields
<1> HIDE DEF freed
<1>9. /\ Table(freed) /\ Roster(freed) = Roster(state) /\ Active(freed) = Active(s) /\ freed.player = s.player
      /\ SameHands(s, freed)
  BY <1>3, <1>8, OnlyTable
<1>10. /\ freed.status = "IN_PROGRESS" /\ freed.show = state.show /\ freed.revealed = state.revealed
       /\ freed.sideShows = state.sideShows /\ freed.net = None /\ freed.settlement = None
       /\ freed.pot = s.pot /\ freed.seenBet = s.seenBet /\ freed.blindBet = s.blindBet
       /\ freed.rules = state.rules
  BY <1>3, <1>8 DEF Only, Fields
<1>11. Counted(freed) /\ Balanced(freed) /\ Hands(freed) /\ StakesAudit(freed)
  BY <1>3, <1>9, <1>10, StakesStay DEF Counted, Balanced, Hands
<1>12. CASE Cardinality(Active(freed)) = 1
  <2>1. Cardinality(Active(state)) = 2 /\ state.side = None
    BY <1>3, <1>4, <1>9, <1>12
  <2>2. freed.side = None
    BY <1>3, <1>6, <1>8, <2>1
  <2>3. SideShowAudit(freed)
    BY <1>3, <1>5, <1>9, <1>10, <2>2, LosersStayOut
  <2>4. freed.show # None => freed.revealed \in SUBSET Roster(freed) /\ Cardinality(freed.revealed) = 1
    <3> SUFFICES ASSUME freed.show # None
                 PROVE  freed.revealed \in SUBSET Roster(freed) /\ Cardinality(freed.revealed) = 1
      OBVIOUS
    <3>1. freed.revealed = {state.show.requester} /\ state.show.requester \in Roster(freed)
      BY <1>4, <1>9, <1>10
    <3>2. Cardinality({state.show.requester}) = 1
      BY FS_Singleton
    <3> QED BY <3>1, <3>2
  <2>5. Settling(freed, None)
    BY <1>9, <1>11, <1>12, <2>2, <2>3, <2>4 DEF Settling
  <2> QED BY <1>2, <1>12, <2>5, EndsAudit
<1>13. CASE Cardinality(Active(freed)) # 1
  <2>1. /\ Cardinality(Active(freed)) >= 2 /\ freed.show = None /\ freed.revealed = {}
    BY <1>3, <1>4, <1>9, <1>10, <1>13
  <2>2. CASE freed.side = None
    <3>1. SideShowAudit(freed)
      BY <1>3, <1>5, <1>9, <1>10, <2>2, LosersStayOut
    <3>2. freed.turn \in Roster(freed)
      BY <1>3, <1>4, <1>6, <1>8, <1>9
    <3>3. CASE state.turn = p \/ ends
      <4>1. Ready(freed)
        BY <1>9, <1>10, <1>11, <2>1, <2>2, <3>1, <3>2 DEF Ready
      <4> QED BY <1>2, <1>13, <3>3, <4>1, ReadyGoesOn, GoingAudit
    <3>4. CASE ~(state.turn = p \/ ends)
      <4>1. freed.turn \in Active(freed)
        BY <1>3, <1>4, <1>8, <1>9, <3>4
      <4>2. ShowAudit(freed)
        BY <2>1 DEF ShowAudit
      <4>3. Going(freed)
        BY <1>10, <1>11, <2>1, <3>1, <4>1, <4>2 DEF Going
      <4> QED BY <1>2, <1>13, <3>4, <4>3, GoingAudit
    <3> QED BY <3>3, <3>4
  <2>3. CASE freed.side # None
    <3>1. ~ends /\ freed.side = state.side /\ freed.turn = state.turn
      BY <1>3, <1>8, <2>3
    <3>2. p \notin asked /\ Cardinality(Active(s)) >= 3 /\ state.turn = state.side.target
      BY <1>4, <1>7, <2>3, <3>1
    <3>3. asked \subseteq Active(freed) /\ freed.turn = freed.side.target /\ freed.turn \in Active(freed)
      BY <1>3, <1>4, <1>9, <2>3, <3>1, <3>2
    <3>4. ShowAudit(freed)
      BY <2>1 DEF ShowAudit
    <3>5. SideShowAudit(freed)
      <4>1. /\ \A q \in asked : q \in Active(freed) /\ freed.player[q].seen
            /\ state.rules.allowSideShow /\ state.side.requester # state.side.target
        <5>1. \A q \in asked : q \in Roster(state) /\ freed.player[q].seen = state.player[q].seen
          BY <1>3, <1>4, <1>9, <2>3, <3>1
        <5>2. \A q \in asked : state.player[q].seen
          BY <1>5, <2>3, <3>1 DEF SideShowAudit
        <5> QED BY <1>5, <2>3, <3>1, <3>3, <5>1, <5>2 DEF SideShowAudit
      <4>2. \A r \in freed.sideShows : /\ r.requester # r.target
                                       /\ {r.winner, r.loser} = {r.requester, r.target}
                                       /\ r.loser \notin Active(freed)
        BY <1>3, <1>5, <1>9, <1>10 DEF SideShowAudit
      <4> QED BY <1>9, <1>10, <3>1, <3>2, <3>3, <4>1, <4>2 DEF SideShowAudit
    <3>6. Going(freed)
      BY <1>10, <1>11, <2>1, <3>3, <3>4, <3>5 DEF Going
    <3>7. state.turn # p
      BY <3>2
    <3> QED BY <1>2, <1>13, <3>1, <3>6, <3>7, GoingAudit
  <2> QED BY <2>2, <2>3
<1> QED BY <1>12, <1>13

-------------------------------------------------------------------------------
(* The show *)

\* What the next bet is worth is a number, and so is a show.
LEMMA RequiredIsNumber ==
    ASSUME NEW p, StakesInv, HandsInv(state), state.status = "IN_PROGRESS"
    PROVE  RequiredBet(state, p) \in Nat /\ ShowCost(state, p) \in Nat
<1>1. {state.blindBet, state.seenBet} \subseteq Nat
  BY DEF StakesInv, MinimaAgree
<1>2. state.rules.showCost \in Nat
  BY RulesAssumption DEF HandsInv, Table
<1>3. RequiredBet(state, p) \in Nat
  BY <1>1 DEF RequiredBet
<1> QED BY <1>2, <1>3 DEF ShowCost

\* What a payment leaves of a round that goes on.
LEMMA PaymentLeaves ==
    ASSUME NEW s, Table(s), Going(s), NEW p \in Roster(s), NEW amount \in Nat, NEW t, t = Pays(s, p, amount)
    PROVE  /\ Only(s, t, {"player", "pot"}) /\ SameHands(s, t) /\ Active(t) = Active(s) /\ Table(t)
           /\ Roster(t) = Roster(s) /\ Counted(t) /\ Balanced(t) /\ t.net = None /\ t.settlement = None
           /\ StakesAudit(t) /\ t.status = "IN_PROGRESS" /\ t.turn = s.turn /\ t.show = s.show
           /\ t.side = s.side /\ t.sideShows = s.sideShows /\ t.revealed = s.revealed /\ t.rules = s.rules
           /\ \A q \in Roster(s) : t.player[q].seen = s.player[q].seen
<1>1. /\ Only(s, t, {"player", "pot"}) /\ Roster(t) = Roster(s)
      /\ SameHands(s, t) /\ Active(t) = Active(s)
      /\ t.pot = s.pot + amount /\ t.player[p].paid = s.player[p].paid + amount
      /\ \A q \in Roster(s), x \in PlayerFields \ {"paid"} : t.player[q][x] = s.player[q][x]
      /\ \A q \in Roster(s) \ {p} : t.player[q] = s.player[q]
  BY PaysIs
<1>2. {"bets", "blindBets", "seen"} \subseteq PlayerFields \ {"paid"}
  BY DEF PlayerFields
<1>3. /\ t.turn = s.turn /\ t.show = s.show /\ t.rules = s.rules /\ t.status = s.status
      /\ t.side = s.side /\ t.sideShows = s.sideShows /\ t.revealed = s.revealed
      /\ t.net = s.net /\ t.settlement = s.settlement /\ t.seenBet = s.seenBet /\ t.blindBet = s.blindBet
  BY <1>1 DEF Only, Fields
<1>4. \A q \in Roster(s) \ {p} : t.player[q].paid = s.player[q].paid
  BY <1>1
<1>5. Balanced(t)
  BY <1>1, <1>4, PaymentBalances DEF Going
<1>6. \A q \in Roster(s) : /\ t.player[q].bets = s.player[q].bets
                           /\ t.player[q].blindBets = s.player[q].blindBets
                           /\ t.player[q].seen = s.player[q].seen
  BY <1>1, <1>2
<1>7. Counted(t)
  BY <1>1, <1>6 DEF Going, Counted
<1>8. StakesAudit(t)
  BY <1>1, <1>3, StakesStay DEF Going
<1> QED BY <1>1, <1>3, <1>5, <1>6, <1>7, <1>8 DEF Going, SameHands

LEMMA ShowCardsAudit ==
    ASSUME NEW p \in Roster(state), StakesInv, HandsInv(state), Going(state), ShowCards(p)
    PROVE  Going(state')
<1> DEFINE s == Pays(state, p, ShowCost(state, p))
           target == CHOOSE q \in Active(s) : q # p
           request == [requester |-> p, target |-> target]
           t == [s EXCEPT !.show = request, !.revealed = {p}, !.turn = target]
<1>1. /\ Table(state) /\ state.status = "IN_PROGRESS" /\ state.side = None /\ p \in Active(state)
      /\ Cardinality(Active(state)) = 2
  BY DEF HandsInv, ShowCards, CanShow, HasTurn
<1>2. ShowCost(state, p) \in Nat
  BY <1>1, RequiredIsNumber
<1>3. state' = t
  BY DEF ShowCards
<1>4. /\ Only(state, s, {"player", "pot"}) /\ SameHands(state, s) /\ Active(s) = Active(state) /\ Table(s)
      /\ Roster(s) = Roster(state) /\ Counted(s) /\ Balanced(s) /\ s.net = None /\ s.settlement = None
      /\ StakesAudit(s) /\ s.status = "IN_PROGRESS" /\ s.side = None /\ s.sideShows = state.sideShows
  BY <1>1, <1>2, PaymentLeaves
<1> HIDE DEF s
<1>5. target \in Active(s) /\ target # p /\ Active(s) = {p, target}
  <2>1. IsFiniteSet(Active(s)) /\ Cardinality(Active(s) \ {p}) = 1
    BY <1>1, <1>4, ActiveFacts
  <2>2. Active(s) \ {p} # {}
    BY <2>1, FS_EmptySet
  <2>3. target \in Active(s) /\ target # p
    BY <2>2
  <2> HIDE DEF target
  <2> QED BY <1>1, <1>4, <2>1, <2>3, TheTwo
<1>6. request # None /\ request.requester = p /\ request.target = target
  <2>1. request \in [requester : PlayerIds, target : PlayerIds]
    BY <1>1, <1>4, <1>5, ActiveFacts
  <2> QED BY <2>1, PlayersAssumption
<1> HIDE DEF target, request
<1>7. /\ Only(s, t, {"show", "revealed", "turn"})
      /\ t.show = request /\ t.revealed = {p} /\ t.turn = target
  BY <1>4 DEF Table, Only, Shaped, Fields
<1> HIDE DEF t
<1>8. /\ Table(t) /\ Roster(t) = Roster(s) /\ Active(t) = Active(s) /\ t.player = s.player /\ SameHands(s, t)
  BY <1>4, <1>7, OnlyTable
<1>9. /\ t.status = s.status /\ t.side = s.side /\ t.sideShows = s.sideShows /\ t.net = s.net
      /\ t.settlement = s.settlement /\ t.pot = s.pot /\ t.seenBet = s.seenBet /\ t.blindBet = s.blindBet
  BY <1>7 DEF Only, Fields
<1>10. Counted(t) /\ Balanced(t) /\ StakesAudit(t)
  BY <1>4, <1>8, <1>9, StakesStay DEF Counted, Balanced
<1>11. SideShowAudit(t)
  BY <1>4, <1>8, <1>9, LosersStayOut DEF Going
<1>12. ShowAudit(t)
  BY <1>4, <1>5, <1>6, <1>7, <1>8, <1>9 DEF ShowAudit
<1>13. Cardinality(Active(t)) >= 2 /\ t.turn \in Active(t)
  BY <1>1, <1>4, <1>5, <1>7, <1>8
<1> QED BY <1>3, <1>4, <1>9, <1>10, <1>11, <1>12, <1>13 DEF Going

LEMMA RespondShowAudit ==
    ASSUME NEW p \in Roster(state), NEW reveal, HandsInv(state), Going(state), RespondShow(p, reveal)
    PROVE  Audit(state')
<1> DEFINE s == Folded(state, p)
           requester == state.show.requester
<1>1. /\ Table(state) /\ Hands(state) /\ state.status = "IN_PROGRESS" /\ state.show # None
      /\ state.show.target = p /\ ShowOpen(state)
  BY DEF HandsInv, Playing, RespondShow
<1>2. /\ requester \in Active(state) /\ p \in Active(state) /\ Cardinality(Active(state)) = 2
      /\ requester # None /\ requester \in Roster(state)
  BY <1>1, ActiveFacts, PlayersAssumption DEF ShowOpen
<1>3. /\ state.side = None /\ state.revealed = {requester} /\ SideShowAudit(state)
  BY <1>1 DEF Going, ShowAudit
<1>4. CASE reveal
  <2>1. state' = Finished(Settled(state, requester))
    BY <1>4 DEF RespondShow
  <2>2. Settling(state, requester)
    BY <1>1, <1>2, <1>3 DEF Settling, Going
  <2> QED BY <2>1, <2>2, EndsAudit
<1>5. CASE ~reveal
  <2>1. state' = Finished(Settled(s, None))
    BY <1>5 DEF RespondShow
  <2>2. /\ SameHands(state, s) /\ Active(s) = Active(state) \ {p} /\ Hands(s)
        /\ Roster(s) = Roster(state) /\ Cardinality(Active(s)) = Cardinality(Active(state)) - 1
        /\ Counted(s) /\ Balanced(s) /\ StakesAudit(s) /\ s.show = state.show
        /\ s.side = state.side /\ s.sideShows = state.sideShows /\ s.revealed = state.revealed
    BY <1>1, <1>2, FoldLeaves
  <2> HIDE DEF s
  <2>3. Table(s) /\ SideShowAudit(s) /\ Cardinality(Active(s)) = 1
    BY <1>2, <1>3, <2>2, LosersStayOut DEF SameHands
  <2>4. s.revealed \in SUBSET Roster(s) /\ Cardinality(s.revealed) = 1
    <3>1. Cardinality({requester}) = 1
      BY FS_Singleton
    <3> QED BY <1>2, <1>3, <2>2, <3>1
  <2>5. Settling(s, None)
    BY <1>3, <2>2, <2>3, <2>4 DEF Settling
  <2> QED BY <2>1, <2>5, EndsAudit
<1> QED BY <1>4, <1>5

-------------------------------------------------------------------------------
(* The side-show *)

LEMMA RequestSideShowAudit ==
    ASSUME NEW p \in Roster(state), StakesInv, HandsInv(state), Going(state), RequestSideShow(p)
    PROVE  Going(state')
<1> DEFINE amount == RequiredBet(state, p)
           s == Pays(state, p, amount)
           bets == s.player[p].bets + 1
           counted == WithField(s, p, "bets", bets)
           target == PreviousSeen(state, p)
           request == [requester |-> p, target |-> target]
           t == [counted EXCEPT !.side = request, !.turn = target]
<1>1. /\ Table(state) /\ state.status = "IN_PROGRESS" /\ state.show = None /\ state.side = None
      /\ p \in Active(state) /\ Cardinality(Active(state)) >= 3
      /\ state.rules.allowSideShow /\ state.player[p].seen /\ target # None
  BY DEF HandsInv, RequestSideShow, CanSideShow, HasTurn
<1>2. amount \in Nat
  BY <1>1, RequiredIsNumber
<1>3. state' = t
  BY DEF RequestSideShow, WithField
<1>4. target \in Active(state) /\ target # p /\ state.player[target].seen
  BY <1>1, PreviousSeenFacts
<1>5. request # None /\ request.requester = p /\ request.target = target
  <2>1. request \in [requester : PlayerIds, target : PlayerIds]
    BY <1>1, <1>4, ActiveFacts
  <2> QED BY <2>1, PlayersAssumption
<1> HIDE DEF target, request
<1>6. /\ Table(s) /\ Only(state, s, {"player", "pot"}) /\ SameHands(state, s) /\ Active(s) = Active(state)
      /\ Roster(s) = Roster(state) /\ Counted(s) /\ Balanced(s) /\ s.net = None /\ s.settlement = None
      /\ StakesAudit(s) /\ s.status = "IN_PROGRESS" /\ s.show = state.show
      /\ s.sideShows = state.sideShows /\ s.revealed = state.revealed /\ s.rules = state.rules
      /\ \A q \in Roster(state) : s.player[q].seen = state.player[q].seen
  BY <1>1, <1>2, PaymentLeaves
<1> HIDE DEF s, amount
<1>7. "bets" \in PlayerFields /\ {"folded", "hand", "paid", "blindBets", "seen"} \subseteq PlayerFields \ {"bets"}
  BY DEF PlayerFields
<1>8. s.player[p].bets \in Nat /\ bets = s.player[p].bets + 1
  BY <1>6 DEF Counted
<1> HIDE DEF bets
<1>9. /\ Only(s, counted, {"player"}) /\ Table(counted) /\ Roster(counted) = Roster(s)
      /\ counted.player[p].bets = bets
      /\ \A x \in PlayerFields \ {"bets"} : counted.player[p][x] = s.player[p][x]
      /\ \A q \in Roster(s) \ {p} : counted.player[q] = s.player[q]
  BY <1>6, <1>7, FieldOfPlayer
<1> HIDE DEF counted
<1>10. /\ Only(counted, t, {"side", "turn"}) /\ t.side = request /\ t.turn = target
  <2>1. Shaped(counted)
    BY <1>9 DEF Only
  <2> QED BY <2>1 DEF Only, Shaped, Fields
<1> HIDE DEF t
<1>11. /\ Table(t) /\ Roster(t) = Roster(state) /\ t.player = counted.player /\ Active(t) = Active(counted)
  BY <1>6, <1>9, <1>10, OnlyTable
<1>12. Only(s, t, {"player", "side", "turn"})
  BY <1>9, <1>10 DEF Only
<1>13. /\ t.status = "IN_PROGRESS" /\ t.show = None /\ t.revealed = state.revealed /\ t.rules = state.rules
       /\ t.sideShows = state.sideShows /\ t.net = None /\ t.settlement = None /\ t.pot = s.pot
       /\ t.seenBet = s.seenBet /\ t.blindBet = s.blindBet /\ t.ids = s.ids
  BY <1>1, <1>6, <1>12 DEF Only, Fields
<1>14. \A q \in Roster(s) : /\ t.player[q].folded = s.player[q].folded
                            /\ t.player[q].hand = s.player[q].hand
                            /\ t.player[q].paid = s.player[q].paid
                            /\ t.player[q].blindBets = s.player[q].blindBets
                            /\ t.player[q].seen = s.player[q].seen
                            /\ t.player[q].bets = s.player[q].bets + (IF q = p THEN 1 ELSE 0)
  <2> SUFFICES ASSUME NEW q \in Roster(s)
               PROVE  /\ t.player[q].folded = s.player[q].folded
                      /\ t.player[q].hand = s.player[q].hand
                      /\ t.player[q].paid = s.player[q].paid
                      /\ t.player[q].blindBets = s.player[q].blindBets
                      /\ t.player[q].seen = s.player[q].seen
                      /\ t.player[q].bets = s.player[q].bets + (IF q = p THEN 1 ELSE 0)
    OBVIOUS
  <2>1. CASE q = p
    BY <1>7, <1>8, <1>9, <1>11, <2>1
  <2>2. CASE q # p
    <3>1. t.player[q] = s.player[q] /\ s.player[q].bets \in Nat
      BY <1>6, <1>9, <1>11, <2>2 DEF Counted
    <3> QED BY <2>2, <3>1
  <2> QED BY <2>1, <2>2
<1>15. Active(t) = Active(state)
  BY <1>6, <1>11, <1>14 DEF Active
<1>16. SameHands(s, t)
  BY <1>11, <1>13, <1>14, <1>6 DEF SameHands
<1>17. Counted(t) /\ Balanced(t) /\ StakesAudit(t)
  <2>1. Balanced(t)
    BY <1>6, <1>11, <1>13, <1>14, StillBalanced
  <2>2. Counted(t)
    BY <1>6, <1>11, <1>14 DEF Counted
  <2> QED BY <1>6, <1>13, <1>16, <2>1, <2>2, StakesStay
<1>18. ShowAudit(t)
  BY <1>1, <1>13 DEF ShowAudit, Going
<1>19. SideShowAudit(t)
  <2>1. t.side.requester = p /\ t.side.target = target /\ t.turn = t.side.target
    BY <1>5, <1>10
  <2>2. \A q \in {p, target} : q \in Active(t) /\ t.player[q].seen
    <3>1. p \in Roster(s) /\ target \in Roster(s) /\ p \in Active(t) /\ target \in Active(t)
      BY <1>1, <1>4, <1>6, <1>15 DEF Active
    <3> QED BY <1>1, <1>4, <1>6, <1>14, <3>1
  <2>3. \A r \in t.sideShows : /\ r.requester # r.target
                               /\ {r.winner, r.loser} = {r.requester, r.target}
                               /\ r.loser \notin Active(t)
    BY <1>13, <1>15 DEF Going, SideShowAudit
  <2> QED BY <1>1, <1>4, <1>13, <1>15, <2>1, <2>2, <2>3 DEF SideShowAudit
<1>20. Cardinality(Active(t)) >= 2 /\ t.turn \in Active(t)
  <2>1. Cardinality(Active(state)) \in Nat
    BY <1>1, ActiveFacts
  <2> QED BY <1>1, <1>4, <1>10, <1>15, <2>1
<1> QED BY <1>3, <1>13, <1>17, <1>18, <1>19, <1>20 DEF Going

LEMMA RespondSideShowAudit ==
    ASSUME NEW p \in Roster(state), NEW accept, HandsInv(state), Going(state), RespondSideShow(p, accept)
    PROVE  Going(state')
<1> DEFINE r == state.side.requester
           winner == IF state.player[r].hand > state.player[p].hand THEN r ELSE p
           loser == IF winner = r THEN p ELSE r
           closed == [state EXCEPT !.side = None, !.turn = r]
           told == [requester |-> r, target |-> p, winner |-> winner, loser |-> loser]
           out == Folded(closed, loser)
           heard == [out EXCEPT !.sideShows = out.sideShows \cup {told}]
<1>1. /\ Table(state) /\ Hands(state) /\ state.status = "IN_PROGRESS" /\ state.side # None
      /\ state.show = None /\ state.side.target = p
      /\ Cardinality(Active(state)) >= 3 /\ Cardinality(Active(state)) \in Nat
      /\ r \in Active(state) /\ p \in Active(state) /\ r # p
  <2>1. Table(state) /\ Hands(state) /\ state.status = "IN_PROGRESS" /\ state.side # None /\ state.side.target = p
        /\ state.show = None
    BY DEF HandsInv, RespondSideShow, Playing
  <2> QED BY <2>1, ActiveFacts DEF Going, SideShowAudit
<1>2. /\ accept => state' = WithTurn(heard, NextSeat(heard))
      /\ ~accept => state' = WithTurn(closed, NextSeat(closed))
  BY DEF RespondSideShow
<1>3. {winner, loser} = {r, p} /\ loser \in {r, p}
  OBVIOUS
<1>4. /\ told.requester = r /\ told.target = p /\ told.winner = winner /\ told.loser = loser
  OBVIOUS
<1> HIDE DEF winner, loser, told
<1>5. Only(state, closed, {"side", "turn"}) /\ closed.side = None /\ closed.turn = r
  BY <1>1 DEF Table, Only, Shaped, Fields
<1> HIDE DEF closed
<1>6. /\ Table(closed) /\ Roster(closed) = Roster(state) /\ Active(closed) = Active(state)
      /\ closed.player = state.player /\ SameHands(state, closed)
  BY <1>1, <1>5, OnlyTable
<1>7. /\ closed.status = state.status /\ closed.show = None /\ closed.revealed = state.revealed
      /\ closed.sideShows = state.sideShows
  BY <1>1, <1>5 DEF Only, Fields
<1>8. /\ Counted(closed) /\ Balanced(closed) /\ closed.net = None /\ closed.settlement = None
      /\ StakesAudit(closed) /\ closed.status = "IN_PROGRESS"
  BY <1>1, <1>5, <1>6, MoneyStays
<1>9. SideShowAudit(closed) /\ ShowAudit(closed) /\ closed.revealed = {}
  <2>1. state.revealed = {}
    BY <1>1 DEF Going, ShowAudit
  <2> QED BY <1>5, <1>6, <1>7, <2>1, LosersStayOut DEF Going, ShowAudit
<1>10. Hands(closed) /\ closed.turn \in Roster(closed)
  BY <1>1, <1>5, <1>6 DEF Hands, Active
<1>11. CASE ~accept
  <2>1. Ready(closed)
    BY <1>1, <1>5, <1>6, <1>7, <1>8, <1>9, <1>10 DEF Ready
  <2> QED BY <1>2, <1>11, <2>1, ReadyGoesOn
<1>12. CASE accept
  <2>1. Going(closed) /\ loser \in Active(closed)
    BY <1>1, <1>3, <1>5, <1>6, <1>8, <1>9 DEF Going
  <2>2. /\ SameHands(closed, out) /\ Active(out) = Active(closed) \ {loser}
        /\ Roster(out) = Roster(closed) /\ Cardinality(Active(out)) = Cardinality(Active(closed)) - 1
        /\ Counted(out) /\ Balanced(out) /\ out.net = None /\ out.settlement = None
        /\ StakesAudit(out) /\ out.status = "IN_PROGRESS" /\ out.turn = closed.turn /\ out.show = closed.show
        /\ out.side = closed.side /\ out.sideShows = closed.sideShows /\ out.revealed = closed.revealed
    BY <1>6, <1>10, <2>1, FoldLeaves
  <2> HIDE DEF out
  <2>3. Only(out, heard, {"sideShows"}) /\ heard.sideShows = out.sideShows \cup {told}
    BY <2>2 DEF SameHands, Table, Only, Shaped, Fields
  <2> HIDE DEF heard
  <2>4. /\ Table(heard) /\ Roster(heard) = Roster(out) /\ Active(heard) = Active(out)
        /\ heard.player = out.player /\ SameHands(out, heard)
    BY <2>2, <2>3, OnlyTable DEF SameHands
  <2>5. /\ heard.status = out.status /\ heard.show = out.show /\ heard.side = out.side
        /\ heard.revealed = out.revealed /\ heard.net = out.net /\ heard.settlement = out.settlement
        /\ heard.pot = out.pot /\ heard.seenBet = out.seenBet /\ heard.blindBet = out.blindBet
        /\ heard.turn = out.turn
    BY <2>3 DEF Only, Fields
  <2>6. Counted(heard) /\ Balanced(heard) /\ StakesAudit(heard)
    BY <2>2, <2>4, <2>5, StakesStay DEF Counted, Balanced
  <2>7. SideShowAudit(heard)
    <3>1. SideShowAudit(out)
      BY <1>5, <1>9, <2>2, LosersStayOut
    <3>2. heard.side = None
      BY <1>5, <2>2, <2>5
    <3>3. /\ told.requester # told.target
          /\ {told.winner, told.loser} = {told.requester, told.target}
          /\ told.loser \notin Active(heard)
      BY <1>1, <1>3, <1>4, <2>2, <2>4
    <3>4. \A x \in out.sideShows : /\ x.requester # x.target
                                   /\ {x.winner, x.loser} = {x.requester, x.target}
                                   /\ x.loser \notin Active(heard)
      BY <2>4, <3>1 DEF SideShowAudit
    <3> QED BY <2>3, <3>2, <3>3, <3>4 DEF SideShowAudit
  <2>8. Cardinality(Active(heard)) >= 2
    BY <1>1, <1>6, <2>2, <2>4
  <2>9. Ready(heard)
    BY <1>5, <1>7, <1>9, <1>10, <2>2, <2>4, <2>5, <2>6, <2>7, <2>8 DEF Ready
  <2> QED BY <1>2, <1>12, <2>9, ReadyGoesOn
<1> QED BY <1>11, <1>12

-------------------------------------------------------------------------------
(* The preparation of a round *)

\* A new round has no money in it.
LEMMA NewStateAudit ==
    ASSUME NEW ruleSet \in RuleSets, NEW ids \in RosterSeqs, NEW dealer \in ToSet(ids), NEW status, NEW turn,
           \/ status = "WAITING" /\ turn = None
           \/ status = "AWAITING_DEAL" /\ turn = dealer
    PROVE  Audit(NewState(ruleSet, ids, dealer, status, turn))
<1> DEFINE s == NewState(ruleSet, ids, dealer, status, turn)
<1>1. /\ s.rules = ruleSet /\ s.ids = ids /\ s.dealer = dealer /\ s.status = status /\ s.turn = turn
      /\ s.player = [p \in ToSet(ids) |-> Fresh] /\ s.blindBet = 0 /\ s.seenBet = 0 /\ s.pot = 0
      /\ s.show = None /\ s.side = None /\ s.revealed = {} /\ s.sideShows = {}
      /\ s.settlement = None /\ s.net = None
  BY DEF NewState
<1> HIDE DEF s
<1>2. Fresh.paid = 0 /\ Fresh.bets = 0 /\ Fresh.blindBets = 0
  BY DEF Fresh
<1>3. Roster(s) = ToSet(ids) /\ IsFiniteSet(Roster(s))
  BY <1>1, RosterFacts DEF Roster
<1>4. \A p \in Roster(s) : s.player[p].paid = 0 /\ s.player[p].bets = 0 /\ s.player[p].blindBets = 0
  BY <1>1, <1>2, <1>3
<1>5. SumFunction([p \in Roster(s) |-> s.player[p].paid]) = 0
  <2> DEFINE R == Roster(s)
             f == [p \in R |-> s.player[p].paid]
  <2>1. DOMAIN f = R /\ 0 \in Int /\ \A p \in R : f[p] = 0
    BY <1>4
  <2> HIDE DEF f, R
  <2>2. IsFiniteSet(R) /\ Cardinality(R) \in Nat
    BY <1>3, FS_CardinalityType DEF R
  <2>3. SumFunctionOnSet(f, R) = 0 * Cardinality(R)
    BY <2>1, <2>2, SumConstant, Zenon
  <2> QED BY <2>1, <2>2, <2>3 DEF SumFunction, f, R
<1>6. MoneyAudit(s)
  BY <1>1, <1>4, <1>5 DEF MoneyAudit
<1>7. ShowAudit(s) /\ SideShowAudit(s)
  BY <1>1 DEF ShowAudit, SideShowAudit
<1>8. PreparationAudit(s)
  BY <1>1, <1>3 DEF PreparationAudit
<1> QED BY <1>1, <1>6, <1>7, <1>8 DEF Audit, s

\* The next step of the preparation.
LEMMA PreparationGoesOn ==
    ASSUME NEW s, Table(s), Preparing(s), Audit(s), NEW t, Only(s, t, {"status", "turn"}),
           \/ t.status = "AWAITING_DEAL" /\ t.turn = s.dealer
           \/ t.status = "AWAITING_CUT" /\ t.turn = Clockwise(s, s.dealer, 1)
    PROVE  Audit(t)
<1>1. /\ Roster(t) = Roster(s) /\ Active(t) = Active(s) /\ t.player = s.player
  BY OnlyTable
<1>2. /\ t.ids = s.ids /\ t.dealer = s.dealer /\ t.pot = s.pot /\ t.net = s.net /\ t.settlement = s.settlement
      /\ t.show = s.show /\ t.side = s.side /\ t.revealed = s.revealed /\ t.sideShows = s.sideShows
      /\ t.blindBet = s.blindBet /\ t.seenBet = s.seenBet
  BY DEF Only, Fields
<1>3. /\ MoneyAudit(s) /\ ShowAudit(s) /\ SideShowAudit(s) /\ PreparationAudit(s)
      /\ s.status # "FINISHED" /\ s.status # "IN_PROGRESS" /\ t.status # "FINISHED"
  BY DEF Audit, Preparing
<1>4. s.net = None /\ s.show = None /\ s.side = None
  BY <1>3 DEF MoneyAudit, ShowAudit, PreparationAudit
<1>5. MoneyAudit(t)
  BY <1>1, <1>2, <1>3, <1>4 DEF MoneyAudit
<1>6. ShowAudit(t)
  BY <1>2, <1>3, <1>4 DEF ShowAudit
<1>7. SideShowAudit(t)
  BY <1>1, <1>2, <1>3, <1>4 DEF SideShowAudit
<1>8. Clockwise(t, t.dealer, 1) = Clockwise(s, s.dealer, 1)
  BY <1>2 DEF Clockwise, Seat
<1>9. PreparationAudit(t)
  BY <1>1, <1>2, <1>3, <1>8 DEF PreparationAudit
<1> QED BY <1>5, <1>6, <1>7, <1>9 DEF Audit

LEMMA StartGameAudit == ASSUME HandsInv(state), Audit(state), StartGame PROVE Audit(state')
<1>1. Table(state) /\ Preparing(state)
  BY DEF HandsInv, StartGame, Preparing
<1>2. Only(state, state', {"status", "turn"}) /\ state'.status = "AWAITING_DEAL" /\ state'.turn = state.dealer
  BY <1>1 DEF StartGame, Table, Only, Shaped, Fields
<1> QED BY <1>1, <1>2, PreparationGoesOn

LEMMA DealCardsAudit == ASSUME NEW p, HandsInv(state), Audit(state), DealCards(p) PROVE Audit(state')
<1>1. Table(state) /\ Preparing(state) /\ state.status = "AWAITING_DEAL" /\ Active(state) = Roster(state)
  BY DEF HandsInv, DealCards, Preparing
<1>2. /\ Only(state, state', {"status", "turn"}) /\ state'.status = "AWAITING_CUT"
      /\ state'.turn = NextSeat(state)
  BY <1>1 DEF DealCards, Table, Only, Shaped, Fields
<1>3. state.turn = state.dealer /\ state.dealer \in Roster(state)
  BY <1>1 DEF Audit, PreparationAudit, Table
<1>4. NextSeat(state) = Clockwise(state, state.dealer, 1)
  BY <1>1, <1>3, NextSeatFacts
<1> QED BY <1>1, <1>2, <1>4, PreparationGoesOn

LEMMA PrepareAudit ==
    ASSUME NEW ids \in RosterSeqs, NEW creator, HandsInv(state), PrepareNextRound(ids, creator)
    PROVE  Audit(state')
<1> DEFINE winners == state.settlement.winners
           stayed == Within(winners, ToSet(ids))
           dealer == IF stayed = << >> THEN creator ELSE Head(stayed)
<1>1. /\ state' = NewState(state.rules, ids, dealer, "AWAITING_DEAL", dealer)
      /\ creator \in ToSet(ids) /\ state.status = "FINISHED"
  BY DEF PrepareNextRound
<1>2. winners \in Seq(Roster(state)) /\ state.rules \in RuleSets
  BY <1>1 DEF HandsInv, Table
<1> HIDE DEF winners
<1>3. /\ stayed \in Seq(Roster(state))
      /\ {stayed[k] : k \in 1..Len(stayed)} \subseteq ToSet(ids)
  BY <1>2, WithinFacts
<1> HIDE DEF stayed
<1>4. dealer \in ToSet(ids)
  <2>1. CASE stayed = << >>
    BY <1>1, <2>1
  <2>2. CASE stayed # << >>
    <3>1. Len(stayed) \in Nat /\ Len(stayed) # 0 /\ Head(stayed) = stayed[1]
      BY <1>3, <2>2
    <3> QED BY <1>3, <2>2, <3>1
  <2> QED BY <2>1, <2>2
<1> HIDE DEF dealer
<1> QED BY <1>1, <1>2, <1>4, NewStateAudit

\* The boots of all players are in the pot.
LEMMA CompleteDealAudit ==
    ASSUME NEW p, NEW hands \in [Roster(state) -> 1..HandMax], HandsInv(state), Audit(state),
           CompleteDeal(p, hands), StakesInv', HandsInv(state')
    PROVE  Going(state')
<1> DEFINE s == state
           t == state'
           R == Roster(s)
           boot == s.rules.boot
           f == [q \in R |-> [s.player[q] EXCEPT !.hand = hands[q], !.paid = boot]]
<1>1. s.status = "AWAITING_CUT" /\ Table(s) /\ Active(s) = R
  BY DEF CompleteDeal, HandsInv, Preparing
<1>2. /\ s.player = [q \in R |-> Fresh] /\ s.settlement = None /\ s.sideShows = {} /\ s.side = None
      /\ s.show = None /\ s.revealed = {} /\ s.net = None
  <2>1. PreparationAudit(s) /\ MoneyAudit(s) /\ ShowAudit(s)
    BY <1>1 DEF Audit
  <2>2. s.show = None /\ s.net = None
    BY <1>1, <2>1 DEF ShowAudit, MoneyAudit
  <2> QED BY <1>1, <2>1, <2>2 DEF PreparationAudit, ShowAudit
<1>3. PICK blindBet :
        t = [s EXCEPT !.status = "IN_PROGRESS", !.turn = Clockwise(s, s.dealer, 1), !.player = f,
                      !.blindBet = blindBet, !.seenBet = s.rules.initialBlind * s.rules.multiplier,
                      !.pot = boot * Len(s.ids)]
  BY DEF CompleteDeal
<1>4. \A q \in R : /\ f[q].hand = hands[q] /\ f[q].paid = boot /\ f[q].bets = 0 /\ f[q].blindBets = 0
                   /\ ~f[q].folded
  <2> SUFFICES ASSUME NEW q \in R
               PROVE  /\ f[q].hand = hands[q] /\ f[q].paid = boot /\ f[q].bets = 0 /\ f[q].blindBets = 0
                      /\ ~f[q].folded
    OBVIOUS
  <2>1. s.player[q] = Fresh
    BY <1>2
  <2>2. f[q] = [Fresh EXCEPT !.hand = hands[q], !.paid = boot]
    BY <2>1
  <2> HIDE DEF f, boot
  <2> QED BY <2>2 DEF Fresh
<1> HIDE DEF f
<1>5. /\ t.status = "IN_PROGRESS" /\ t.turn = Clockwise(s, s.dealer, 1) /\ t.player = f
      /\ t.seenBet = s.rules.initialBlind * s.rules.multiplier /\ t.pot = boot * Len(s.ids)
      /\ t.ids = s.ids /\ t.rules = s.rules /\ t.settlement = None /\ t.sideShows = {} /\ t.side = None
      /\ t.show = None /\ t.revealed = {} /\ t.net = None
  BY <1>1, <1>2, <1>3 DEF Table, Shaped, Fields
<1>6. Roster(t) = R /\ Active(t) = R
  BY <1>4, <1>5 DEF Roster, Active
<1>7. /\ Cardinality(R) = Len(s.ids) /\ Len(s.ids) \in Nat /\ Len(s.ids) >= 2
      /\ Clockwise(s, s.dealer, 1) \in R
  <2>1. s.dealer \in R
    BY <1>1 DEF Table
  <2>2. /\ Len(s.ids) \in Nat \ {0} /\ Len(s.ids) >= 2 /\ Cardinality(R) = Len(s.ids)
        /\ \A k \in 1..Len(s.ids) : Clockwise(s, s.dealer, k) \in R
    BY <1>1, <2>1, AroundTable
  <2> QED BY <2>2
<1>8. boot \in Nat /\ s.rules.initialBlind \in Nat /\ s.rules.multiplier \in Nat
  BY <1>1, RulesAssumption DEF Table
<1>9. Balanced(t)
  <2> DEFINE h == [q \in R |-> t.player[q].paid]
  <2>1. DOMAIN h = R /\ boot \in Int /\ \A q \in R : h[q] = boot
    BY <1>4, <1>5, <1>8
  <2>2. \A q \in R : t.player[q].paid \in Nat
    BY <1>4, <1>5, <1>8
  <2>3. IsFiniteSet(R)
    BY <1>1, RosterFacts DEF Table, Roster
  <2> HIDE DEF h, R, boot
  <2>4. SumFunctionOnSet(h, R) = boot * Cardinality(R)
    BY <2>1, <2>3, SumConstant, Zenon
  <2>5. SumFunction(h) = t.pot
    BY <1>5, <1>7, <2>1, <2>4 DEF SumFunction
  <2> QED BY <1>6, <2>2, <2>5 DEF Balanced, h
<1>10. Counted(t)
  BY <1>4, <1>5, <1>6 DEF Counted
<1>11. StakesAudit(t)
  <2>1. MinimaAgree(t)
    BY <1>5 DEF StakesInv
  <2>2. \A q \in Roster(t) : t.player[q].hand # 0
    BY <1>4, <1>5, <1>6
  <2>3. t.seenBet >= t.rules.initialBlind * t.rules.multiplier
    BY <1>5, <2>1 DEF MinimaAgree
  <2> QED BY <2>1, <2>2, <2>3 DEF StakesAudit, MinimaAgree, RoundedUp
<1>12. ShowAudit(t) /\ SideShowAudit(t)
  BY <1>5 DEF ShowAudit, SideShowAudit
<1> QED BY <1>5, <1>6, <1>7, <1>9, <1>10, <1>11, <1>12 DEF Going

-------------------------------------------------------------------------------
(* The audit *)

Audited == StakesInv /\ HandsInv(state) /\ AuditPasses

LEMMA NextPassesAudit == Audited /\ [RoundNext]_state => AuditPasses'
<1> SUFFICES ASSUME StakesInv, HandsInv(state), Audit(state), [RoundNext]_state PROVE Audit(state')
  BY DEF Audited, AuditPasses
<1>1. StakesInv' /\ HandsInv(state')
  BY NextKeepsStakes, NextKeepsHands
<1>2. CASE UNCHANGED state
  BY <1>2
<1>3. CASE StartGame
  BY <1>3, StartGameAudit
<1>4. ASSUME NEW ids \in RosterSeqs, NEW creator \in PlayerIds, PrepareNextRound(ids, creator)
      PROVE  Audit(state')
  BY <1>4, PrepareAudit
<1>5. ASSUME NEW p \in Roster(state),
             \/ DealCards(p)
             \/ \E hands \in [Roster(state) -> 1..HandMax] : CompleteDeal(p, hands)
      PROVE  Audit(state')
  BY <1>1, <1>5, DealCardsAudit, CompleteDealAudit, GoingAudit
<1>6. ASSUME state.status = "IN_PROGRESS" PROVE Going(state)
  BY <1>6, GoingAudit
<1>7. ASSUME NEW p \in Roster(state), NEW raise \in 0..MaxRaise, Bet(p, RequiredBet(state, p) + raise)
      PROVE  Audit(state')
  <2>1. state.status = "IN_PROGRESS"
    BY <1>7 DEF Bet, HasTurn
  <2>2. StakesRise
    BY <1>7, BetRaises
  <2> QED BY <1>1, <1>6, <1>7, <2>1, <2>2, BetAudit, GoingAudit
<1>8. ASSUME NEW p \in Roster(state),
             \/ SeeCards(p)
             \/ Fold(p)
             \/ FoldForLeave(p)
             \/ ShowCards(p)
             \/ \E reveal \in BOOLEAN : RespondShow(p, reveal)
             \/ RequestSideShow(p)
             \/ \E accept \in BOOLEAN : RespondSideShow(p, accept)
      PROVE  Audit(state')
  <2>1. state.status = "IN_PROGRESS"
    BY <1>8 DEF SeeCards, CanSee, Fold, FoldForLeave, ShowCards, CanShow, RespondShow, RequestSideShow,
                CanSideShow, RespondSideShow, HasTurn
  <2>2. Going(state)
    BY <1>6, <2>1
  <2> QED BY <1>8, <2>2, SeeCardsAudit, FoldAudit, FoldForLeaveAudit, ShowCardsAudit, RespondShowAudit,
             RequestSideShowAudit, RespondSideShowAudit, GoingAudit
<1> QED BY <1>2, <1>3, <1>4, <1>5, <1>7, <1>8 DEF RoundNext

\* No sequence of legal commands and departures brings the engine to a candidate that its own
\* audit refuses, for any table, rules and hands.
THEOREM AuditNeverFails == RoundSpec => []AuditPasses
<1>1. RoundInit => Audited
  <2> SUFFICES ASSUME RoundInit PROVE Audited
    OBVIOUS
  <2>1. PICK ruleSet \in RuleSets, ids \in RosterSeqs :
          \E dealer \in ToSet(ids) : state = NewState(ruleSet, ids, dealer, "WAITING", None)
    BY DEF RoundInit
  <2>2. PICK dealer \in ToSet(ids) : state = NewState(ruleSet, ids, dealer, "WAITING", None)
    BY <2>1
  <2>3. Audit(state) /\ HandsInv(state)
    BY <2>2, NewStateAudit, NewStateHands
  <2> QED BY <2>3, Initially DEF Audited, AuditPasses
<1>2. Audited /\ [RoundNext]_state => Audited'
  <2> SUFFICES ASSUME Audited, [RoundNext]_state PROVE Audited'
    OBVIOUS
  <2>1. AuditPasses'
    BY NextPassesAudit
  <2>2. StakesInv' /\ HandsInv(state')
    BY NextKeepsStakes, NextKeepsHands DEF Audited
  <2> QED BY <2>1, <2>2 DEF Audited
<1>3. Audited => AuditPasses
  BY DEF Audited
<1> QED BY <1>1, <1>2, <1>3, PTL DEF RoundSpec
================================================================================
