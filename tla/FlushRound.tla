----------------------------- MODULE FlushRound -----------------------------
(***************************************************************************)
(* The Flush engine (src/flush/engine.py): one betting round after another *)
(* on one table.  Like the code, the model keeps an immutable state that   *)
(* every command replaces by a candidate; the candidate is audited         *)
(* (src/flush/invariants.py) before it is installed.                       *)
(*                                                                         *)
(* A hand is its strength, 1 the weakest and HandMax the strongest, and 0  *)
(* before the deal: the engine only ever compares hands.  The deck, the    *)
(* revision and the history of events are left out; so are rounds past,    *)
(* of which the engine keeps nothing but their net changes.                *)
(***************************************************************************)
EXTENDS Integers, InOrder, SequencesExt, FiniteSetsExt

CONSTANTS
    PlayerIds,        \* the players who may sit at the table
    RuleSets,       \* the rules a game may be created with
    HandMax,        \* bound: strengths of hands are 1..HandMax
    MaxRaise,       \* bound: a bet exceeds the minimum by at most this
    MaxBets,        \* bound: bets and side-show requests of one round
    None            \* no player, no request, no settlement

\* FlushRulesConfig rejects other rules (src/flush/rules.py).
ASSUME RulesAssumption ==
    \A r \in RuleSets :
        /\ {r.initialBlind, r.multiplier} \subseteq Nat \ {0}
        /\ {r.boot, r.showCost} \subseteq Nat
        /\ r.tie \in {"REQUESTER_LOSES", "SPLIT"}

ASSUME BoundsAssumption == {MaxRaise, HandMax} \subseteq Nat

\* None is no player, and neither a request, a settlement nor a list of net changes.
ASSUME PlayersAssumption ==
    /\ IsFiniteSet(PlayerIds) /\ None \notin PlayerIds
    /\ None \notin [requester : PlayerIds, target : PlayerIds]
    /\ None \notin [reason : {"SHOW", "SHOW_FOLD", "LAST_PLAYER_REMAINING"}, winners : Seq(PlayerIds),
                    shown : SUBSET PlayerIds, payouts : Seq(Nat)]
    /\ \A R \in SUBSET PlayerIds : None \notin [R -> Int]

VARIABLE state

-----------------------------------------------------------------------------
(* Queries of a state, which the handlers apply to candidates as well. *)

Roster(s) == ToSet(s.ids)
Active(s) == {p \in Roster(s) : ~s.player[p].folded}
Seat(s, p) == CHOOSE i \in DOMAIN s.ids : s.ids[i] = p

\* The player k seats clockwise from p; k may be negative.
Clockwise(s, p, k) == s.ids[((Seat(s, p) - 1 + k + Len(s.ids)) % Len(s.ids)) + 1]

\* next_seat: the first active player after the one whose turn it is, who
\* is taken again when nobody else is active.
NextSeat(s) ==
    LET n == Len(s.ids)
        k == Min({j \in 1..n : Clockwise(s, s.turn, j) \in Active(s)})
    IN  Clockwise(s, s.turn, k)

PreviousSeen(s, p) ==
    LET Found == {j \in 1..(Len(s.ids) - 1) :
                    LET q == Clockwise(s, p, -j)
                    IN  q \in Active(s) /\ s.player[q].seen}
    IN  IF Found = {} THEN None ELSE Clockwise(s, p, -Min(Found))

\* Mutant of RequiredBet: the minimum stays what the round began with.
InitialBet(s, p) ==
    IF s.player[p].seen THEN s.rules.initialBlind * s.rules.multiplier ELSE s.rules.initialBlind

RequiredBet(s, p) == IF s.player[p].seen THEN s.seenBet ELSE s.blindBet
ShowCost(s, p) == RequiredBet(s, p) * s.rules.showCost

\* require_turn
HasTurn(s, p) ==
    /\ s.status = "IN_PROGRESS"
    /\ s.show = None
    /\ s.side = None
    /\ p \in Active(s)
    /\ s.turn = p

CanSee(s, p) == HasTurn(s, p) /\ ~s.player[p].seen

\* The maximum of active players for a blind show is at least 2 and a show
\* needs exactly 2, so that rule never decides.
CanShow(s, p) ==
    /\ HasTurn(s, p)
    /\ Cardinality(Active(s)) = 2
    /\ IF s.player[p].seen
       THEN s.rules.allowSeenShow
       ELSE /\ s.rules.allowBlindShow
            /\ s.player[p].blindBets >= s.rules.minBlindShow

CanSideShow(s, p) ==
    /\ HasTurn(s, p)
    /\ s.rules.allowSideShow
    /\ s.player[p].seen
    /\ s.player[p].bets >= s.rules.minSideShow
    /\ Cardinality(Active(s)) >= 3
    /\ PreviousSeen(s, p) # None

\* The bound on bets, for the model only.
BetsLeft(s) == SumFunction([p \in Roster(s) |-> s.player[p].bets]) < MaxBets

-----------------------------------------------------------------------------
(* Candidates. *)

Fresh == [folded |-> FALSE, seen |-> FALSE, paid |-> 0, bets |-> 0,
          blindBets |-> 0, hand |-> 0]

NewState(ruleSet, ids, dealer, status, turn) ==
    [rules |-> ruleSet, ids |-> ids, dealer |-> dealer, status |-> status, turn |-> turn,
     player |-> [p \in ToSet(ids) |-> Fresh],
     blindBet |-> 0, seenBet |-> 0, pot |-> 0,
     show |-> None, side |-> None, revealed |-> {}, sideShows |-> {},
     settlement |-> None, net |-> None]

Folded(s, p) == [s EXCEPT !.player[p].folded = TRUE]
WithTurn(s, p) == [s EXCEPT !.turn = p]

\* A player puts an amount into the pot.
Pays(s, p, amount) ==
    [s EXCEPT !.player[p].paid = @ + amount, !.pot = @ + amount]

\* settle: who wins, and what each winner takes.  Winners stand in
\* clockwise order after the dealer and an odd point goes to the first.
Settled(s, requester) ==
    LET active  == Active(s)
        best    == Max({s.player[p].hand : p \in active})
        top     == {p \in active : s.player[p].hand = best}
        winners == CASE requester = None -> active
                     [] requester # None /\ Cardinality(top) > 1
                          /\ s.rules.tie = "REQUESTER_LOSES" -> top \ {requester}
                     [] OTHER -> top
        reason  == CASE requester # None -> "SHOW"
                     [] requester = None /\ s.show # None -> "SHOW_FOLD"
                     [] OTHER -> "LAST_PLAYER_REMAINING"
        faceUp  == CASE reason = "SHOW" -> active
                     [] reason = "SHOW_FOLD" -> s.revealed
                     [] OTHER -> {}
        ordered == Within([k \in 1..Len(s.ids) |-> Clockwise(s, s.dealer, k)], winners)
        share   == s.pot \div Len(ordered)
        odd     == s.pot % Len(ordered)
    IN  [s EXCEPT !.show = None, !.revealed = faceUp, !.status = "FINISHED", !.turn = None,
           !.settlement = [reason |-> reason, winners |-> ordered, shown |-> faceUp,
                           payouts |-> [i \in DOMAIN ordered |->
                                          share + (IF i <= odd THEN 1 ELSE 0)]]]

\* What the settlement pays a player; nothing to those who did not win.
Payout(s, p) ==
    LET winners == s.settlement.winners
    IN  IF p \in ToSet(winners)
        THEN s.settlement.payouts[CHOOSE i \in DOMAIN winners : winners[i] = p]
        ELSE 0

\* _finish: the round's net changes are recorded with its settlement.
Finished(s) == [s EXCEPT !.net = [p \in Roster(s) |-> Payout(s, p) - s.player[p].paid]]

-----------------------------------------------------------------------------
(* The lifecycle of a round. *)

RosterSeqs == {ids \in UNION {[1..n -> PlayerIds] : n \in 2..Cardinality(PlayerIds)} :
                 IsInjective(ids)}

RoundInit ==
    \E ruleSet \in RuleSets, ids \in RosterSeqs :
        \E dealer \in ToSet(ids) :
            state = NewState(ruleSet, ids, dealer, "WAITING", None)

StartGame ==
    /\ state.status = "WAITING"
    /\ state' = [state EXCEPT !.status = "AWAITING_DEAL", !.turn = state.dealer]

\* The host prepares the next round when its creator starts it again: for
\* the players now seated, dealt by the first previous winner still there
\* or else by the creator.
PrepareNextRound(ids, creator) ==
    LET stayed == Within(state.settlement.winners, ToSet(ids))
        dealer == IF stayed = <<>> THEN creator ELSE Head(stayed)
    IN  /\ state.status = "FINISHED"
        /\ creator \in ToSet(ids)
        /\ state' = NewState(state.rules, ids, dealer, "AWAITING_DEAL", dealer)

DealCards(p) ==
    /\ state.status = "AWAITING_DEAL"
    /\ state.turn = p
    /\ state' = [state EXCEPT !.status = "AWAITING_CUT", !.turn = NextSeat(state)]

\* cut_deck and skip_cut: the hands are dealt and the boot is collected.
CompleteDeal(p, hands) ==
    LET boot == state.rules.boot
    IN  /\ state.status = "AWAITING_CUT"
        /\ state.turn = p
        /\ state' = [state EXCEPT
             !.status = "IN_PROGRESS",
             !.turn = Clockwise(state, state.dealer, 1),
             !.player = [q \in Roster(state) |->
                           [@[q] EXCEPT !.hand = hands[q], !.paid = boot]],
             !.blindBet = state.rules.initialBlind,
             !.seenBet = state.rules.initialBlind * state.rules.multiplier,
             !.pot = boot * Len(state.ids)]

-----------------------------------------------------------------------------
(* Betting. *)

\* A blind bet is worth its multiple for those who have seen their cards;
\* a seen bet is worth its share, rounded up, for those who have not.
Bet(p, amount) ==
    LET m     == state.rules.multiplier
        seen  == state.player[p].seen
        least == IF seen THEN amount ELSE amount * m
        paid  == [Pays(state, p, amount) EXCEPT
                    !.player[p].bets = @ + 1,
                    !.player[p].blindBets = @ + (IF seen THEN 0 ELSE 1),
                    !.seenBet = least,
                    !.blindBet = (least + m - 1) \div m]
    IN  /\ HasTurn(state, p)
        /\ amount >= RequiredBet(state, p)
        /\ BetsLeft(state)
        /\ state' = WithTurn(paid, NextSeat(paid))

SeeCards(p) ==
    /\ CanSee(state, p)
    /\ state' = [state EXCEPT !.player[p].seen = TRUE]

Fold(p) ==
    LET s == Folded(state, p)
    IN  /\ HasTurn(state, p)
        /\ state' = IF Cardinality(Active(s)) = 1
                    THEN Finished(Settled(s, None))
                    ELSE WithTurn(s, NextSeat(s))

\* Mutant of FoldForLeave: only the participants' departures end a side-show.
FoldForLeaveAside(p) ==
    LET s     == Folded(state, p)
        ends  == state.side # None /\ p \in {state.side.requester, state.side.target}
        freed == IF ends THEN [s EXCEPT !.side = None, !.turn = state.side.requester] ELSE s
    IN  /\ state.status = "IN_PROGRESS"
        /\ p \in Active(state)
        /\ state' = CASE Cardinality(Active(freed)) = 1 -> Finished(Settled(freed, None))
                      [] Cardinality(Active(freed)) # 1 /\ (state.turn = p \/ ends)
                           -> WithTurn(freed, NextSeat(freed))
                      [] OTHER -> freed

\* A departure folds on anybody's turn.  It ends a pending side-show that
\* the player takes part in, or that only two players would be left for.
FoldForLeave(p) ==
    LET s     == Folded(state, p)
        ends  == /\ state.side # None
                 /\ p \in {state.side.requester, state.side.target} \/ Cardinality(Active(s)) < 3
        freed == IF ends THEN [s EXCEPT !.side = None, !.turn = state.side.requester] ELSE s
    IN  /\ state.status = "IN_PROGRESS"
        /\ p \in Active(state)
        /\ state' = CASE Cardinality(Active(freed)) = 1 -> Finished(Settled(freed, None))
                      [] Cardinality(Active(freed)) # 1 /\ (state.turn = p \/ ends)
                           -> WithTurn(freed, NextSeat(freed))
                      [] OTHER -> freed

-----------------------------------------------------------------------------
(* The show of the last two players. *)

ShowCards(p) ==
    LET s      == Pays(state, p, ShowCost(state, p))
        target == CHOOSE q \in Active(s) : q # p
    IN  /\ CanShow(state, p)
        /\ state' = [s EXCEPT !.show = [requester |-> p, target |-> target],
                              !.revealed = {p}, !.turn = target]

\* _respond_show: the other player reveals, or folds.
RespondShow(p, reveal) ==
    LET s == IF reveal THEN state ELSE Folded(state, p)
    IN  /\ state.status = "IN_PROGRESS"
        /\ state.show # None
        /\ state.show.target = p
        /\ state' = Finished(Settled(s, IF reveal THEN state.show.requester ELSE None))

-----------------------------------------------------------------------------
(* The side-show with the previous seen player. *)

RequestSideShow(p) ==
    LET target == PreviousSeen(state, p)
    IN  /\ CanSideShow(state, p)
        /\ BetsLeft(state)
        /\ state' = [Pays(state, p, RequiredBet(state, p)) EXCEPT
                       !.player[p].bets = @ + 1,
                       !.side = [requester |-> p, target |-> target],
                       !.turn = target]

\* Mutant of RespondSideShow: the comparison is read the wrong way round.
RespondSideShowReversed(p, accept) ==
    LET r      == state.side.requester
        winner == IF state.player[r].hand > state.player[p].hand THEN p ELSE r
        loser  == IF winner = r THEN p ELSE r
        closed == [state EXCEPT !.side = None, !.turn = r]
        s      == IF accept
                  THEN [Folded(closed, loser) EXCEPT
                          !.sideShows = @ \cup {[requester |-> r, target |-> p,
                                                 winner |-> winner, loser |-> loser]}]
                  ELSE closed
    IN  /\ state.status = "IN_PROGRESS"
        /\ state.side # None
        /\ state.side.target = p
        /\ state' = WithTurn(s, NextSeat(s))

\* Equal hands are lost by the requester, whatever the rules say of ties.
RespondSideShow(p, accept) ==
    LET r      == state.side.requester
        winner == IF state.player[r].hand > state.player[p].hand THEN r ELSE p
        loser  == IF winner = r THEN p ELSE r
        closed == [state EXCEPT !.side = None, !.turn = r]
        s      == IF accept
                  THEN [Folded(closed, loser) EXCEPT
                          !.sideShows = @ \cup {[requester |-> r, target |-> p,
                                                 winner |-> winner, loser |-> loser]}]
                  ELSE closed
    IN  /\ state.status = "IN_PROGRESS"
        /\ state.side # None
        /\ state.side.target = p
        /\ state' = WithTurn(s, NextSeat(s))

-----------------------------------------------------------------------------
RoundNext ==
    \/ StartGame
    \/ \E ids \in RosterSeqs, creator \in PlayerIds : PrepareNextRound(ids, creator)
    \/ \E p \in Roster(state) :
        \/ DealCards(p)
        \/ \E hands \in [Roster(state) -> 1..HandMax] : CompleteDeal(p, hands)
        \/ \E raise \in 0..MaxRaise : Bet(p, RequiredBet(state, p) + raise)
        \/ SeeCards(p)
        \/ Fold(p)
        \/ FoldForLeave(p)
        \/ ShowCards(p)
        \/ \E reveal \in BOOLEAN : RespondShow(p, reveal)
        \/ RequestSideShow(p)
        \/ \E accept \in BOOLEAN : RespondSideShow(p, accept)

RoundSpec == RoundInit /\ [][RoundNext]_state

-----------------------------------------------------------------------------
(* Properties. *)

Requests(s) == [requester : Roster(s), target : Roster(s)]

\* Every field of the engine's state keeps its type (FlushGameState).
RoundTypeOK ==
    /\ state.rules \in RuleSets
    /\ state.ids \in RosterSeqs
    /\ state.dealer \in Roster(state)
    /\ state.status \in {"WAITING", "AWAITING_DEAL", "AWAITING_CUT", "IN_PROGRESS", "FINISHED"}
    /\ state.turn \in Roster(state) \cup {None}
    /\ state.player \in [Roster(state) ->
         [folded : BOOLEAN, seen : BOOLEAN, paid : Nat, bets : 0..MaxBets,
          blindBets : 0..MaxBets, hand : 0..HandMax]]
    /\ {state.blindBet, state.seenBet, state.pot} \subseteq Nat
    /\ {state.show, state.side} \subseteq Requests(state) \cup {None}
    /\ state.revealed \subseteq Roster(state)
    /\ \A r \in state.sideShows : {r.requester, r.target, r.winner, r.loser} \subseteq Roster(state)

\* The parts of the audit, in the order of validate_game_state.
MoneyAudit(s) ==
    /\ \A p \in Roster(s) :
         LET q == s.player[p] IN {q.paid, q.bets, q.blindBets} \subseteq Nat /\ q.blindBets <= q.bets
    /\ s.pot = SumFunction([p \in Roster(s) |-> s.player[p].paid])
    /\ (s.net # None) <=> (s.status = "FINISHED")
    /\ s.net # None =>
         /\ SumFunction(s.net) = 0
         /\ s.net = [p \in Roster(s) |-> Payout(s, p) - s.player[p].paid]

ShowAudit(s) ==
    IF s.show # None
    THEN /\ s.status = "IN_PROGRESS" /\ s.side = None
         /\ {s.show.requester, s.show.target} = Active(s)
         /\ s.show.requester # s.show.target
         /\ s.turn = s.show.target
         /\ s.revealed = {s.show.requester}
    ELSE s.status # "FINISHED" => s.revealed = {}

SideShowAudit(s) ==
    /\ s.side # None =>
         /\ s.status = "IN_PROGRESS" /\ s.rules.allowSideShow
         /\ s.side.requester # s.side.target
         /\ \A p \in {s.side.requester, s.side.target} : p \in Active(s) /\ s.player[p].seen
         /\ Cardinality(Active(s)) >= 3
         /\ s.turn = s.side.target
    /\ \A r \in s.sideShows :
         /\ r.requester # r.target
         /\ {r.winner, r.loser} = {r.requester, r.target}
         /\ r.loser \notin Active(s)

PreparationAudit(s) ==
    /\ s.player = [p \in Roster(s) |-> Fresh]
    /\ s.settlement = None /\ s.sideShows = {} /\ s.side = None
    /\ s.blindBet = 0 /\ s.seenBet = 0
    /\ s.turn = CASE s.status = "WAITING" -> None
                  [] s.status = "AWAITING_DEAL" -> s.dealer
                  [] OTHER -> Clockwise(s, s.dealer, 1)

StakesAudit(s) ==
    /\ \A p \in Roster(s) : s.player[p].hand # 0
    /\ s.seenBet >= s.rules.initialBlind * s.rules.multiplier
    /\ s.blindBet = (s.seenBet + s.rules.multiplier - 1) \div s.rules.multiplier

RoundAudit(s) ==
    IF s.status = "IN_PROGRESS"
    THEN Cardinality(Active(s)) >= 2 /\ s.settlement = None /\ s.turn \in Active(s)
    ELSE LET r == s.settlement
         IN  /\ s.turn = None /\ r # None
             /\ r.winners # <<>> /\ IsInjective(r.winners) /\ ToSet(r.winners) \subseteq Active(s)
             /\ Len(r.payouts) = Len(r.winners)
             /\ ToSet(r.payouts) \subseteq Nat /\ SumFunction(r.payouts) = s.pot
             /\ CASE r.reason = "LAST_PLAYER_REMAINING" -> Cardinality(Active(s)) = 1 /\ r.shown = {}
                  [] r.reason = "SHOW_FOLD" -> Cardinality(Active(s)) = 1 /\ Cardinality(r.shown) = 1
                  [] OTHER -> Cardinality(Active(s)) = 2 /\ r.shown = Active(s)

\* validate_game_state
Audit(s) ==
    /\ MoneyAudit(s)
    /\ ShowAudit(s)
    /\ SideShowAudit(s)
    /\ IF s.status \in {"WAITING", "AWAITING_DEAL", "AWAITING_CUT"}
       THEN PreparationAudit(s)
       ELSE StakesAudit(s) /\ RoundAudit(s)

\* The audit of a candidate never fails, whatever legal commands and
\* departures led to it: an InvariantError would leave a command that every
\* retry repeats and that nobody can answer (flush/invariants.py).
AuditPasses == Audit(state)

\* Within a round neither minimum ever falls, whatever the mix of blind and
\* seen bets: the rounding of a seen bet to a blind minimum must not let the
\* next blind bet undercut a seen player (bet, flush/engine.py).
StakesNeverFall ==
    [][state.status = "IN_PROGRESS" /\ state'.status = "IN_PROGRESS"
         => state'.blindBet >= state.blindBet /\ state'.seenBet >= state.seenBet]_state

\* A round that nobody but losers of side-shows left is decided by the
\* cards: no hand of the table beats a winner's, through any chain of
\* side-shows, and a tie is split only where the rules say so.
BestHandWins ==
    LET losers == {r.loser : r \in state.sideShows}
        r      == state.settlement
    IN  state.status = "FINISHED" /\ Roster(state) \ Active(state) \subseteq losers
          => /\ r.reason = "SHOW"
             /\ \A p \in Roster(state), w \in ToSet(r.winners) :
                    state.player[p].hand <= state.player[w].hand
             /\ Len(r.winners) > 1 => state.rules.tie = "SPLIT"
=============================================================================
