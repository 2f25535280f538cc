---------------------------- MODULE MarriageFinish ----------------------------
(***************************************************************************)
(* What the client tells a Marriage player of his own cards, and what the  *)
(* server makes of it: the groups to show for the Maal and the cards that  *)
(* are missing for them (client/src/multiplayer/maalProgress.ts and        *)
(* marriage.ts), the winning groups, gaps and discards after it            *)
(* (marriageFinishProgress.ts), and the tools that present them.  The      *)
(* client repeats rules of the server (marriage/melds.py, completion.py);  *)
(* nothing but this repetition keeps the two alike.                        *)
(***************************************************************************)
EXTENDS Naturals, FiniteSetsExt, SequencesExt

CONSTANTS
    Top,      \* ranks of a suit, 13 in the code; ranks are 2 .. Top + 1, the Ace being the last
    Suits, Copies, Men, \* four suits, three decks and three Men in the code
    Melds, Pairs, HandSize, \* 3 groups or 7 pairs to show, 21 cards to hold, in the code
    Most,     \* ways to win that the client offers at most, 24 in the code
    Deck,     \* bound of the model: the cards that ever reach this player
    Indicators \* bound of the model: the faces that Tiplu may have

VARIABLES mine, ready
finishVars == <<mine, ready>>

Ace == Top + 1
FacesOfDeck == (2 .. Ace) \X Suits
Physical == [rank : 2 .. Ace, suit : Suits, copy : 1 .. Copies] \cup [rank : {0}, suit : {"man"}, copy : 1 .. Men]
ASSUME MarriageFinishAssumption ==
    /\ {Top, Copies, Men, Melds, Pairs, HandSize, Most} \subseteq Nat /\ Top > 2 /\ "man" \notin Suits
    /\ Deck \subseteq Physical /\ Indicators \subseteq FacesOfDeck

Standard(card) == card.suit # "man"
Face(card) == <<card.rank, card.suit>>
Held(cards, face) == {card \in cards : Face(card) = face}
CardsOf(groups) == UNION {g.cards : g \in groups}
InRow(S) == FoldSet(LAMBDA x, row : Append(row, x), <<>>, S)
Disjoint(sets) == \A a, b \in sets : a # b => a \cap b = {}

\* The Ace stands below Two or above the King, never between them.
Low == [r \in 2 .. Ace |-> IF r = Ace THEN 1 ELSE r]
Orders == {Low, [r \in 2 .. Ace |-> r]}
Spread(cards, order) == {order[card.rank] : card \in cards}
FitsOrder(cards, order, n) ==
    LET places == Spread(cards, order)
    IN Cardinality(places) = Cardinality(cards) /\ (places # {} => Max(places) - Min(places) < n)
OneSuit(cards) == Cardinality({card.suit : card \in cards}) <= 1
SameFace(cards) == Cardinality({Face(card) : card \in cards}) = 1
Natural(cards) == \A card \in cards : Standard(card)

\* The neighbours of the indicator are counted around the suit.
Beside(face, step) ==
    LET place == (Low[face[1]] - 1 + step) % Top
    IN <<IF place = 0 THEN Ace ELSE place + 1, face[2]>>
MaalOf(tiplu) == [tiplu |-> tiplu, jhiplu |-> Beside(tiplu, Top - 1), poplu |-> Beside(tiplu, 1)]

-------------------------------------------------------------------------------
(* The server *)

ValidMeld(group) ==
    LET cards == group.cards IN
    /\ Natural(cards)
    /\ \/ group.kind = "pure_sequence" /\ Cardinality(cards) >= 3 /\ OneSuit(cards)
          /\ \E order \in Orders : FitsOrder(cards, order, Cardinality(cards))
       \/ group.kind = "tunnela" /\ Cardinality(cards) = 3 /\ SameFace(cards)
       \/ group.kind = "dublee" /\ Cardinality(cards) = 2 /\ SameFace(cards)
ValidDeclaration(hand, groups, route) ==
    /\ Cardinality(groups) = (IF route = "dublee" THEN Pairs ELSE Melds)
    /\ \A g \in groups : /\ g.cards \subseteq hand /\ ValidMeld(g)
                         /\ route = "dublee" <=> g.kind = "dublee"
    /\ Disjoint({g.cards : g \in groups}) /\ Cardinality({g.cards : g \in groups}) = Cardinality(groups)
    /\ route = "normal" => Cardinality(CardsOf(groups)) < Cardinality(hand)

completion_meld(cards, tiplu) ==
    LET n == Cardinality(cards)
        maal == MaalOf(tiplu)
        fixed == {c \in cards : Standard(c) /\ c.rank # tiplu[1] /\ Face(c) \notin {maal.jhiplu, maal.poplu}}
    IN  IF n < 3 THEN "none"
        ELSE IF Natural(cards) /\ n = 3 /\ SameFace(cards) THEN "tunnela"
        ELSE IF Natural(cards) /\ OneSuit(cards) /\ \E order \in Orders : FitsOrder(cards, order, n) THEN "pure_sequence"
        ELSE IF n <= Top /\ OneSuit(fixed) /\ \E order \in Orders : FitsOrder(fixed, order, n) THEN "sequence"
        ELSE IF n <= 4 /\ Cardinality({c.rank : c \in fixed}) <= 1
                /\ Cardinality({c.suit : c \in fixed}) = Cardinality(fixed) THEN "set"
        ELSE "none"

Loose(p) == p.hand \ CardsOf(p.shown)
Protected(p) == UNION p.tunnelas
MayFinish(p) == p.route = "normal" /\ p.tiplu # "none" /\ Cardinality(p.hand) = HandSize + 1 /\ Cardinality(p.shown) = Melds
\* An exact cover by groups of those that the server finds among the cards.
CoverExists(cards, groups) ==
    LET cover[s \in SUBSET cards] ==
            s = {} \/ LET first == CHOOSE c \in s : TRUE
                      IN \E g \in groups : first \in g /\ g \subseteq s /\ cover[s \ g]
    IN cover[cards]
NormalFinish(p) ==
    /\ MayFinish(p)
    /\ LET groups == {g \in SUBSET Loose(p) : completion_meld(g, p.tiplu) # "none"}
       IN \E card \in Loose(p) \ Protected(p) : CoverExists(Loose(p) \ {card}, groups)
ValidNormalFinish(p, choice) ==
    /\ MayFinish(p) /\ choice.discard \notin Protected(p)
    /\ p.shown \subseteq choice.melds
    /\ Disjoint({g.cards : g \in choice.melds}) /\ CardsOf(choice.melds) = p.hand \ {choice.discard}
    /\ choice.discard \in p.hand
    /\ \A g \in choice.melds \ p.shown : completion_meld(g.cards, p.tiplu) = g.kind
EighthPair(p) == p.route = "dublee" /\ \E a, b \in Loose(p) : a # b /\ Standard(a) /\ Face(a) = Face(b)
ValidEighthPair(p, pair) ==
    /\ p.route = "dublee" /\ Cardinality(p.shown) = Pairs
    /\ Cardinality(pair) = 2 /\ pair \subseteq Loose(p) /\ Natural(pair) /\ SameFace(pair)
WinningDiscard(p, card) ==
    p.route = "dublee" /\ Standard(card) /\ \E c \in Loose(p) : Face(c) = Face(card) /\ c # card

-------------------------------------------------------------------------------
(* The client before the Maal is seen *)

\* Sequences of three and triplets, by their faces.
Patterns ==
    InRow({<<"tunnela", <<f, f, f>> >> : f \in FacesOfDeck}
        \cup {<<"pure_sequence", <<f, Beside(f, 1), Beside(f, 2)>> >> : f \in {g \in FacesOfDeck : Low[g[1]] < Top}})
\* Patterns may repeat, but their order is fixed.
PlansOf(usable) ==
    {[i \in 1 .. Melds |-> Patterns[at[i]]] :
        at \in {s \in [1 .. Melds -> usable] : \A i \in 2 .. Melds : s[i - 1] <= s[i]}}
PairPlan(faces) == LET row == InRow(faces) IN [i \in DOMAIN row |-> <<"dublee", <<row[i], row[i]>> >>]

\* The cards of the hand by face are given to the patterns one after the other.
Row(hand, face) == SetToSortSeq(Held(hand, face), LAMBDA a, b : a.copy < b.copy)
Needed(plan) == FlattenSeq([i \in DOMAIN plan |-> plan[i][2]])
Uses(faces, face, n) == Cardinality({i \in 1 .. n : faces[i] = face})
CopiesHeld(hand) == [f \in FacesOfDeck |-> Cardinality(Held(hand, f))]
Lacking(plan, count) == LET faces == Needed(plan) IN {n \in DOMAIN faces : Uses(faces, faces[n], n) > count[faces[n]]}
Allocate(plan, hand) ==
    LET faces == Needed(plan)
        size == Len(plan[1][2])
        given(i) == ((i - 1) * size + 1 .. i * size) \ Lacking(plan, CopiesHeld(hand))
    IN {[kind |-> plan[i][1], cards |-> {Row(hand, faces[n])[Uses(faces, faces[n], n)] : n \in given(i)}] : i \in DOMAIN plan}

ChoicesWith(hand, count) ==
    {[route |-> "normal", groups |-> Allocate(plan, hand)] :
        plan \in {q \in PlansOf({k \in DOMAIN Patterns : Lacking(<<Patterns[k]>>, count) = {}}) : Lacking(q, count) = {}}}
    \cup {[route |-> "dublee", groups |-> Allocate(PairPlan(faces), hand)] :
             faces \in kSubset(Pairs, {f \in FacesOfDeck : count[f] >= 2})}
MaalChoices(hand) == ChoicesWith(hand, CopiesHeld(hand))

\* The plan that lacks least, and the faces of which most copies are held.
OpenPlans ==
    {q \in PlansOf(DOMAIN Patterns) : LET faces == Needed(q) IN \A n \in DOMAIN faces : Uses(faces, faces[n], n) <= Copies}
Least(plan, count, hand) == [groups |-> Allocate(plan, hand), missing |-> Cardinality(Lacking(plan, count))]
Nearest(count, least) == CHOOSE q \in OpenPlans : Cardinality(Lacking(q, count)) = least
ProgressWith(hand, count) ==
    [normal |-> Least(Nearest(count, Min({Cardinality(Lacking(q, count)) : q \in OpenPlans})), count, hand),
     dublee |-> Least(PairPlan(CHOOSE s \in kSubset(Pairs, FacesOfDeck) : \A f \in s, g \in FacesOfDeck \ s : count[f] >= count[g]),
                      count, hand)]
MaalProgress(hand) == ProgressWith(hand, CopiesHeld(hand))

\* The first three groups without a common card, each of them of single physical cards.
Suggestions(hand) ==
    LET melds == {g \in kSubset(3, {c \in hand : Standard(c)}) :
                     SameFace(g) \/ \E f \in FacesOfDeck : Low[f[1]] < Top /\ {Face(c) : c \in g} = {f, Beside(f, 1), Beside(f, 2)}}
        find[n \in 0 .. Melds, used \in SUBSET hand] ==
            n = Melds \/ \E g \in melds : g \cap used = {} /\ find[n + 1, used \cup g]
        paired == {f \in FacesOfDeck : Cardinality(Held(hand, f)) >= 2}
    IN {route \in {"normal", "dublee"} : IF route = "normal" THEN find[0, {}] ELSE Cardinality(paired) >= Pairs}

CanSubmit(groups) ==
    IF Cardinality(groups) = Pairs /\ \A g \in groups : g.kind = "dublee" THEN "dublee"
    ELSE IF Cardinality(groups) = Melds /\ \A g \in groups : g.kind # "dublee" THEN "normal"
    ELSE "none"

-------------------------------------------------------------------------------
(* The client after it *)

Wild(card, maal) == ~Standard(card) \/ card.rank = maal.tiplu[1] \/ Face(card) \in {maal.jhiplu, maal.poplu}
completionKind(cards, maal) ==
    LET n == Cardinality(cards)
        fixed == {c \in cards : ~Wild(c, maal)}
        climbs(order) == \E r \in Spread(cards, order) : Spread(cards, order) = r .. r + n - 1
    IN  IF n < 3 THEN "none"
        ELSE IF Natural(cards) /\ n = 3 /\ SameFace(cards) THEN "tunnela"
        ELSE IF Natural(cards) /\ OneSuit(cards) /\ \E order \in Orders : climbs(order) THEN "pure_sequence"
        ELSE IF n <= Top /\ OneSuit(fixed) /\ \E order \in Orders : FitsOrder(fixed, order, n) THEN "sequence"
        ELSE IF n <= 4 /\ Cardinality(Spread(fixed, Low)) <= 1
                /\ Cardinality({c.suit : c \in fixed}) = Cardinality(fixed) THEN "set"
        ELSE "none"
Completions(cards, maal) == {g \in SUBSET cards : completionKind(g, maal) # "none"}
AsMeld(g, maal) == [kind |-> completionKind(g, maal), cards |-> g]

\* The groups that cover most; one card is left for the discard.
Covered(groups) == Cardinality(UNION groups)
Better(a, b) == IF Covered(b) > Covered(a) THEN b ELSE a
BestCover(cards, fitting, target) ==
    LET cover[s \in SUBSET cards] ==
            IF s = {} THEN {}
            ELSE LET first == CHOOSE c \in s : TRUE
                 IN FoldSet(Better, cover[s \ {first}],
                            {{g} \cup cover[s \ g] : g \in {h \in fitting : first \in h /\ h \subseteq s}})
    IN FoldSet(Better, {}, {cover[s] : s \in IF Cardinality(cards) > target THEN {cards \ {c} : c \in cards} ELSE {cards}})
Progress(best, cards, target, hand) ==
    [groups |-> best, unused |-> cards \ UNION best, covered |-> Covered(best), target |-> target,
     ready |-> Cardinality(hand) = HandSize + 1 /\ Covered(best) = target]
ProgressOf(cards, target, hand, maal) ==
    Progress(BestCover(cards, {g \in Completions(cards, maal) : Cardinality(g) <= target}, target), cards, target, hand)
NormalProgress(hand, shown, maal) ==
    ProgressOf(hand \ CardsOf(shown), HandSize - Cardinality(CardsOf(shown)), hand, maal)

\* Two cards that lack a third, and the faces, or a wild card, that would do.
Candidate(face) == [rank |-> face[1], suit |-> face[2], copy |-> 0]
FinishingGaps(cards, hand, maal) ==
    {gap \in {[held |-> pair,
               needed |-> {f \in FacesOfDeck : /\ ~Wild(Candidate(f), maal) /\ Cardinality(Held(hand, f)) < Copies
                                         /\ completionKind(pair \cup {Candidate(f)}, maal) # "none"},
               wildHelps |-> completionKind(pair \cup {[rank |-> 0, suit |-> "man", copy |-> 0]}, maal) # "none"] :
                  pair \in kSubset(2, cards)} : gap.needed # {} \/ gap.wildHelps}

\* The eighth pair: what is there, what waits for a copy, and whether a discard helps.
DubleeProgress(hand, shown) ==
    LET cards == hand \ CardsOf(shown)
        held == {f \in FacesOfDeck : Held(cards, f) # {}}
    IN [pairs |-> {f \in held : Cardinality(Held(cards, f)) >= 2},
        waiting |-> {<<f, Copies - Cardinality(Held(hand, f))>> : f \in {g \in held : Cardinality(Held(cards, g)) = 1}}]
DiscardHelps(hand, shown, card) ==
    Standard(card) /\ card \notin hand /\ Held(hand \ CardsOf(shown), Face(card)) # {}

\* The client keeps `Most' of the ways to win, in the order of the cards' names.
AtMost(choices) == LET row == InRow(choices) IN ToSet(SubSeq(row, 1, Min({Most, Len(row)})))
\* Mutant of Discardable: any card is put down.
DiscardableAny(p, cards) == cards

\* The cards of a Tunnela that was declared at first are kept.
Discardable(p, cards) == cards \ UNION p.tunnelas
WinsWith(p, cards, groups, maal) ==
    LET covers[s \in SUBSET cards] ==
            IF s = {} THEN {{}}
            ELSE LET first == CHOOSE c \in s : TRUE
                 IN AtMost(UNION {{{AsMeld(g, maal)} \cup rest : rest \in covers[s \ g]} :
                                     g \in {h \in groups : first \in h /\ h \subseteq s}})
    IN AtMost(UNION {{[melds |-> p.shown \cup melds, discard |-> card] : melds \in covers[cards \ {card}]} :
                        card \in Discardable(p, cards)})
WinChoices(p) ==
    LET cards == p.hand \ CardsOf(p.shown) IN
    IF Cardinality(p.hand) # HandSize + 1 THEN {}
    ELSE IF p.route = "dublee" THEN {[pair |-> pair] : pair \in {q \in kSubset(2, cards) : Natural(q) /\ SameFace(q)}}
    ELSE WinsWith(p, cards, Completions(cards, MaalOf(p.tiplu)), MaalOf(p.tiplu))

-------------------------------------------------------------------------------
(* What the tools show *)

\* MaalProgress: both routes, those that may be reviewed, and what the top discard would do for them.
Compared(progress, with) ==
    [progress |-> progress, with |-> with,
     reviewed |-> {route \in {"normal", "dublee"} : progress[route].missing = 0},
     helped |-> {route \in {"normal", "dublee"} : with[route].missing < progress[route].missing}]
MaalTool(hand, top) == Compared(MaalProgress(hand), MaalProgress(hand \cup {top}))
\* MarriageFinishTool, for the route that was shown.
PairsTold(p, top, pairs) == [ready |-> pairs.pairs # {}, waiting |-> pairs.waiting, helps |-> DiscardHelps(p.hand, p.shown, top)]
Helps(progress, more) == more.covered > progress.covered \/ more.ready
GroupsTold(p, top, progress, maal) ==
    [ready |-> progress.ready, progress |-> progress,
     gaps |-> IF progress.ready THEN {} ELSE FinishingGaps(progress.unused, p.hand, maal),
     helps |-> Cardinality(p.hand) = HandSize /\ top \notin p.hand
               /\ Helps(progress, NormalProgress(p.hand \cup {top}, p.shown, maal))]
FinishTool(p, top) ==
    IF p.route = "dublee" THEN PairsTold(p, top, DubleeProgress(p.hand, p.shown))
    ELSE GroupsTold(p, top, NormalProgress(p.hand, p.shown, MaalOf(p.tiplu)), MaalOf(p.tiplu))

-------------------------------------------------------------------------------
(* A player's turns *)

WaysToShow(p, route) == InRow({choice \in MaalChoices(p.hand) : choice.route = route})
\* MaalReady keeps to the route and the page for which it was last asked, where there is one.
ActiveRoute == IF WaysToShow(mine, ready.route) # <<>> THEN ready.route ELSE IF ready.route = "normal" THEN "dublee" ELSE "normal"
OnPage(row, page) == row[Min({page, Len(row)})]
ReadyChoice == OnPage(WaysToShow(mine, ActiveRoute), ready.page)
ReadyShown == mine.route = "none" /\ MaalChoices(mine.hand) # {}

HoldsFirst(hand, tunnelas) ==
    /\ mine = [hand |-> hand, shown |-> {}, route |-> "none", tiplu |-> "none", tunnelas |-> tunnelas,
               phase |-> "draw", won |-> FALSE]
    /\ ready = [open |-> FALSE, route |-> "normal", page |-> 1]
MarriageFinishInit ==
    \E hand \in kSubset(HandSize, Deck) :
    \E tunnelas \in {{}} \cup {{g} : g \in {h \in kSubset(3, hand) : ValidMeld([kind |-> "tunnela", cards |-> h])}} :
        HoldsFirst(hand, tunnelas)

Draw ==
    /\ mine.phase = "draw" /\ ~mine.won
    /\ \E card \in Deck \ mine.hand : mine' = [mine EXCEPT !.hand = @ \cup {card}, !.phase = "discard"]
    /\ UNCHANGED ready
Discard ==
    /\ mine.phase = "discard" /\ ~mine.won
    /\ \E card \in Loose(mine) \ Protected(mine) : mine' = [mine EXCEPT !.hand = @ \ {card}, !.phase = "draw"]
    /\ UNCHANGED ready

\* The tool that counts the ways to the Maal: it opens, changes its route, turns its page, and hands a way over.
PagesBeside(last, page) == {Min({page, last}) - 1, Min({page, last}) + 1} \cap (1 .. last)
OpenReady == ReadyShown /\ ready' = [ready EXCEPT !.open = ~@] /\ UNCHANGED mine
PickRoute ==
    /\ ReadyShown /\ ready.open
    /\ \E route \in {"normal", "dublee"} : WaysToShow(mine, route) # <<>> /\ ready' = [ready EXCEPT !.route = route, !.page = 1]
    /\ UNCHANGED mine
TurnReadyPage ==
    /\ ReadyShown /\ ready.open
    /\ \E page \in PagesBeside(Len(WaysToShow(mine, ActiveRoute)), ready.page) : ready' = [ready EXCEPT !.page = page]
    /\ UNCHANGED mine
\* The server shows the groups of a reviewed combination, and the indicator with them.
ShowReady ==
    /\ ReadyShown /\ ready.open /\ mine.phase = "discard"
    /\ LET choice == ReadyChoice IN
       /\ ValidDeclaration(mine.hand, choice.groups, CanSubmit(choice.groups))
       /\ \E tiplu \in Indicators :
             mine' = [mine EXCEPT !.shown = choice.groups, !.route = CanSubmit(choice.groups), !.tiplu = tiplu]
    /\ ready' = [ready EXCEPT !.open = FALSE]
Finish ==
    /\ mine.phase = "discard" /\ mine.route # "none" /\ ~mine.won
    /\ \E choice \in WinChoices(mine) :
          IF mine.route = "dublee" THEN ValidEighthPair(mine, choice.pair) ELSE ValidNormalFinish(mine, choice)
    /\ mine' = [mine EXCEPT !.won = TRUE] /\ UNCHANGED ready

MarriageFinishNext == Draw \/ Discard \/ OpenReady \/ PickRoute \/ TurnReadyPage \/ ShowReady \/ Finish

-------------------------------------------------------------------------------
(* Properties *)

\* Groups of three that the server takes, of all the cards there are; and the choices of as many as are shown.
NaturalMelds ==
    {g \in {{a, b, c} : a, b, c \in {d \in Physical : Standard(d)}} :
        \E kind \in {"tunnela", "pure_sequence"} : ValidMeld([kind |-> kind, cards |-> g])}
Apart(row) == \A i, j \in DOMAIN row : i < j => row[i] \cap row[j] = {}
Declarations == {UNION ToSet(row) : row \in {t \in [1 .. Melds -> NaturalMelds] : Apart(t)}}
LeastMissing(hand, route) ==
    IF route = "normal" THEN Min({Cardinality(cards \ hand) : cards \in Declarations})
    ELSE Min({FoldSet(LAMBDA f, n : n + 2 - Min({2, Cardinality(Held(hand, f))}), 0, s) : s \in kSubset(Pairs, FacesOfDeck)})
\* The most cards that disjoint groups of the server can cover, when one card is to be left over.
MostOf(groups, room) ==
    Max({Cardinality(cards) : cards \in
            {c \in {UNION ToSet(row) : row \in {t \in UNION {[1 .. n -> groups] : n \in 0 .. room \div 3} : Apart(t)}} :
                Cardinality(c) <= room}})
MostCovered(p) ==
    MostOf({g \in SUBSET Loose(p) : completion_meld(g, p.tiplu) # "none"}, HandSize - Cardinality(CardsOf(p.shown)))
TopDiscard == CHOOSE card \in Deck : card \notin mine.hand \/ mine.hand = Deck

\* Before the Maal, every combination that is offered may be shown, the three ways in which the client
\* looks for combinations agree, and no fewer cards than it counts would do.
CombinationsTrue(choices, tool) ==
    /\ \A choice \in choices : ValidDeclaration(mine.hand, choice.groups, choice.route)
    /\ \A route \in {"normal", "dublee"} :
          /\ tool.progress[route].missing = LeastMissing(mine.hand, route)
          /\ route \in tool.reviewed <=> \E choice \in choices : choice.route = route
          /\ route \in tool.reviewed <=> route \in Suggestions(mine.hand)
          /\ route \in tool.helped <=> tool.with[route].missing = tool.progress[route].missing - 1
MayShow(choice) == ValidDeclaration(mine.hand, choice.groups, CanSubmit(choice.groups))
MaalAdviceTrue ==
    mine.route = "none" =>
        /\ ReadyShown => MayShow(ReadyChoice)
        /\ ready = [open |-> FALSE, route |-> "normal", page |-> 1] =>
              CombinationsTrue(MaalChoices(mine.hand), MaalTool(mine.hand, TopDiscard))

\* After it, a way to win is offered exactly when the server would let the player finish, the server
\* takes each of them, the groups of the plan cover as much as can be covered, and a card that the
\* client asks for exists outside the hand and does what it says.
GroupsTrue(choices, tool) ==
    /\ \A choice \in choices : ValidNormalFinish(mine, choice)
    /\ choices # {} <=> NormalFinish(mine)
    /\ choices # {} => tool.ready
    /\ tool.progress.covered = MostCovered(mine)
    /\ \A gap \in tool.gaps : \A f \in gap.needed :
          \E card \in Held(Physical \ mine.hand, f) : completion_meld(gap.held \cup {card}, mine.tiplu) # "none"
PairsTrue(choices, tool, top) ==
    /\ \A choice \in choices : ValidEighthPair(mine, choice.pair)
    /\ tool.ready <=> EighthPair(mine)
    /\ mine.phase = "discard" => (choices # {} <=> EighthPair(mine))
    /\ \A w \in tool.waiting : w[2] > 0 <=> Held(Physical \ mine.hand, w[1]) # {}
    /\ top \notin mine.hand => (tool.helps <=> WinningDiscard(mine, top))
ToldTrue(choices, tool, top) ==
    IF mine.route = "normal" THEN GroupsTrue(choices, tool) ELSE PairsTrue(choices, tool, top)
FinishAdviceTrue ==
    mine.route # "none" /\ ~mine.won => ToldTrue(WinChoices(mine), FinishTool(mine, TopDiscard), TopDiscard)
AdviceHonoured == MaalAdviceTrue /\ FinishAdviceTrue
===============================================================================
