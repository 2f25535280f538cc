---------------------------- MODULE CallBreakScreen ----------------------------
(***************************************************************************)
(* The table of a Call Break match as one player sees it                   *)
(* (client/src/screens/LiveGameTable.tsx with handDrawer.ts,               *)
(* useCallBreakHand.ts, PlayerHand.tsx, LiveBidPrompt.tsx and              *)
(* roundFlow.ts): the drawer that holds the hand, the cards turned face up *)
(* one by one, the trick that stays on the table after it was won, and the *)
(* one command under way.  `host' is the match as the client meets it;     *)
(* snapshots of it may skip any number of moves.                           *)
(***************************************************************************)
EXTENDS Integers, FiniteSets

CONSTANTS
    Cards,          \* a dealt hand
    MaxDeals        \* bound of the model: deals, a redeal counting as one

ASSUME CallBreakAssumption == IsFiniteSet(Cards) /\ Cards # {} /\ MaxDeals \in Nat \ {0}

VARIABLES
    host,           \* the match
    seen,           \* the snapshot on the screen
    drawer,         \* useCallBreakHand
    faces,          \* PlayerHand: cards revealed, one chosen, hidden or not
    trickShown,     \* how far the won trick has been put away
    command         \* the command under way
callBreakVars == <<host, seen, drawer, faces, trickShown, command>>

Preparing == {"AWAITING_SHUFFLE", "AWAITING_CUT", "AWAITING_DISTRIBUTION"}
Deals == 1 .. MaxDeals
NoPlay == [card |-> "none", revision |-> 0]
NoPrompt == <<>>

\* ---- The match, as far as it is told
\* `other' is all who come before the player, or all who come after.
Turns == {"me", "other"}
Turned(h, turn) == [h EXCEPT !.turn = turn, !.revision = @ + 1]
Begins(h, phase) == {Turned([h EXCEPT !.phase = phase, !.acted = FALSE], t) : t \in Turns}
NewDeal(h) == [h EXCEPT !.deal = @ + 1, !.hand = {}, !.trick = 0, !.plays = FALSE]

\* Everybody has one turn in a round of bids, or in a trick, and then it is over.
Goes(h, over) ==
    IF h.turn = "me" THEN {Turned([h EXCEPT !.acted = TRUE], "other")} \cup IF h.plays THEN over ELSE {}
    ELSE IF h.acted THEN over ELSE {Turned(h, "me")}
Played(h, card) ==
    LET now == [h EXCEPT !.hand = @ \ {card}]
        won == [now EXCEPT !.plays = FALSE, !.trick = @ + 1]
    IN {IF next.trick = h.trick THEN [next EXCEPT !.plays = TRUE] ELSE next :
          next \in Goes(now, Begins(won, IF won.hand = {} THEN "DEAL_COMPLETE" ELSE "PLAYING"))}
Legal(h, name, card) ==
    CASE name = "SHUFFLE_DECK" /\ h.phase = "AWAITING_SHUFFLE" -> Begins(h, "AWAITING_CUT")
      [] name = "CUT_DECK" /\ h.phase = "AWAITING_CUT" -> Begins(h, "AWAITING_DISTRIBUTION")
      [] name = "START_DISTRIBUTION" /\ h.phase = "AWAITING_DISTRIBUTION" ->
           {Turned([h EXCEPT !.phase = "HAND_REVIEW", !.hand = Cards], "nobody")}
      [] name = "ACCEPT_HAND" /\ h.phase = "HAND_REVIEW" -> Begins(h, "BIDDING")
      [] name \in {"CLAIM_REDEAL", "NEXT_DEAL"} /\ h.deal < MaxDeals
         /\ h.phase = (IF name = "NEXT_DEAL" THEN "DEAL_COMPLETE" ELSE "HAND_REVIEW") -> Begins(NewDeal(h), "AWAITING_SHUFFLE")
      [] name = "PLACE_BID" /\ h.phase = "BIDDING" ->
           Goes(h, Begins(h, "PLAYING")) \cup IF h.turn = "me" THEN Begins(h, "PLAYING") ELSE {}
      [] name = "PLAY_CARD" /\ h.phase = "PLAYING" -> Played(h, card)
      [] OTHER -> {}
Names == {"SHUFFLE_DECK", "CUT_DECK", "START_DISTRIBUTION", "ACCEPT_HAND", "CLAIM_REDEAL", "PLACE_BID", "PLAY_CARD",
          "NEXT_DEAL"}
OtherNames == {name \in Names : host.turn # "me" \/ name \in {"CLAIM_REDEAL", "ACCEPT_HAND", "NEXT_DEAL"}}

\* ---- What the screen derives from the snapshot
CommandBusy == command # [name |-> "none"]
MyTurn(s) == s.turn = "me"
HandAvailable(s) == s.hand # {} /\ s.phase # "DEAL_COMPLETE"
TrickKey(s) == <<s.deal, s.trick>>
\* The trick that was won stays until it has been gathered, or the next one is led.
Reveal(s, t) == s.trick > 0 /\ t.hidden # TrickKey(s) /\ ~s.plays
CanReview(s) == s.phase = "HAND_REVIEW"
Prompt(s) ==
    IF HandAvailable(s) /\ (MyTurn(s) \/ CanReview(s)) THEN <<s.deal, s.phase, MyTurn(s), s.trick>> ELSE NoPrompt
TurnInput(s, t, busy) == IF Reveal(s, t) \/ busy THEN NoPrompt ELSE Prompt(s)
Revealed == faces.deal = seen.deal /\ seen.hand # {} /\ seen.hand \subseteq faces.cards

\* roundGuidance: step and owner of what is to be done.
Guidance(s) ==
    [step |-> CASE s.phase = "AWAITING_CUT" -> 1 [] s.phase \in {"AWAITING_DISTRIBUTION", "HAND_REVIEW"} -> 2
                [] s.phase = "BIDDING" -> 3 [] s.phase = "PLAYING" -> 4 [] s.phase = "DEAL_COMPLETE" -> 5 [] OTHER -> 0,
     mine |-> MyTurn(s) /\ s.phase \in Preparing \cup {"BIDDING", "PLAYING"}]

\* ---- updateHandDrawer
EmptyDrawer(deal) == [open |-> FALSE, entered |-> NoPrompt, deal |-> deal, pending |-> NoPlay, closed |-> FALSE]
\* Mutant of Resolve: a card that was rejected is waited for.
ResolvePlayed(d, s, busy, error) ==
    IF d.pending # NoPlay /\ s.revision > d.pending.revision /\ d.pending.card \notin s.hand
    THEN [d EXCEPT !.open = FALSE, !.pending = NoPlay, !.closed = FALSE] ELSE d
Resolve(d, s, busy, error) ==
    IF d.pending = NoPlay THEN d
    ELSE IF s.revision > d.pending.revision /\ d.pending.card \notin s.hand
         THEN [d EXCEPT !.open = FALSE, !.pending = NoPlay, !.closed = FALSE]
    ELSE IF ~busy /\ error THEN [d EXCEPT !.open = TRUE, !.pending = NoPlay]
    ELSE d
PromptEntered(d, turn) ==
    IF turn # NoPrompt /\ turn # d.entered /\ d.pending = NoPlay
    THEN [d EXCEPT !.open = TRUE, !.entered = turn, !.closed = FALSE] ELSE d
UpdateHandDrawer(d, s, t, busy, error) ==
    PromptEntered(Resolve(IF d.deal = s.deal THEN d ELSE EmptyDrawer(s.deal), s, busy, error), TurnInput(s, t, busy))

\* PlayerHand: a choice lasts as long as the turn it was made in, and is dropped with it.
ChoiceKey(s) == <<s.deal, s.phase, s.turn, s.trick>>
CanPlay(s, t, busy) == ~Reveal(s, t) /\ ~busy /\ MyTurn(s) /\ s.phase = "PLAYING"
Unchosen(f) == [f EXCEPT !.chosen = "none"]
\* The hand is on the screen while there is one; without it nothing of PlayerHand is kept.
Faces(f, s, t, busy) ==
    LET here == IF HandAvailable(s) THEN f
                ELSE [deal |-> s.deal, cards |-> {}, chosen |-> "none", hidden |-> FALSE]
        kept == IF here.deal = s.deal THEN here
                ELSE [here EXCEPT !.deal = s.deal, !.cards = {}, !.hidden = FALSE]
    IN IF <<ChoiceKey(s), CanPlay(s, t, busy)>> = <<ChoiceKey(seen), CanPlay(seen, trickShown, CommandBusy)>> /\ CanPlay(s, t, busy)
       THEN kept ELSE Unchosen(kept)

\* Everything an update of the screen runs.
ShowsMatch(s, t, request, error) ==
    LET busy == request # [name |-> "none"] IN
    /\ seen' = s /\ trickShown' = t /\ command' = request
    /\ drawer' = UpdateHandDrawer(drawer, s, t, busy, error)
    /\ faces' = Faces(faces, s, t, busy)

\* ---- Time and snapshots
\* 1.5 and 2.2 seconds after a trick was won.
CollectTrick ==
    /\ Reveal(seen, trickShown) /\ trickShown.collecting # TrickKey(seen)
    /\ ShowsMatch(seen, [trickShown EXCEPT !.collecting = TrickKey(seen)], command, FALSE)
    /\ UNCHANGED host
HideTrick ==
    /\ trickShown.collecting = TrickKey(seen) /\ trickShown.hidden # TrickKey(seen)
    /\ ShowsMatch(seen, [trickShown EXCEPT !.hidden = TrickKey(seen)], command, FALSE)
    /\ UNCHANGED host
MatchRead ==
    /\ ~CommandBusy /\ seen # host
    /\ ShowsMatch(host, trickShown, command, FALSE)
    /\ UNCHANGED host
OtherMoves ==
    /\ \E name \in OtherNames : host' \in Legal(host, name, "none")
    /\ UNCHANGED <<seen, drawer, faces, trickShown, command>>

\* ---- What the screen offers; the summary replaces the table once the last trick is gone.
Summary == seen.phase = "DEAL_COMPLETE" /\ ~Reveal(seen, trickShown)
Chosen == IF CanPlay(seen, trickShown, CommandBusy) /\ Revealed /\ ~faces.hidden THEN faces.chosen ELSE "none"
Offered ==
    IF CommandBusy THEN {}
    ELSE IF Summary THEN {"NEXT_DEAL"}
    ELSE (IF MyTurn(seen) /\ seen.phase = "AWAITING_SHUFFLE" THEN {"SHUFFLE_DECK"} ELSE {})
         \cup (IF MyTurn(seen) /\ seen.phase = "AWAITING_CUT" THEN {"CUT_DECK"} ELSE {})
         \cup (IF MyTurn(seen) /\ seen.phase = "AWAITING_DISTRIBUTION" THEN {"START_DISTRIBUTION"} ELSE {})
         \cup (IF ~drawer.open \/ ~HandAvailable(seen) THEN {}
               ELSE (IF CanReview(seen) THEN {"CLAIM_REDEAL"} \cup (IF Revealed THEN {"ACCEPT_HAND"} ELSE {}) ELSE {})
                    \cup (IF seen.phase = "BIDDING" /\ MyTurn(seen) /\ Revealed THEN {"PLACE_BID"} ELSE {})
                    \cup (IF Chosen # "none" THEN {"PLAY_CARD"} ELSE {}))

\* act: one command at a time; a card that is played is remembered until it is gone.
SendCommand(name) ==
    /\ name \in Offered
    /\ LET card == IF name = "PLAY_CARD" THEN Chosen ELSE "none" IN
       /\ command' = [name |-> name, card |-> card, phase |-> "sent"]
       /\ drawer' = IF name = "PLAY_CARD" THEN [drawer EXCEPT !.pending = [card |-> card, revision |-> seen.revision]] ELSE drawer
    /\ faces' = Unchosen(faces)
    /\ UNCHANGED <<host, seen, trickShown>>
CommandCarried ==
    /\ CommandBusy /\ command.phase = "sent" /\ (host.turn = "me" \/ command.name \in {"CLAIM_REDEAL", "ACCEPT_HAND", "NEXT_DEAL"})
    /\ command.card \in host.hand \cup {"none"}
    /\ host' \in Legal(host, command.name, command.card)
    /\ command' = [command EXCEPT !.phase = "done"]
    /\ UNCHANGED <<seen, drawer, faces, trickShown>>
\* The answer, however often it was asked for, carries the match as it is then.
Accepted ==
    /\ CommandBusy /\ command.phase = "done"
    /\ ShowsMatch(host, trickShown, [name |-> "none"], FALSE)
    /\ UNCHANGED host
\* Rejected: an error is shown, and the earlier snapshot stands.
CommandRejected ==
    /\ CommandBusy /\ command.phase = "sent"
    /\ ShowsMatch(seen, trickShown, [name |-> "none"], TRUE)
    /\ UNCHANGED host

\* ---- The hand
ToggleHand ==
    /\ HandAvailable(seen)
    /\ drawer' = [drawer EXCEPT !.open = ~@, !.closed = drawer.open]
    /\ UNCHANGED <<host, seen, faces, trickShown, command>>
Turning(f) ==
    /\ HandAvailable(seen) /\ drawer.open /\ ~Summary
    /\ faces' = f
    /\ UNCHANGED <<host, seen, drawer, trickShown, command>>
RevealNext ==
    /\ ~Revealed /\ seen.hand # {}
    /\ Turning([faces EXCEPT !.cards = @ \cup {CHOOSE card \in seen.hand \ @ : TRUE}])
RevealAll == ~Revealed /\ Turning([faces EXCEPT !.cards = seen.hand])
HideCards == Revealed /\ ~faces.hidden /\ Turning(Unchosen([faces EXCEPT !.hidden = TRUE]))
ShowCards == Revealed /\ faces.hidden /\ Turning(Unchosen([faces EXCEPT !.hidden = FALSE]))
SelectCard(card) ==
    /\ CanPlay(seen, trickShown, CommandBusy) /\ Revealed /\ ~faces.hidden /\ card \in seen.hand /\ faces.chosen # card
    /\ Turning([faces EXCEPT !.chosen = card])
\* Also by another view of the hand.
CancelSelection == Chosen # "none" /\ Turning(Unchosen(faces))
\* Collapsing the table and opening it again loses all of this but the match.
Reopen ==
    /\ drawer # EmptyDrawer(0)
    /\ drawer' = UpdateHandDrawer(EmptyDrawer(0), seen, [hidden |-> <<0, 0>>, collecting |-> <<0, 0>>], CommandBusy, FALSE)
    /\ faces' = [deal |-> seen.deal, cards |-> {}, chosen |-> "none", hidden |-> FALSE]
    /\ trickShown' = [hidden |-> <<0, 0>>, collecting |-> <<0, 0>>]
    /\ UNCHANGED <<host, seen, command>>

CallBreakInit ==
    /\ host \in {[deal |-> 1, phase |-> "AWAITING_SHUFFLE", turn |-> t, trick |-> 0, plays |-> FALSE,
              acted |-> FALSE, hand |-> {}, revision |-> 1] : t \in Turns}
    /\ seen = host
    /\ drawer = EmptyDrawer(0)
    /\ faces = [deal |-> 0, cards |-> {}, chosen |-> "none", hidden |-> FALSE]
    /\ trickShown = [hidden |-> <<0, 0>>, collecting |-> <<0, 0>>]
    /\ command = [name |-> "none"]
CallBreakNext ==
    \/ CollectTrick \/ HideTrick \/ MatchRead \/ OtherMoves \/ CommandCarried \/ Accepted \/ CommandRejected
    \/ ToggleHand \/ RevealNext \/ RevealAll \/ HideCards \/ ShowCards \/ CancelSelection \/ Reopen
    \/ \E name \in Names : SendCommand(name)
    \/ \E card \in Cards : SelectCard(card)
CallBreakSpec == CallBreakInit /\ [][CallBreakNext]_callBreakVars

-------------------------------------------------------------------------------
\* Whoever has something to do with the hand has it open, unless it was closed by hand in
\* that very turn; and a card is waited for only while its command is unresolved.
HandOpensForTurn ==
    /\ TurnInput(seen, trickShown, CommandBusy) # NoPrompt /\ drawer.deal = seen.deal =>
         drawer.pending = NoPlay /\ drawer.entered = Prompt(seen) /\ (drawer.open \/ drawer.closed)
    /\ drawer.pending # NoPlay => CommandBusy

===============================================================================
