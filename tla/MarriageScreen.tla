---------------------------- MODULE MarriageScreen ----------------------------
(***************************************************************************)
(* The table of a Marriage match as one player sees it                     *)
(* (client/src/screens/MarriageTable.tsx with marriageWorkspace.ts,        *)
(* MarriageMaalPanel.tsx, MarriageWinPanel.tsx, MarriageTunnelaPanel.tsx,  *)
(* MarriageCardArea.tsx and MarriageAnnouncements.tsx): the sheet of the   *)
(* hand, the card chosen for discarding, the groups that a panel computes  *)
(* in a timeout for the hand it was given, the moves that fly over the     *)
(* table one after the other, and the announcements that queue up.         *)
(* `play' is the match as the client meets it; snapshots may skip moves.   *)
(***************************************************************************)
EXTENDS Naturals, FiniteSetsExt, SequencesExt

CONSTANTS
    MarriageCards,  \* physical cards
    Dealt,          \* the dealt hand, 21 cards in the code
    Tunnelas,       \* tunnelas in the dealt hand
    Group,          \* cards shown for the Maal, and to finish: 9 or 14, and 21, in the code
    Otherwise,      \* bound of the model: commands the player gives from another window
    MaxMoves        \* bound of the model: cards drawn and discarded

ASSUME MarriageScreenAssumption ==
    IsFiniteSet(MarriageCards) /\ Dealt \subseteq MarriageCards /\ {Group, MaxMoves} \subseteq Nat

VARIABLES play, sight, sheet, meldPanel, flying, news, move
marriageVars == <<play, sight, sheet, meldPanel, flying, news, move>>

NoMove == [name |-> "none"]
Moving == move # NoMove
Me == "me"

-------------------------------------------------------------------------------
(* The match *)

FreeCards(r) == r.hand \ r.committed
Going(r) == r.status = "playing"
TurnTo(r, turn, phase) == [r EXCEPT !.turn = turn, !.phase = phase]
Announce(r, kind, who) == [r EXCEPT !.said = @ \cup {<<kind, who>>}]
Finished(r, who) == [Announce(r, "win", who) EXCEPT !.status = "finished"]
Counted(r) == [r EXCEPT !.moves = @ + 1]

\* What a command, or another player, makes of the match.
Outcomes(r, name, who, cards) ==
    LET own == who = Me
        other == IF own THEN "other" ELSE Me
        next == IF r.folded THEN "other" ELSE other
        acts == Going(r) /\ r.turn = who
    IN CASE name = "DECLARE_TUNNELAS" /\ Going(r) /\ who \in r.declaring ->
              LET declared == [(IF cards = {} THEN r ELSE Announce(r, "tunnela", who)) EXCEPT !.declaring = @ \ {who}]
              IN IF declared.declaring = {} THEN {TurnTo(declared, t, "draw") : t \in {Me, "other"}} ELSE {declared}
         [] name = "DRAW_CARD" /\ acts /\ r.phase = "draw" /\ r.moves < MaxMoves ->
              IF own THEN {[Counted(TurnTo(r, Me, "discard")) EXCEPT !.hand = @ \cup {card}] : card \in MarriageCards \ r.hand}
              ELSE {Counted(TurnTo(r, "other", "discard"))}
         [] name = "SHOW" /\ acts /\ r.phase = "discard" /\ <<"shown", who>> \notin r.said /\ (own => cards \subseteq FreeCards(r)) ->
              {Announce([r EXCEPT !.committed = IF own THEN cards ELSE @], "shown", who)}
         [] name = "DISCARD_CARD" /\ acts /\ r.phase = "discard" /\ (own => cards \subseteq FreeCards(r)) ->
              {Counted([TurnTo(r, next, "draw") EXCEPT !.hand = IF own THEN @ \ cards ELSE @])}
         [] name = "FINISH" /\ acts /\ r.phase = "discard" /\ <<"shown", who>> \in r.said /\ (own => cards \subseteq r.hand) ->
              {Finished(r, who)}
         [] name = "FOLD" /\ Going(r) /\ r.declaring = {} /\ ~(own /\ r.folded) ->
              IF own THEN {[(IF r.turn = Me THEN TurnTo(r, "other", "draw") ELSE r) EXCEPT !.folded = TRUE], Finished(r, "other")} ELSE {Finished(r, Me)}
         [] OTHER -> {}
Commands == {"DECLARE_TUNNELAS", "DRAW_CARD", "SHOW", "DISCARD_CARD", "FINISH", "FOLD"}

\* The others, this player's other windows, and the end of the table.
Around ==
    /\ \/ \E name \in Commands : play' \in Outcomes(play, name, "other", {})
       \/ \E name \in Otherwise, card \in play.hand : play' \in Outcomes(play, name, Me, {card})
       \/ Going(play) /\ play' = [play EXCEPT !.status = "ended"]
    /\ UNCHANGED <<sight, sheet, meldPanel, flying, news, move>>

-------------------------------------------------------------------------------
(* What the screen derives from a snapshot *)

Decision(r) ==
    IF Going(r) /\ r.declaring # {} THEN IF Me \in r.declaring THEN "DECLARE_TUNNELAS" ELSE "DECLARATION_WAIT"
    ELSE IF ~Going(r) \/ r.turn # Me \/ r.folded THEN "WAITING"
    ELSE IF r.phase = "draw" THEN "DRAW_REQUIRED" ELSE "DISCARD_REQUIRED"
HandSnap(decision) ==
    IF decision \in {"DECLARE_TUNNELAS", "DECLARATION_WAIT", "DISCARD_REQUIRED"} THEN "expanded" ELSE "collapsed"
CanAct == ~sight.folded /\ ~Moving /\ ~sheet.hidden /\ Going(sight)
CanDiscard == CanAct /\ Decision(sight) = "DISCARD_REQUIRED"
Previewing == sheet.preview \/ sheet.finish

\* ---- The panel for the Maal, and after it the one for finishing
SeenMaal(r) == <<"shown", Me>> \in r.said
Panel(r) == IF r.declaring # {} \/ r.folded \/ ~Going(r) THEN "none" ELSE IF SeenMaal(r) THEN "win" ELSE "maal"
PanelKey(r) == <<Panel(r), r.hand, r.committed>>
PanelCards(r) == IF SeenMaal(r) THEN r.hand ELSE FreeCards(r)
GroupChoices(r) == SetToSeq(kSubset(Group, PanelCards(r)))
NoPanel == [key |-> <<>>, choices |-> <<>>, page |-> 1]
Checking == meldPanel.key # PanelKey(sight)
Options == IF Checking THEN <<>> ELSE meldPanel.choices
Choice == IF Options = <<>> THEN {} ELSE Options[meldPanel.page]
CanPreview == Options # <<>> /\ ~Moving /\ ~sheet.hidden
CanShow == Choice # {} /\ CanAct /\ sight.turn = Me /\ sight.phase = "discard" /\ Previewing

\* ---- The effects of a snapshot, in the order of the code.
SheetEffects(h, r, failed) ==
    LET kept == IF <<r.hand, r.committed>> = <<sight.hand, sight.committed>> THEN h
                ELSE [h EXCEPT !.selected = @ \cap FreeCards(r)]
        shown == IF SeenMaal(r) /\ ~SeenMaal(sight) THEN [kept EXCEPT !.preview = FALSE] ELSE kept
        folded == [shown EXCEPT !.selected = IF r.folded THEN {} ELSE @, !.preview = @ /\ ~r.folded, !.finish = @ /\ ~r.folded]
        decided == IF Decision(r) = Decision(sight) THEN folded
                   ELSE [folded EXCEPT !.snap = HandSnap(Decision(r)), !.closed = FALSE, !.selected = {}]
        done == [decided EXCEPT !.finish = @ /\ Going(r), !.ticked = IF Decision(r) = "DECLARE_TUNNELAS" THEN @ ELSE <<>>]
    IN IF failed /\ done.selected # {} /\ Decision(r) = "DISCARD_REQUIRED"
       THEN [done EXCEPT !.snap = "expanded", !.closed = FALSE] ELSE done
FlightEffects(f, r) == [f EXCEPT !.cursor = r.moves, !.queue = @ \o [i \in 1 .. (r.moves - f.cursor) |-> f.cursor + i]]
\* An announcement is offered once; a win takes the place of all others.
NewsEffects(n, r) ==
    LET fresh == r.said \ n.seen
        wins == {e \in fresh : e[1] = "win"}
    IN [n EXCEPT !.seen = @ \cup r.said,
                 !.queue = IF wins # {} THEN SetToSeq(wins) ELSE @ \o SetToSeq(fresh)]
Renders(r, failed) ==
    /\ sight' = r
    /\ sheet' = SheetEffects(sheet, r, failed)
    /\ meldPanel' = IF Panel(r) = Panel(sight) THEN meldPanel ELSE NoPanel
    /\ flying' = FlightEffects(flying, r)
    /\ news' = NewsEffects(news, r)

RoundRead == ~Moving /\ sight # play /\ Renders(play, FALSE) /\ UNCHANGED <<play, move>>
\* The timeout of the panel's effect.
Computed ==
    /\ Panel(sight) # "none" /\ ~sheet.hidden /\ Checking
    /\ meldPanel' = [key |-> PanelKey(sight), choices |-> GroupChoices(sight), page |-> 1]
    /\ UNCHANGED <<play, sight, sheet, flying, news, move>>

-------------------------------------------------------------------------------
(* The player *)

Screen(h) == sheet' = h /\ UNCHANGED <<play, sight, meldPanel, flying, news, move>>
SlideSheet == Going(sight) /\ Screen([sheet EXCEPT !.snap = IF @ = "expanded" THEN "collapsed" ELSE "expanded",
                                                   !.closed = sheet.snap = "expanded" /\ HandSnap(Decision(sight)) = "expanded"])
Hide == Going(sight) /\ Screen([sheet EXCEPT !.hidden = ~@, !.selected = {}, !.preview = FALSE, !.finish = FALSE])
SelectForDiscard(card) ==
    /\ card \in FreeCards(sight) /\ Going(sight) /\ ~Moving /\ ~sheet.hidden /\ ~Previewing /\ Decision(sight) # "DECLARE_TUNNELAS"
    /\ Screen([sheet EXCEPT !.selected = IF @ = {card} THEN {} ELSE {card}])
OpenPreview ==
    /\ CanPreview /\ ~Previewing /\ Panel(sight) # "none"
    /\ Screen([sheet EXCEPT !.preview = @ \/ Panel(sight) = "maal", !.finish = @ \/ Panel(sight) = "win"])
ClosePreview == Previewing /\ Screen([sheet EXCEPT !.preview = FALSE, !.finish = FALSE])
TurnPage(page) ==
    /\ Previewing /\ ~Moving /\ page \in {meldPanel.page - 1, meldPanel.page + 1} \cap DOMAIN Options
    /\ meldPanel' = [meldPanel EXCEPT !.page = page]
    /\ UNCHANGED <<play, sight, sheet, flying, news, move>>
\* The tunnelas of the dealt hand: all of them are ticked at first.
Detect ==
    /\ Decision(sight) = "DECLARE_TUNNELAS" /\ Tunnelas # {} /\ ~Moving /\ ~sheet.hidden /\ sheet.ticked = <<>>
    /\ Screen([sheet EXCEPT !.ticked = <<Tunnelas>>])
Ticking == sheet.ticked # <<>> /\ ~Moving /\ ~sheet.hidden
Tick(t) == Ticking /\ Screen([sheet EXCEPT !.ticked[1] = IF t \in @ THEN @ \ {t} ELSE @ \cup {t}])
CloseTunnelas == Ticking /\ Screen([sheet EXCEPT !.ticked = <<>>])

\* ---- Commands, one at a time
Issues(name, cards) ==
    /\ ~Moving /\ move' = [name |-> name, cards |-> cards, phase |-> "sent"]
    /\ UNCHANGED <<play, sight, sheet, meldPanel, flying, news>>
Command ==
    \/ Decision(sight) = "DECLARE_TUNNELAS" /\ ~sheet.hidden /\ \E chosen \in {{}} \cup ToSet(sheet.ticked) : Issues("DECLARE_TUNNELAS", chosen)
    \/ Decision(sight) = "DRAW_REQUIRED" /\ Issues("DRAW_CARD", {})
    \/ CanDiscard /\ sheet.selected # {} /\ ~Previewing /\ Issues("DISCARD_CARD", sheet.selected)
    \/ CanShow /\ Issues(IF SeenMaal(sight) THEN "FINISH" ELSE "SHOW", Choice)
    \/ Going(sight) /\ ~sight.folded /\ sight.declaring = {} /\ Issues("FOLD", {})    \* once confirmed
MoveMade ==
    /\ Moving /\ move.phase = "sent" /\ play' \in Outcomes(play, move.name, Me, move.cards)
    /\ move' = [move EXCEPT !.phase = "done"]
    /\ UNCHANGED <<sight, sheet, meldPanel, flying, news>>
MoveAnswered == Moving /\ move.phase = "done" /\ move' = NoMove /\ Renders(play, FALSE) /\ UNCHANGED play
MoveRejected == Moving /\ move.phase = "sent" /\ move' = NoMove /\ Renders(sight, TRUE) /\ UNCHANGED play

\* ---- Motion and announcements
\* It has landed, or its player or pile is not on the screen.
CardLanded == flying.queue # <<>> /\ flying' = [flying EXCEPT !.queue = Tail(@)]
              /\ UNCHANGED <<play, sight, sheet, meldPanel, news, move>>
\* Closed by the player, or after six and a half seconds unless it is a win.
Dismiss == news.queue # <<>> /\ news' = [news EXCEPT !.queue = Tail(@)]
           /\ UNCHANGED <<play, sight, sheet, meldPanel, flying, move>>

\* A table that is opened again replays neither moves nor, but for the win, announcements.
MountedSheet(r) ==
    [snap |-> HandSnap(Decision(r)), closed |-> FALSE, hidden |-> FALSE, selected |-> {}, preview |-> FALSE,
     finish |-> FALSE, ticked |-> <<>>]
MountedFlight(r) == [cursor |-> r.moves, queue |-> <<>>]
MountedNews(r) == [seen |-> r.said, queue |-> SetToSeq({e \in r.said : e[1] = "win"})]
TableReopened ==
    /\ sheet' = MountedSheet(sight) /\ meldPanel' = NoPanel
    /\ flying' = MountedFlight(sight) /\ news' = MountedNews(sight)
    /\ sheet' # sheet
    /\ UNCHANGED <<play, sight, move>>

MarriageInit ==
    /\ play \in [turn : {Me}, phase : {"draw"}, declaring : {{Me, "other"}}, hand : {Dealt}, committed : {{}},
                  folded : {FALSE}, status : {"playing"}, moves : {0}, said : {{}}]
    /\ sight = play /\ move = NoMove
    /\ sheet = MountedSheet(play) /\ meldPanel = NoPanel /\ flying = MountedFlight(play) /\ news = MountedNews(play)
MarriageNext ==
    \/ Around \/ RoundRead \/ Computed \/ Command \/ MoveMade \/ MoveAnswered \/ MoveRejected \/ TableReopened
    \/ SlideSheet \/ Hide  \/ OpenPreview \/ ClosePreview \/ Detect \/ CloseTunnelas
    \/ CardLanded \/ Dismiss
    \/ \E card \in MarriageCards : SelectForDiscard(card)
    \/ \E page \in 1 .. Cardinality(MarriageCards) : TurnPage(page)
    \/ \E t \in Tunnelas : Tick(t)
MarriageSpec == MarriageInit /\ [][MarriageNext]_marriageVars

-------------------------------------------------------------------------------
\* What is offered for confirmation is what the panel worked out for the hand now on the
\* screen, and a card that is discarded is one that has been chosen and is not committed.
ShownFromHand ==
    /\ CanShow => Choice \subseteq PanelCards(sight)
    /\ sheet.selected \subseteq FreeCards(sight)

\* The sheet is open for whatever has to be decided, unless it was closed during that decision.
SheetOpensForDecision == HandSnap(Decision(sight)) = "expanded" => sheet.snap = "expanded" \/ sheet.closed

\* A move flies once and in its order; an announcement is made once.
ToldOnce ==
    /\ \A i, j \in DOMAIN flying.queue : i < j => flying.queue[i] < flying.queue[j]
    /\ IsInjective(news.queue)
    /\ ToSet(news.queue) \subseteq news.seen /\ \A i \in DOMAIN flying.queue : flying.queue[i] <= flying.cursor
===============================================================================
