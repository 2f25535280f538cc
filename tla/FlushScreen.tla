------------------------------ MODULE FlushScreen ------------------------------
(***************************************************************************)
(* The table of a Flush match as its creator sees it                       *)
(* (client/src/screens/FlushTable.tsx with FlushCards.tsx, FlushArena.tsx, *)
(* flushDecision.ts and flushTable.ts): a draft of the rules that is       *)
(* proposed, and thrown away or kept when the rules change under it; the   *)
(* start with the revision of the rules that are shown; and in a round the *)
(* private comparison, the final show and the bets that fly to the pot.    *)
(* `match' is the server as this client meets it.                          *)
(***************************************************************************)
EXTENDS Naturals, FiniteSets

CONSTANTS
    RuleSets,       \* rule sets
    OpponentCards,  \* cards to turn over in a comparison, 3 in the code
    MaxRevision,    \* bound of the model: changes of the rules, and proposals
    MaxRounds,      \* bound of the model
    MaxBets         \* bound of the model: bets of a round

ASSUME FlushScreenAssumption == RuleSets # {} /\ {OpponentCards, MaxRevision, MaxRounds, MaxBets} \subseteq Nat

VARIABLES match, view, form, round, ask
flushViewVars == <<match, view, form, round, ask>>

Stages == {"open", "locked", "playing", "show", "settled"}
NoAsk == [kind |-> "none"]
Locked(m) == m.started      \* the rules, for every round of the match
Pending(m) == m.status = "PENDING"

-------------------------------------------------------------------------------
(* The server *)

Adopt(m) == [m EXCEPT !.rules = m.proposed, !.revision = @ + 1, !.status = "ACCEPTED"]
Decline(m) == [m EXCEPT !.proposed = m.rules, !.status = "REJECTED"]
Propose(m, rules, now) ==
    LET proposed == [m EXCEPT !.proposal = @ + 1, !.proposed = rules, !.status = "PENDING"]
    IN IF now THEN Adopt(proposed) ELSE proposed
MayPropose(m) == ~m.started /\ ~Pending(m) /\ m.proposal < MaxRevision /\ m.stage \in {"open", "locked"}
MayStart(m, revision) == m.stage = "locked" /\ ~Pending(m) /\ revision = m.revision /\ m.round < MaxRounds
Started(m, byThis) == [m EXCEPT !.stage = "playing", !.started = TRUE, !.round = @ + 1, !.byThis = byThis /\ ~m.started,
                                !.bets = 0]
Plays(m) ==
    (IF m.stage = "playing" /\ m.bets < MaxBets THEN {[m EXCEPT !.bets = @ + 1]} ELSE {})
    \cup (IF m.stage = "playing" /\ m.compared < MaxBets THEN {[m EXCEPT !.compared = @ + 1]} ELSE {})
    \cup (IF m.stage = "playing" THEN {[m EXCEPT !.stage = "show"]} ELSE {})
    \cup (IF m.stage \in {"playing", "show"} THEN {[m EXCEPT !.stage = "settled"]} ELSE {})

\* Votes, other windows of the creator, and the game as others play it.
MatchElsewhere ==
    /\ \/ Pending(match) /\ match' \in {Adopt(match), Decline(match)}
       \/ MayPropose(match) /\ \E rules \in RuleSets : match' = Propose(match, rules, FALSE)
       \/ match.stage = "open" /\ match' = [match EXCEPT !.stage = "locked"]
       \/ match.stage = "settled" /\ match' = [match EXCEPT !.stage = "open"]
       \/ MayStart(match, match.revision) /\ match' = Started(match, FALSE)
       \/ match' \in Plays(match)
    /\ UNCHANGED <<view, form, round, ask>>

-------------------------------------------------------------------------------
(* The form of the rules *)

Clean(m) == [draft |-> m.rules, base |-> m.revision, dirty |-> FALSE, pressed |-> m.rules]
Stale == form.base # view.revision
Editable == ~Locked(view) /\ ask = NoAsk /\ ~Pending(view)

\* A new revision replaces a draft that was not touched, or says the same; a new proposal,
\* and its result, replace any draft.
FormEffects(f, m) ==
    LET reload == [Clean(m) EXCEPT !.pressed = f.pressed] IN
    IF <<m.proposal, m.status>> # <<view.proposal, view.status>> /\ m.proposal > 0 THEN reload
    ELSE IF m.revision # view.revision /\ (~f.dirty \/ f.draft = m.rules) THEN reload
    ELSE f

Edit(rules) ==
    /\ Editable /\ rules # form.draft
    /\ form' = [form EXCEPT !.draft = rules, !.dirty = TRUE]
    /\ UNCHANGED <<match, view, round, ask>>
ReloadRules ==
    /\ ~Locked(view) /\ ask = NoAsk /\ (form.dirty \/ Stale)
    /\ form' = [Clean(view) EXCEPT !.pressed = form.pressed]
    /\ UNCHANGED <<match, view, round, ask>>

\* ---- Requests, one at a time
Asks(kind) == ask = NoAsk /\ ask' = [kind |-> kind, rules |-> form.draft, revision |-> form.base]
ProposeDraft ==
    /\ form.dirty /\ ~Stale /\ ~Pending(view) /\ ~Locked(view)
    /\ Asks("propose")
    /\ UNCHANGED <<match, view, form, round>>
FormationDisabled == form.dirty \/ Stale \/ Pending(view)
LockTable ==
    /\ view.stage = "open" /\ ~FormationDisabled /\ Asks("lock")
    /\ UNCHANGED <<match, view, form, round>>
StartGame ==
    /\ view.stage = "locked" /\ ~FormationDisabled /\ Asks("start")
    /\ form' = [form EXCEPT !.pressed = form.draft]
    /\ UNCHANGED <<match, view, round>>

\* An action of the game, offered only once a comparison has been acknowledged.
ComparisonOpen == view.compared > round.acknowledged
ActInRound == /\ view.stage \in {"playing", "show"} /\ ~ComparisonOpen /\ Asks("act")
       /\ UNCHANGED <<match, view, form, round>>

\* ---- What is shown of a round
FinalStage(m) == IF m.stage = "show" THEN "pending" ELSE IF m.stage = "settled" THEN "result" ELSE "none"
FreshRound(m, acknowledged) ==
    [flips |-> 0, resultOpen |-> FALSE, acknowledged |-> acknowledged, finalOpen |-> FinalStage(m) # "none",
     flights |-> {}, last |-> m.bets]

\* The effects of a snapshot: a new comparison is face down, the final show opens by itself,
\* the arena of a new round starts anew, and new bets take off.
RoundEffects(r, m) ==
    [r EXCEPT !.flips = IF m.compared # view.compared THEN 0 ELSE @,
              !.resultOpen = @ /\ m.compared = view.compared,
              !.finalOpen = IF <<m.round, FinalStage(m)>> # <<view.round, FinalStage(view)>> THEN FinalStage(m) # "none" ELSE @,
              !.flights = IF m.round # view.round THEN {} ELSE @ \cup {bet \in 1 .. MaxBets : r.last < bet /\ bet <= m.bets},
              !.last = m.bets]

ShowsFlush(m) ==
    /\ view' = m
    /\ form' = FormEffects(form, m)
    /\ round' = RoundEffects(round, m)

FlushRead == ask = NoAsk /\ view # match /\ ShowsFlush(match) /\ UNCHANGED <<match, ask>>

Carried ==
    /\ ask # NoAsk /\ "done" \notin DOMAIN ask
    /\ \/ /\ ask.kind = "propose" /\ MayPropose(match) /\ ask.revision = match.revision
          /\ \E now \in BOOLEAN : match' = Propose(match, ask.rules, now)
       \/ ask.kind = "lock" /\ match.stage = "open" /\ match' = [match EXCEPT !.stage = "locked"]
       \/ ask.kind = "start" /\ MayStart(match, ask.revision) /\ match' = Started(match, TRUE)
       \/ ask.kind = "start" /\ match.stage = "playing" /\ UNCHANGED match
       \/ ask.kind = "act" /\ match' \in Plays(match)
    /\ ask' = [kind |-> ask.kind, rules |-> ask.rules, revision |-> ask.revision, done |-> TRUE]
    /\ UNCHANGED <<view, form, round>>
AskAnswered == ask # NoAsk /\ "done" \in DOMAIN ask /\ ask' = NoAsk /\ ShowsFlush(match) /\ UNCHANGED match
\* Refused, or lost: the draft stays.
AskFailed == ask # NoAsk /\ ask' = NoAsk /\ UNCHANGED <<match, view, form, round>>

FlipCard ==
    /\ ComparisonOpen /\ ~round.resultOpen /\ round.flips < OpponentCards
    /\ round' = [round EXCEPT !.flips = @ + 1]
    /\ UNCHANGED <<match, view, form, ask>>
ShowResult ==
    /\ round.flips = OpponentCards /\ ~round.resultOpen
    /\ round' = [round EXCEPT !.resultOpen = TRUE]
    /\ UNCHANGED <<match, view, form, ask>>
Acknowledge ==
    /\ ComparisonOpen
    /\ round' = [round EXCEPT !.acknowledged = view.compared, !.resultOpen = FALSE]
    /\ UNCHANGED <<match, view, form, ask>>
ToggleFinalShow ==
    /\ FinalStage(view) # "none" /\ round' = [round EXCEPT !.finalOpen = ~@]
    /\ UNCHANGED <<match, view, form, ask>>
BetLanded(bet) ==
    /\ bet \in round.flights /\ \A other \in round.flights : bet <= other
    /\ round' = [round EXCEPT !.flights = @ \ {bet}]
    /\ UNCHANGED <<match, view, form, ask>>
\* The pot that is shown lacks the bets in flight.
PotShown == view.bets - Cardinality(round.flights)

\* Collapsing the table keeps only what was acknowledged.
Collapsed ==
    /\ form' = [Clean(view) EXCEPT !.pressed = form.pressed]
    /\ round' = FreshRound(view, round.acknowledged)
    /\ <<form', round'>> # <<form, round>>
    /\ UNCHANGED <<match, view, ask>>

FlushScreenInit ==
    /\ match \in [rules : RuleSets, revision : {0}, proposal : {0}, proposed : RuleSets, status : {"none"},
                  stage : {"open"}, started : {FALSE}, byThis : {FALSE}, round : {0}, bets : {0}, compared : {0}]
    /\ match.proposed = match.rules
    /\ view = match /\ form = Clean(match) /\ round = FreshRound(match, 0) /\ ask = NoAsk
FlushScreenNext ==
    \/ MatchElsewhere \/ ReloadRules \/ ProposeDraft \/ LockTable \/ StartGame \/ ActInRound \/ FlushRead \/ Carried \/ AskAnswered \/ AskFailed
    \/ FlipCard \/ ShowResult \/ Acknowledge \/ ToggleFinalShow \/ Collapsed
    \/ \E rules \in RuleSets : Edit(rules)
    \/ \E bet \in 1 .. MaxBets : BetLanded(bet)
FlushScreenSpec == FlushScreenInit /\ [][FlushScreenNext]_flushViewVars

-------------------------------------------------------------------------------
\* A match is started with the rules that were on the screen of whoever started it, however
\* the rules were changed, proposed and voted on in the meantime.
StartedAsPressed == match.byThis => match.rules = form.pressed

\* The outcome of a comparison is told after its own cards have been turned over, and every
\* bet that flies to the pot is one that the snapshot has.
RoundShownInOrder ==
    /\ round.resultOpen /\ ComparisonOpen => round.flips = OpponentCards
    /\ round.flights \subseteq 1 .. view.bets
===============================================================================
