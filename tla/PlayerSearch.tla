----------------------------- MODULE PlayerSearch -----------------------------
(***************************************************************************)
(* The search for players to invite, as two forms of the client have it:   *)
(* the one that creates a room (client/src/screens/SharedRoomsScreen.tsx)  *)
(* and the one that creates a table                                        *)
(* (client/src/components/RoomGameControl.tsx), which also asks who may be *)
(* invited.  Typing searches the players met lately, a moment after the    *)
(* last key; a button searches the directory of all players.  The first    *)
(* search is aborted when the query changes, the second is not.            *)
(***************************************************************************)
EXTENDS Naturals

CONSTANTS
    Queries, TooShort,  \* what may be typed: queries of two characters or more, and less
    MaxTyped            \* bound of the model: changes of the query or of the form

ASSUME PlayerSearchAssumption == TooShort \notin Queries /\ MaxTyped \in Nat

VARIABLE search
NoneFound == [query |-> TooShort, from |-> "nobody"]
NotAsked == [query |-> TooShort, step |-> "none"]
Searches(s) == search' = s

\* The effect of the form and the query: what the former one had under way is aborted.
SearchEffect(s) ==
    IF s.open /\ s.query # TooShort THEN [s EXCEPT !.timer = TRUE, !.lately = NotAsked, !.typed = @ + 1]
    ELSE [s EXCEPT !.timer = FALSE, !.lately = NotAsked, !.typed = @ + 1, !.shown = NoneFound]
Types == search.typed < MaxTyped
TypeQuery(q) == Types /\ search.open /\ search.query # q /\ Searches(SearchEffect([search EXCEPT !.query = q]))
ToggleForm == Types /\ Searches(SearchEffect([search EXCEPT !.open = ~@]))

\* A quarter of a second later.
SearchLately ==
    search.timer /\ Searches([search EXCEPT !.timer = FALSE, !.lately = [query |-> search.query, step |-> "players"]])
\* The form of a table asks the server who of them may be invited.
AskEligible(which) ==
    /\ search.form = "table" /\ search[which].step = "players"
    /\ Searches([search EXCEPT ![which].step = "eligible"])
Gathered(which) == search[which].step = IF search.form = "table" THEN "eligible" ELSE "players"
LatelyFound ==
    /\ Gathered("lately")
    /\ Searches([search EXCEPT !.lately = NotAsked, !.failed = FALSE, !.shown = [query |-> search.lately.query, from |-> "lately"]])
LatelyFails == search.lately # NotAsked /\ Searches([search EXCEPT !.lately = NotAsked, !.failed = TRUE])

SearchDirectory ==
    /\ search.open /\ search.query # TooShort /\ search.directory = NotAsked
    /\ Searches([search EXCEPT !.directory = [query |-> search.query, step |-> "players"], !.failed = FALSE])
\* An error, if it has found nobody.
DirectoryFound ==
    /\ Gathered("directory")
    /\ \E none \in {search.failed, TRUE} :
         Searches([search EXCEPT !.directory = NotAsked, !.failed = none,
                                 !.shown = [query |-> search.directory.query, from |-> "directory"]])
DirectoryFails == search.directory # NotAsked /\ Searches([search EXCEPT !.directory = NotAsked, !.failed = TRUE])

SearchInit ==
    search \in [form : {"room", "table"}, open : {FALSE}, query : {TooShort}, timer : {FALSE}, lately : {NotAsked},
                directory : {NotAsked}, failed : {FALSE}, shown : {NoneFound}, typed : {0}]
SearchNext ==
    \/ ToggleForm \/ \E q \in Queries \cup {TooShort} : TypeQuery(q)
    \/ SearchLately \/ LatelyFound \/ LatelyFails \/ SearchDirectory \/ DirectoryFound \/ DirectoryFails
    \/ \E which \in {"lately", "directory"} : AskEligible(which)

-------------------------------------------------------------------------------
\* Once nothing is under way, players met lately are shown for what has been typed, and never
\* in a closed form, however fast the query changed and whichever answers came late.
FoundAsTyped ==
    LET quiet == ~search.timer /\ search.lately = NotAsked /\ search.directory = NotAsked /\ ~search.failed IN
    search.shown.from = "lately" => search.open /\ (quiet => search.shown.query = search.query)
===============================================================================
