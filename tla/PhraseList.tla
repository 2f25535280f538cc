------------------------------ MODULE PhraseList ------------------------------
(***************************************************************************)
(* The player's own phrases (client/src/multiplayer/usePlayerPhrases.ts,   *)
(* edited in PlayerPhrases.tsx and PokeComposer.tsx): a list refreshed     *)
(* every two seconds and changed by the answers of requests, which may     *)
(* overtake one another.  `kept' is the server's list, which other windows *)
(* of the player change as well.  A phrase is [id, text].  `generation' of *)
(* the code is compared for equality only: a refresh is `valid' while it   *)
(* has not moved on.                                                       *)
(***************************************************************************)
EXTENDS Naturals, FiniteSets

CONSTANTS
    Phrases,        \* texts
    Limit,          \* PLAYER_PHRASE_LIMIT, 25 in the code
    MaxIds          \* bound of the model: phrases ever saved

ASSUME PhraseAssumption == Limit \in Nat \ {0} /\ MaxIds \in Nat

VARIABLES
    kept,           \* the server: rows, and the next identity
    shown,          \* phrases
    fetch,          \* the refresh under way
    changes,        \* requests under way
    told            \* what the player was told of: phrases saved or changed, and removed
phraseVars == <<kept, shown, fetch, changes, told>>

Rows(text) == {p \in kept.rows : p.text = text}
ById(rows, id) == {p \in rows : p.id = id}
Idle == [phase |-> "idle"]

\* refresh remembers the generation in which it was started.
Fetch == /\ fetch = Idle
         /\ fetch' = [phase |-> "sent", valid |-> TRUE]
         /\ UNCHANGED <<kept, shown, changes, told>>
Listed == /\ fetch.phase = "sent"
          /\ fetch' = [phase |-> "told", valid |-> fetch.valid, rows |-> kept.rows]
          /\ UNCHANGED <<kept, shown, changes, told>>
Fetched == /\ fetch.phase = "told"
           /\ shown' = IF fetch.valid THEN fetch.rows ELSE shown
           /\ fetch' = Idle
           /\ UNCHANGED <<kept, changes, told>>
FetchFails == fetch # Idle /\ fetch' = Idle /\ UNCHANGED <<kept, shown, changes, told>>

NextGeneration == fetch' = IF fetch = Idle THEN Idle ELSE [fetch EXCEPT !.valid = FALSE]

\* save, remove, update: the generation moves on before the request and after its answer.
\* Each form sends one at a time; a form that was closed and opened again sends another.
Begin(change) ==
    /\ Cardinality(changes) < 2 /\ change \notin changes
    /\ changes' = changes \cup {change}
    /\ NextGeneration
    /\ UNCHANGED <<kept, shown, told>>
Change(kind, id, text) == [kind |-> kind, id |-> id, text |-> text, phase |-> "sent"]
SavePhrase(text) ==
    /\ Cardinality(shown) < Limit /\ text \notin {p.text : p \in shown}
    /\ Begin(Change("save", 0, text))
RemovePhrase(p) == p \in shown /\ Begin(Change("remove", p.id, p.text))
UpdatePhrase(p, text) == p \in shown /\ Begin(Change("update", p.id, text))

Outcome(c, phase, id) == changes' = (changes \ {c}) \cup {[c EXCEPT !.phase = phase, !.id = id]}
Refuse(c) == Outcome(c, "refused", c.id) /\ UNCHANGED kept

\* The server: a text that is there already is answered with its row; the list is limited.
Carry(c) ==
    /\ c.phase = "sent"
    /\ CASE c.kind = "save" ->
              IF Rows(c.text) # {} THEN Outcome(c, "ok", (CHOOSE p \in Rows(c.text) : TRUE).id) /\ UNCHANGED kept
              ELSE IF Cardinality(kept.rows) >= Limit \/ kept.next > MaxIds THEN Refuse(c)
              ELSE Outcome(c, "ok", kept.next) /\
                   kept' = [rows |-> kept.rows \cup {[id |-> kept.next, text |-> c.text]}, next |-> kept.next + 1]
         [] c.kind = "remove" ->
              IF ById(kept.rows, c.id) = {} THEN Refuse(c)
              ELSE Outcome(c, "ok", c.id) /\ kept' = [kept EXCEPT !.rows = @ \ ById(@, c.id)]
         [] c.kind = "update" ->
              IF ById(kept.rows, c.id) = {} \/ Rows(c.text) \ ById(kept.rows, c.id) # {} THEN Refuse(c)
              ELSE Outcome(c, "ok", c.id) /\
                   kept' = [kept EXCEPT !.rows = (@ \ ById(@, c.id)) \cup {[id |-> c.id, text |-> c.text]}]
    /\ UNCHANGED <<shown, fetch, told>>

\* What an answer makes of the list.
Applied(list, c) ==
    CASE c.kind = "save" -> IF ById(list, c.id) # {} THEN list ELSE list \cup {[id |-> c.id, text |-> c.text]}
      [] c.kind = "remove" -> list \ ById(list, c.id)
      [] c.kind = "update" -> {IF p.id = c.id THEN [id |-> c.id, text |-> c.text] ELSE p : p \in list}
\* Mutant of Confirmed: a refresh that began before the answer is still taken.
ConfirmedQuietly(c) ==
    /\ c.phase = "ok"
    /\ shown' = Applied(shown, c)
    /\ changes' = changes \ {c}
    /\ told' = IF c.kind # "remove" THEN [told EXCEPT !.saved = @ \cup {c.id}]
               ELSE IF \E other \in changes \ {c} : other.id = c.id THEN told
               ELSE [told EXCEPT !.gone = @ \cup {c.id}]
    /\ UNCHANGED <<kept, fetch>>
Confirmed(c) ==
    /\ c.phase = "ok"
    /\ NextGeneration
    /\ shown' = Applied(shown, c)
    /\ changes' = changes \ {c}
    /\ told' = IF c.kind # "remove" THEN [told EXCEPT !.saved = @ \cup {c.id}]
               ELSE IF \E other \in changes \ {c} : other.id = c.id THEN told
               ELSE [told EXCEPT !.gone = @ \cup {c.id}]
    /\ UNCHANGED kept
\* Refused, or no answer: the list stays, and the generation too.
Rejected(c) == changes' = changes \ {c} /\ UNCHANGED <<kept, shown, fetch, told>>

\* Another window of the player.
OtherWindow ==
    /\ \/ \E p \in kept.rows : kept' = [kept EXCEPT !.rows = @ \ {p}]
       \/ /\ kept.next <= MaxIds /\ Cardinality(kept.rows) < Limit
          /\ \E text \in Phrases : Rows(text) = {} /\
               kept' = [rows |-> kept.rows \cup {[id |-> kept.next, text |-> text]}, next |-> kept.next + 1]
    /\ UNCHANGED <<shown, fetch, changes, told>>

PhraseInit ==
    /\ kept = [rows |-> {}, next |-> 1] /\ shown = {} /\ fetch = Idle /\ changes = {}
    /\ told = [saved |-> {}, gone |-> {}]
PhraseNext ==
    \/ Fetch \/ Listed \/ Fetched \/ FetchFails \/ OtherWindow
    \/ \E text \in Phrases : SavePhrase(text) \/ \E p \in shown : UpdatePhrase(p, text)
    \/ \E p \in shown : RemovePhrase(p)
    \/ \E c \in changes : Carry(c) \/ Confirmed(c) \/ Rejected(c)
PhraseSpec == PhraseInit /\ [][PhraseNext]_phraseVars

\* What the player was told is not undone by an older list: a phrase that was removed, with
\* no other change to it under way, is not shown again, and one that was saved is shown as long as the server keeps it.
PhrasesStay ==
    /\ \A p \in shown : p.id \notin told.gone
    /\ \A id \in told.saved : ById(kept.rows, id) # {} => ById(shown, id) # {}
===============================================================================
