------------------------------ MODULE ClientScreensProofs ------------------------------
(***************************************************************************)
(* What is proved of the screens of the client, for any values of their    *)
(* constants: the lobby with its lists and its search, and the tables of the *)
(* three games.  The last section puts them together with the session and the *)
(* talk, as `ClientScreens' composes the client.                           *)
(***************************************************************************)
EXTENDS ClientScreens, ClientProofs

-------------------------------------------------------------------------------
(* The search for players *)

SearchFields == {"form", "open", "query", "timer", "lately", "directory", "failed", "shown", "typed"}
\* What is under way for players met lately is for what is typed in an open form.
SearchInv ==
    /\ SearchFields \subseteq DOMAIN search /\ FoundAsTyped
    /\ search.timer => search.open
    /\ search.lately # NotAsked => search.lately.step # "none" /\ search.lately.query = search.query /\ search.open
    /\ search.directory # NotAsked => search.directory.step # "none"
    /\ {"query", "step"} \subseteq DOMAIN search.lately /\ {"query", "step"} \subseteq DOMAIN search.directory

LEMMA NotAskedFacts == NotAsked.step = "none" /\ DOMAIN NotAsked = {"query", "step"} /\ NoneFound.from = "nobody"
BY DEF NotAsked, NoneFound

LEMMA SearchInitially == SearchInit => SearchInv
<1> SUFFICES ASSUME SearchInit PROVE SearchInv
  OBVIOUS
<1>1. /\ SearchFields \subseteq DOMAIN search /\ search.timer = FALSE /\ search.lately = NotAsked /\ search.directory = NotAsked
      /\ search.shown = NoneFound
  BY DEF SearchInit, SearchFields
<1>2. QED BY <1>1, NotAskedFacts DEF SearchInv, FoundAsTyped

LEMMA TypingKeeps ==
    ASSUME SearchInv, NEW s, search' = SearchEffect(s), SearchFields \subseteq DOMAIN s,
           s.shown = search.shown, s.directory = search.directory
    PROVE  SearchInv'
<1>1. CASE s.open /\ s.query # TooShort
  <2>1. search' = [s EXCEPT !.timer = TRUE, !.lately = NotAsked, !.typed = @ + 1]
    BY <1>1 DEF SearchEffect
  <2>2. /\ SearchFields \subseteq DOMAIN search' /\ search'.timer /\ search'.open = s.open /\ search'.lately = NotAsked
        /\ search'.shown = search.shown /\ search'.directory = search.directory
    BY <2>1 DEF SearchFields
  <2>3. QED BY <1>1, <2>2, NotAskedFacts DEF SearchInv, FoundAsTyped
<1>2. CASE ~(s.open /\ s.query # TooShort)
  <2>1. search' = [s EXCEPT !.timer = FALSE, !.lately = NotAsked, !.typed = @ + 1, !.shown = NoneFound]
    BY <1>2 DEF SearchEffect
  <2>2. /\ SearchFields \subseteq DOMAIN search' /\ ~search'.timer /\ search'.lately = NotAsked /\ search'.shown = NoneFound
        /\ search'.directory = search.directory
    BY <2>1 DEF SearchFields
  <2>3. QED BY <2>2, NotAskedFacts DEF SearchInv, FoundAsTyped
<1>3. QED BY <1>1, <1>2

LEMMA SearchStep == SearchInv /\ [SearchNext]_search => SearchInv'
<1> SUFFICES ASSUME SearchInv, [SearchNext]_search PROVE SearchInv'
  OBVIOUS
<1>0. SearchFields \subseteq DOMAIN search
  BY DEF SearchInv
<1>1. CASE UNCHANGED search
  BY <1>1 DEF SearchInv, FoundAsTyped
<1>2. CASE ToggleForm \/ \E q \in Queries \cup {TooShort} : TypeQuery(q)
  <2>1. PICK s : search' = SearchEffect(s) /\ \/ \E q : s = [search EXCEPT !.query = q]
                                              \/ \E open : s = [search EXCEPT !.open = open]
    BY <1>2 DEF ToggleForm, TypeQuery, Searches
  <2>2. SearchFields \subseteq DOMAIN s /\ s.shown = search.shown /\ s.directory = search.directory
    BY <1>0, <2>1 DEF SearchFields
  <2>3. QED BY <2>1, <2>2, TypingKeeps
<1>3. CASE SearchLately
  <2>1. search.timer /\ search' = [search EXCEPT !.timer = FALSE, !.lately = [query |-> search.query, step |-> "players"]]
    BY <1>3 DEF SearchLately, Searches
  <2>2. /\ SearchFields \subseteq DOMAIN search' /\ search'.open = search.open /\ search'.query = search.query /\ ~search'.timer
        /\ search'.lately = [query |-> search.query, step |-> "players"]
        /\ search'.directory = search.directory /\ search'.shown = search.shown
    BY <1>0, <2>1 DEF SearchFields
  <2>3. /\ search'.lately.step = "players" /\ search'.lately.query = search.query
        /\ {"query", "step"} \subseteq DOMAIN search'.lately /\ search'.lately # NotAsked
    BY <2>2, NotAskedFacts
  <2>4. QED BY <2>1, <2>2, <2>3 DEF SearchInv, FoundAsTyped
<1>4. CASE LatelyFound
  <2>1. /\ search.lately.step # "none"
        /\ search' = [search EXCEPT !.lately = NotAsked, !.failed = FALSE, !.shown = [query |-> search.lately.query, from |-> "lately"]]
    BY <1>4 DEF LatelyFound, Gathered, Searches
  <2>2. /\ SearchFields \subseteq DOMAIN search' /\ search'.open = search.open /\ search'.query = search.query
        /\ search'.timer = search.timer /\ search'.lately = NotAsked /\ search'.directory = search.directory
        /\ search'.shown.query = search.lately.query
    BY <1>0, <2>1 DEF SearchFields
  <2>3. search.lately # NotAsked
    BY <2>1, NotAskedFacts
  <2>4. QED BY <2>2, <2>3, NotAskedFacts DEF SearchInv, FoundAsTyped
<1>5. CASE LatelyFails \/ DirectoryFails
  <2>1. PICK lately, directory :
          /\ search' = [search EXCEPT !.lately = lately, !.directory = directory, !.failed = TRUE]
          /\ lately \in {search.lately, NotAsked} /\ directory \in {search.directory, NotAsked}
    <3>1. search.lately = search["lately"] /\ search.directory = search["directory"]
      OBVIOUS
    <3>2. CASE LatelyFails
      <4>1. search' = [search EXCEPT !.lately = NotAsked, !.directory = search.directory, !.failed = TRUE]
        BY <1>0, <3>2 DEF LatelyFails, Searches, SearchFields
      <4>2. QED BY <4>1
    <3>3. CASE DirectoryFails
      <4>1. search' = [search EXCEPT !.lately = search.lately, !.directory = NotAsked, !.failed = TRUE]
        BY <1>0, <3>3 DEF DirectoryFails, Searches, SearchFields
      <4>2. QED BY <4>1
    <3>4. QED BY <1>5, <3>2, <3>3
  <2>2. /\ SearchFields \subseteq DOMAIN search' /\ search'.open = search.open /\ search'.query = search.query
        /\ search'.timer = search.timer /\ search'.lately = lately /\ search'.directory = directory
        /\ search'.shown = search.shown /\ search'.failed
    BY <1>0, <2>1 DEF SearchFields
  <2>3. QED BY <2>1, <2>2, NotAskedFacts DEF SearchInv, FoundAsTyped
<1>6. CASE SearchDirectory
  <2>1. search' = [search EXCEPT !.directory = [query |-> search.query, step |-> "players"], !.failed = FALSE]
    BY <1>6 DEF SearchDirectory, Searches
  <2>2. /\ SearchFields \subseteq DOMAIN search' /\ search'.open = search.open /\ search'.query = search.query
        /\ search'.timer = search.timer /\ search'.lately = search.lately /\ search'.shown = search.shown
        /\ search'.directory = [query |-> search.query, step |-> "players"]
    BY <1>0, <2>1 DEF SearchFields
  <2>3. search'.directory.step = "players" /\ {"query", "step"} \subseteq DOMAIN search'.directory /\ search'.directory # NotAsked
    BY <2>2, NotAskedFacts
  <2>4. QED BY <2>2, <2>3 DEF SearchInv, FoundAsTyped
<1>7. CASE DirectoryFound
  <2>1. PICK none : search' = [search EXCEPT !.directory = NotAsked, !.failed = none,
                                             !.shown = [query |-> search.directory.query, from |-> "directory"]]
    BY <1>7 DEF DirectoryFound, Searches
  <2>2. /\ SearchFields \subseteq DOMAIN search' /\ search'.open = search.open /\ search'.query = search.query
        /\ search'.timer = search.timer /\ search'.lately = search.lately /\ search'.directory = NotAsked
        /\ search'.shown.from = "directory"
    BY <1>0, <2>1 DEF SearchFields
  <2>3. QED BY <2>2, NotAskedFacts DEF SearchInv, FoundAsTyped
<1>8. ASSUME NEW which \in {"lately", "directory"}, AskEligible(which) PROVE SearchInv'
  <2>1. search[which].step = "players" /\ search' = [search EXCEPT ![which] = [search[which] EXCEPT !.step = "eligible"]]
    BY <1>8 DEF AskEligible, Searches
  <2> DEFINE r == [search[which] EXCEPT !.step = "eligible"]
  <2>2. {"query", "step"} \subseteq DOMAIN search[which]
    BY DEF SearchInv
  <2>3. r.step = "eligible" /\ r.query = search[which].query /\ {"query", "step"} \subseteq DOMAIN r
    BY <2>2
  <2>4. search' = [search EXCEPT ![which] = r]
    BY <2>1
  <2>5. search[which] # NotAsked /\ r # NotAsked
    BY <2>1, <2>3, NotAskedFacts
  <2> HIDE DEF r
  <2>6. /\ SearchFields \subseteq DOMAIN search' /\ search'.open = search.open /\ search'.query = search.query
        /\ search'.timer = search.timer /\ search'.shown = search.shown /\ search'.failed = search.failed
        /\ search'.lately = IF which = "lately" THEN r ELSE search.lately
        /\ search'.directory = IF which = "directory" THEN r ELSE search.directory
    BY <1>0, <2>4 DEF SearchFields
  <2>7. search.lately = search["lately"] /\ search.directory = search["directory"]
    OBVIOUS
  <2>8. CASE which = "lately"
    BY <2>3, <2>5, <2>6, <2>7, <2>8 DEF SearchInv, FoundAsTyped
  <2>9. CASE which = "directory"
    BY <2>3, <2>5, <2>6, <2>7, <2>9 DEF SearchInv, FoundAsTyped
  <2>10. QED BY <2>8, <2>9
<1>9. QED BY <1>1, <1>2, <1>3, <1>4, <1>5, <1>6, <1>7, <1>8 DEF SearchNext

-------------------------------------------------------------------------------
(* Ways from the lobby to a table *)

LobbyFields == {"room", "link", "entry", "code", "outer"}
OneAtATime(waiting) == \A c, d \in waiting : c.by # "preview" /\ d.by # "preview" => c = d
\* The seat to take was asked for; a room that a link has opened has none to take.
LobbyInv ==
    /\ LobbyFields \subseteq DOMAIN lobby /\ {"how", "key", "live", "sent"} \subseteq DOMAIN control
    /\ {"count", "entries"} \subseteq DOMAIN asked /\ asked.entries \subseteq LobbyTables \X {"watch", "seat", "queue"}
    /\ control.sent \subseteq asked.entries
    /\ lobby.entry = Absent \/ lobby.entry \in asked.entries
    /\ control.how = "preview" => control.sent = {} /\ lobby.entry = Absent
    /\ OneAtATime(joins)

LEMMA LobbyInitially == LobbyInit => LobbyInv
<1> SUFFICES ASSUME LobbyInit PROVE LobbyInv
  OBVIOUS
<1>1. /\ LobbyFields \subseteq DOMAIN lobby /\ {"how", "key", "live", "sent"} \subseteq DOMAIN control
      /\ {"count", "entries"} \subseteq DOMAIN asked /\ asked.entries = {} /\ control.sent = {} /\ lobby.entry = Absent
      /\ joins = {}
  BY DEF LobbyInit, LobbyFields
<1>2. QED BY <1>1 DEF LobbyInv, OneAtATime

\* A new state of the screen.
LEMMA BecomesKeeps ==
    ASSUME LobbyInv, NEW l, NEW how, Becomes(l, how), LobbyFields \subseteq DOMAIN l,
           {"count", "entries"} \subseteq DOMAIN asked', asked'.entries \subseteq LobbyTables \X {"watch", "seat", "queue"},
           asked.entries \subseteq asked'.entries, l.entry = Absent \/ l.entry \in asked'.entries,
           l.entry = Absent \/ (how # "preview" /\ (l.entry = lobby.entry \/ l.room = Absent)),
           OneAtATime(joins')
    PROVE  LobbyInv'
<1>1. lobby' = l
  BY DEF Becomes
<1>2. CASE RoomShown(l) /\ RoomShown(lobby) /\ l.room = lobby.room
  <2>1. control' = control /\ l.room # Absent
    BY <1>2 DEF Becomes, RoomShown
  <2>2. QED BY <1>1, <2>1 DEF LobbyInv, OneAtATime
<1>3. CASE ~(RoomShown(l) /\ RoomShown(lobby) /\ l.room = lobby.room)
  <2> DEFINE entered == IF RoomShown(l) THEN how ELSE "none"
  <2>1. control' = [how |-> entered, key |-> Absent, live |-> Absent, sent |-> {}]
    BY <1>3 DEF Becomes
  <2>2. entered = "preview" => l.entry = Absent
    BY DEF RoomShown
  <2> HIDE DEF entered
  <2>3. {"how", "key", "live", "sent"} \subseteq DOMAIN control' /\ control'.sent = {} /\ control'.how = entered
    BY <2>1
  <2>4. QED BY <1>1, <2>2, <2>3 DEF LobbyInv, OneAtATime
<1>4. QED BY <1>2, <1>3

LEMMA CountsFacts ==
    ASSUME LobbyInv, Counts \/ UNCHANGED asked
    PROVE  /\ {"count", "entries"} \subseteq DOMAIN asked' /\ asked'.entries = asked.entries
           /\ asked'.entries \subseteq LobbyTables \X {"watch", "seat", "queue"}
BY DEF LobbyInv, Counts

LEMMA AskedOnce ==
    ASSUME ~Operating, OneAtATime(joins), NEW c PROVE OneAtATime(joins \cup {c})
BY DEF Operating, OneAtATime

LEMMA PreviewAsked ==
    ASSUME OneAtATime(joins), NEW target PROVE OneAtATime(joins \cup {Join("preview", target)})
<1>1. Join("preview", target).by = "preview"
  BY DEF Join
<1>2. QED BY <1>1 DEF OneAtATime

LEMMA LessAsked == ASSUME OneAtATime(joins), NEW c PROVE OneAtATime(joins \ {c})
BY DEF OneAtATime

\* What the player does, or what happens to his room, outside the list of active tables.
LEMMA WaysKeep ==
    ASSUME LobbyInv,
           \/ \E r \in LobbyRooms : EnterByCard(r) \/ JoinListed(r, "card") \/ CreateFromLobby(r)
           \/ \E target \in Targets : JoinByCode(target) \/ OpenFromBell(target) \/ LinkOpened(target)
           \/ \E t \in LobbyTables : ResumeTable(t)
           \/ BackToLobby \/ RoomIsLeft \/ DismissInvitation
    PROVE  LobbyInv'
<1>0. LobbyFields \subseteq DOMAIN lobby /\ OneAtATime(joins)
  BY DEF LobbyInv
<1>1. {"count", "entries"} \subseteq DOMAIN asked' /\ asked'.entries = asked.entries
      /\ asked'.entries \subseteq LobbyTables \X {"watch", "seat", "queue"}
  <2>1. Counts \/ UNCHANGED asked
    BY DEF EnterByCard, JoinListed, CreateFromLobby, JoinByCode, OpenFromBell, LinkOpened, ResumeTable, BackToLobby,
           RoomIsLeft, DismissInvitation
  <2>2. QED BY <2>1, CountsFacts
<1>2. OneAtATime(joins')
  <2>1. UNCHANGED joins \/ (~Operating /\ \E c : joins' = joins \cup {c})
    BY DEF EnterByCard, JoinListed, CreateFromLobby, JoinByCode, OpenFromBell, LinkOpened, ResumeTable, BackToLobby,
           RoomIsLeft, DismissInvitation
  <2>2. QED BY <1>0, <2>1, AskedOnce
<1>3. ASSUME NEW l, NEW how, Becomes(l, how), how # "preview", LobbyFields \subseteq DOMAIN l, l.entry = lobby.entry
      PROVE  LobbyInv'
  <2>1. l.entry = Absent \/ l.entry \in asked'.entries
    BY <1>1, <1>3 DEF LobbyInv
  <2>2. QED BY <1>1, <1>2, <1>3, <2>1, BecomesKeeps
<1>4. CASE \E r \in LobbyRooms : CreateFromLobby(r)
  <2>1. UNCHANGED <<lobby, preview, control>>
    BY <1>4 DEF CreateFromLobby
  <2>2. QED BY <1>1, <1>2, <2>1 DEF LobbyInv
<1>5. ASSUME NEW r, NEW from, JoinListed(r, from), from # "preview" PROVE LobbyInv'
  <2> DEFINE l == [lobby EXCEPT !.link = Absent]
  <2>1. Becomes(l, from)
    BY <1>5 DEF JoinListed
  <2>2. LobbyFields \subseteq DOMAIN l /\ l.entry = lobby.entry
    BY <1>0 DEF LobbyFields
  <2> HIDE DEF l
  <2>3. QED BY <1>3, <1>5, <2>1, <2>2
<1>6. ASSUME NEW r, EnterByCard(r) PROVE LobbyInv'
  <2> DEFINE l == [lobby EXCEPT !.link = Absent, !.room = r]
  <2>1. Becomes(l, "card")
    BY <1>6 DEF EnterByCard
  <2>2. LobbyFields \subseteq DOMAIN l /\ l.entry = lobby.entry
    BY <1>0 DEF LobbyFields
  <2> HIDE DEF l
  <2>3. QED BY <1>3, <2>1, <2>2
<1>7. ASSUME NEW target, JoinByCode(target), target.table # Absent PROVE LobbyInv'
  <2> DEFINE l == [lobby EXCEPT !.code = target]
  <2>1. Becomes(l, "code")
    BY <1>7 DEF JoinByCode
  <2>2. LobbyFields \subseteq DOMAIN l /\ l.entry = lobby.entry
    BY <1>0 DEF LobbyFields
  <2> HIDE DEF l
  <2>3. QED BY <1>3, <2>1, <2>2
<1>8. ASSUME NEW target, OpenFromBell(target) PROVE LobbyInv'
  <2> DEFINE l == [lobby EXCEPT !.room = target.room, !.link = IF target.table = Absent THEN @ ELSE target.table]
  <2>1. Becomes(l, "bell")
    BY <1>8 DEF OpenFromBell
  <2>2. LobbyFields \subseteq DOMAIN l /\ l.entry = lobby.entry
    BY <1>0 DEF LobbyFields
  <2> HIDE DEF l
  <2>3. QED BY <1>3, <2>1, <2>2
<1>9. ASSUME NEW target, LinkOpened(target) PROVE LobbyInv'
  <2> DEFINE l == [lobby EXCEPT !.outer = target]
  <2>1. Becomes(l, "link")
    BY <1>9 DEF LinkOpened
  <2>2. LobbyFields \subseteq DOMAIN l /\ l.entry = lobby.entry
    BY <1>0 DEF LobbyFields
  <2> HIDE DEF l
  <2>3. QED BY <1>3, <2>1, <2>2
<1>10. ASSUME NEW t, ResumeTable(t) PROVE LobbyInv'
  <2> DEFINE l == [lobby EXCEPT !.link = t, !.room = HomeOf[t]]
  <2>1. Becomes(l, "resume")
    BY <1>10 DEF ResumeTable
  <2>2. LobbyFields \subseteq DOMAIN l /\ l.entry = lobby.entry
    BY <1>0 DEF LobbyFields
  <2> HIDE DEF l
  <2>3. QED BY <1>3, <2>1, <2>2
<1>11. ASSUME BackToLobby PROVE LobbyInv'
  <2> DEFINE l == [lobby EXCEPT !.room = Absent, !.link = Absent]
  <2>1. Becomes(l, "exit")
    BY <1>11 DEF BackToLobby
  <2>2. LobbyFields \subseteq DOMAIN l /\ l.entry = lobby.entry
    BY <1>0 DEF LobbyFields
  <2> HIDE DEF l
  <2>3. QED BY <1>3, <2>1, <2>2
<1>12. ASSUME RoomIsLeft PROVE LobbyInv'
  <2> DEFINE l == [lobby EXCEPT !.room = Absent]
  <2>1. Becomes(l, "left")
    BY <1>12 DEF RoomIsLeft
  <2>2. LobbyFields \subseteq DOMAIN l /\ l.entry = lobby.entry
    BY <1>0 DEF LobbyFields
  <2> HIDE DEF l
  <2>3. QED BY <1>3, <2>1, <2>2
<1>13. ASSUME DismissInvitation PROVE LobbyInv'
  <2> DEFINE l == Cleared(lobby)
  <2>1. Becomes(l, "link")
    BY <1>13 DEF DismissInvitation
  <2>2. LobbyFields \subseteq DOMAIN l /\ l.entry = lobby.entry
    BY <1>0 DEF LobbyFields, Cleared
  <2> HIDE DEF l
  <2>3. QED BY <1>3, <2>1, <2>2
<1>14. QED BY <1>4, <1>5, <1>6, <1>7, <1>8, <1>9, <1>10, <1>11, <1>12, <1>13 DEF JoinByCode

LEMMA ActiveKeeps ==
    ASSUME LobbyInv, NEW t \in LobbyTables, NEW action \in {"watch", "seat", "queue"}, EnterActiveTable(t, action)
    PROVE  LobbyInv'
<1> DEFINE l == [lobby EXCEPT !.entry = <<t, action>>, !.link = t]
           key == <<t, action>>
<1>1. LobbyFields \subseteq DOMAIN lobby /\ OneAtATime(joins) /\ {"count", "entries"} \subseteq DOMAIN asked
      /\ asked.entries \subseteq LobbyTables \X {"watch", "seat", "queue"}
  BY DEF LobbyInv
<1>2. /\ Becomes(l, "active") /\ ~Operating /\ lobby.room = Absent /\ joins' = joins \cup {Join("active", Target(HomeOf[t], t))}
      /\ asked' = [asked EXCEPT !.count = @ + 1, !.entries = @ \cup {key}]
  BY DEF EnterActiveTable, InLobby
<1>3. LobbyFields \subseteq DOMAIN l /\ l.entry = key /\ l.room = Absent
  BY <1>1, <1>2 DEF LobbyFields
<1>4. key \in LobbyTables \X {"watch", "seat", "queue"}
  OBVIOUS
<1> HIDE DEF l, key
<1>5. {"count", "entries"} \subseteq DOMAIN asked' /\ asked'.entries = asked.entries \cup {key}
  BY <1>1, <1>2
<1>6. asked'.entries \subseteq LobbyTables \X {"watch", "seat", "queue"} /\ asked.entries \subseteq asked'.entries
  BY <1>1, <1>4, <1>5
<1>7. OneAtATime(joins')
  BY <1>1, <1>2, AskedOnce
<1>8. QED BY <1>2, <1>3, <1>5, <1>6, <1>7, BecomesKeeps

LEMMA PreviewKeeps ==
    ASSUME LobbyInv,
           PreviewLoaded \/ PreviewFailed \/ JoinPreviewed \/ RetryPreview \/ \E c \in joins : JoinRefused(c)
    PROVE  LobbyInv'
<1>1. UNCHANGED <<lobby, control>>
  BY DEF PreviewLoaded, PreviewFailed, JoinPreviewed, RetryPreview, JoinRefused, Previewed
<1>2. {"count", "entries"} \subseteq DOMAIN asked' /\ asked'.entries = asked.entries
  <2>1. Counts \/ UNCHANGED asked
    BY DEF PreviewLoaded, PreviewFailed, JoinPreviewed, RetryPreview, JoinRefused, Previewed
  <2>2. QED BY <2>1, CountsFacts
<1>3. OneAtATime(joins')
  <2>1. \/ UNCHANGED joins \/ joins' = joins \cup {Join("preview", Invited(lobby))}
        \/ \E c \in joins : joins' = joins \ {c}
    BY DEF PreviewLoaded, PreviewFailed, JoinPreviewed, RetryPreview, JoinRefused, Previewed
  <2>2. OneAtATime(joins)
    BY DEF LobbyInv
  <2>3. QED BY <2>1, <2>2, PreviewAsked, LessAsked
<1>4. QED BY <1>1, <1>2, <1>3 DEF LobbyInv

LEMMA JoinAnsweredKeeps == ASSUME LobbyInv, NEW c \in joins, JoinAnswered(c) PROVE LobbyInv'
<1>1. LobbyFields \subseteq DOMAIN lobby /\ OneAtATime(joins)
  BY DEF LobbyInv
<1>2. joins' = joins \ {c} /\ UNCHANGED asked
  BY DEF JoinAnswered
<1>3. OneAtATime(joins') /\ {"count", "entries"} \subseteq DOMAIN asked'
      /\ asked'.entries \subseteq LobbyTables \X {"watch", "seat", "queue"} /\ asked.entries \subseteq asked'.entries
  BY <1>1, <1>2, LessAsked, CountsFacts
<1>4. CASE c.by = "preview"
  <2> DEFINE l == [Cleared(lobby) EXCEPT !.room = c.room, !.entry = Absent, !.link = c.table]
  <2>1. Becomes(l, c.by)
    BY <1>4 DEF JoinAnswered
  <2>2. LobbyFields \subseteq DOMAIN l /\ l.entry = Absent
    BY <1>1 DEF LobbyFields, Cleared
  <2> HIDE DEF l
  <2>3. QED BY <1>3, <2>1, <2>2, BecomesKeeps
<1>5. CASE c.by # "preview"
  <2> DEFINE l == [lobby EXCEPT !.room = c.room]
  <2>1. Becomes(l, c.by)
    BY <1>5 DEF JoinAnswered
  <2>2. LobbyFields \subseteq DOMAIN l /\ l.entry = lobby.entry
    BY <1>1 DEF LobbyFields
  <2>3. lobby.entry = Absent \/ lobby.entry \in asked'.entries
    BY <1>2 DEF LobbyInv
  <2> HIDE DEF l
  <2>4. QED BY <1>3, <1>5, <2>1, <2>2, <2>3, BecomesKeeps
<1>6. QED BY <1>4, <1>5

LEMMA RoomTablesKeep == ASSUME LobbyInv, OpenLinked \/ TakeRequested PROVE LobbyInv'
<1>1. {"how", "key", "live", "sent"} \subseteq DOMAIN control
  BY DEF LobbyInv
<1>2. CASE OpenLinked
  <2>1. control' = [control EXCEPT !.live = lobby.link] /\ UNCHANGED <<lobby, joins, asked>>
    BY <1>2 DEF OpenLinked
  <2>2. {"how", "key", "live", "sent"} \subseteq DOMAIN control' /\ control'.sent = control.sent /\ control'.how = control.how
    BY <1>1, <2>1
  <2>3. QED BY <2>1, <2>2 DEF LobbyInv
<1>3. CASE TakeRequested
  <2> DEFINE key == <<lobby.link, RequestedEntry>>
  <2>1. /\ control' = [control EXCEPT !.key = key, !.sent = @ \cup {key}] /\ UNCHANGED <<lobby, joins, asked>>
        /\ RequestedEntry \in {"seat", "queue"}
    BY <1>3 DEF TakeRequested
  <2>2. lobby.entry # Absent /\ lobby.entry[1] = lobby.link /\ lobby.entry[2] = RequestedEntry
    BY <2>1 DEF RequestedEntry
  <2>3. lobby.entry \in asked.entries /\ lobby.entry \in LobbyTables \X {"watch", "seat", "queue"}
    BY <2>2 DEF LobbyInv
  <2>4. key = lobby.entry
    BY <2>2, <2>3
  <2> HIDE DEF key
  <2>5. {"how", "key", "live", "sent"} \subseteq DOMAIN control' /\ control'.sent = control.sent \cup {key} /\ control'.how = control.how
    BY <1>1, <2>1
  <2>6. QED BY <2>1, <2>2, <2>3, <2>4, <2>5 DEF LobbyInv
<1>4. QED BY <1>2, <1>3

LEMMA LobbyStep == LobbyInv /\ [LobbyNext]_lobbyVars => LobbyInv'
<1> SUFFICES ASSUME LobbyInv, [LobbyNext]_lobbyVars PROVE LobbyInv'
  OBVIOUS
<1>1. CASE UNCHANGED lobbyVars
  BY <1>1 DEF lobbyVars, LobbyInv
<1>2. ASSUME NEW t \in LobbyTables, NEW action \in {"watch", "seat", "queue"}, EnterActiveTable(t, action) PROVE LobbyInv'
  BY <1>2, ActiveKeeps
<1>3. CASE PreviewLoaded \/ PreviewFailed \/ JoinPreviewed \/ RetryPreview \/ \E c \in joins : JoinRefused(c)
  BY <1>3, PreviewKeeps
<1>4. ASSUME NEW c \in joins, JoinAnswered(c) PROVE LobbyInv'
  BY <1>4, JoinAnsweredKeeps
<1>5. CASE OpenLinked \/ TakeRequested
  BY <1>5, RoomTablesKeep
<1>6. CASE \/ \E r \in LobbyRooms : EnterByCard(r) \/ JoinListed(r, "card") \/ CreateFromLobby(r)
           \/ \E target \in Targets : JoinByCode(target) \/ OpenFromBell(target) \/ LinkOpened(target)
           \/ \E t \in LobbyTables : ResumeTable(t)
           \/ BackToLobby \/ RoomIsLeft \/ DismissInvitation
  BY <1>6, WaysKeep
<1>7. QED BY <1>1, <1>2, <1>3, <1>4, <1>5, <1>6 DEF LobbyNext

LEMMA LobbyAsksAsAsked == LobbyInv => SeatsAsAsked
<1> SUFFICES ASSUME LobbyInv PROVE SeatsAsAsked
  OBVIOUS
<1> DEFINE operating == {c \in joins : c.by # "preview"}
<1>1. operating = {} \/ \E c : operating = {c}
  BY DEF LobbyInv, OneAtATime
<1>2. Cardinality(operating) <= 1
  <2> HIDE DEF operating
  <2>1. CASE operating = {}
    BY <2>1, FS_EmptySet
  <2>2. ASSUME NEW c, operating = {c} PROVE Cardinality(operating) <= 1
    <3>1. Cardinality({c}) = 1
      BY FS_Singleton
    <3>2. QED BY <2>2, <3>1
  <2>3. QED BY <1>1, <2>1, <2>2
<1>3. QED BY <1>2 DEF LobbyInv, SeatsAsAsked

-------------------------------------------------------------------------------
(* The card of a room *)

CardFields == {"card", "ask", "served", "late", "member", "ended", "owner", "turns"}
ShownOnCard == {"confirming", "removing", "removed", "error"}
\* Who is no member has left, and so has a player to whom the server has said so.
CardInv ==
    /\ CardFields \subseteq DOMAIN cards /\ ShownOnCard \subseteq DOMAIN cards.card
    /\ RemovedWhenLeft
    /\ cards.ask # "none" /\ cards.served = "ok" => cards.ended
    /\ ~cards.member => cards.ended

LEMMA CardInitially == CardInit => CardInv
<1> SUFFICES ASSUME CardInit PROVE CardInv
  OBVIOUS
<1>1. /\ CardFields \subseteq DOMAIN cards /\ cards.card = NewCard /\ cards.ask = "none" /\ cards.member = TRUE
  BY DEF CardInit, CardFields
<1>2. QED BY <1>1 DEF CardInv, NewCard, ShownOnCard, RemovedWhenLeft

LEMMA CardEndsKeeps == ASSUME CardInv, NEW ok, RemoveEnds(ok), ok => cards.ended PROVE CardInv'
<1> DEFINE late == cards.late \/ (cards.ask # "none" /\ cards.served = "no")
           card == [confirming |-> ~ok, removing |-> FALSE, removed |-> ok, error |-> ~ok]
<1>1. cards' = [[cards EXCEPT !.ask = "none", !.late = late] EXCEPT !.card = card]
  BY DEF RemoveEnds, CardTurns, Unwatched
<1>2. ShownOnCard \subseteq DOMAIN card /\ card.removed = ok
  BY DEF ShownOnCard
<1> HIDE DEF late, card
<1>3. /\ CardFields \subseteq DOMAIN cards' /\ cards'.card = card /\ cards'.ask = "none"
      /\ cards'.member = cards.member /\ cards'.ended = cards.ended
  BY <1>1 DEF CardInv, CardFields
<1>4. QED BY <1>2, <1>3 DEF CardInv, RemovedWhenLeft

LEMMA CardStep == CardInv /\ [CardNext]_cards => CardInv'
<1> SUFFICES ASSUME CardInv, [CardNext]_cards PROVE CardInv'
  OBVIOUS
<1>0. CardFields \subseteq DOMAIN cards /\ ShownOnCard \subseteq DOMAIN cards.card
  BY DEF CardInv
<1>1. CASE UNCHANGED cards
  BY <1>1 DEF CardInv, RemovedWhenLeft
<1>2. CASE ConfirmRemove \/ CancelRemove
  <2>1. PICK x : cards' = [cards EXCEPT !.card.confirming = x]
    BY <1>2 DEF ConfirmRemove, CancelRemove, CardTurns
  <2> DEFINE card == [cards.card EXCEPT !.confirming = x]
  <2>2. cards' = [cards EXCEPT !.card = card] /\ ShownOnCard \subseteq DOMAIN card /\ card.removed = cards.card.removed
    BY <1>0, <2>1 DEF CardFields, ShownOnCard
  <2> HIDE DEF card
  <2>3. /\ CardFields \subseteq DOMAIN cards' /\ cards'.card = card /\ cards'.ask = cards.ask /\ cards'.served = cards.served
        /\ cards'.member = cards.member /\ cards'.ended = cards.ended
    BY <1>0, <2>2 DEF CardFields
  <2>4. QED BY <2>2, <2>3 DEF CardInv, RemovedWhenLeft
<1>3. CASE RemoveRoom
  <2> DEFINE card == [cards.card EXCEPT !.removing = TRUE, !.error = FALSE]
  <2>1. cards' = [cards EXCEPT !.turns = @ + 1, !.card = card, !.ask = "sent", !.served = "no"]
    BY <1>0, <1>3 DEF RemoveRoom, CardTurns, Spend, CardFields
  <2>2. ShownOnCard \subseteq DOMAIN card /\ card.removed = cards.card.removed
    BY <1>0 DEF ShownOnCard
  <2> HIDE DEF card
  <2>3. /\ CardFields \subseteq DOMAIN cards' /\ cards'.card = card /\ cards'.served = "no"
        /\ cards'.member = cards.member /\ cards'.ended = cards.ended
    BY <1>0, <2>1 DEF CardFields
  <2>4. QED BY <2>2, <2>3 DEF CardInv, RemovedWhenLeft
<1>4. CASE RemoveServed
  <2>1. CASE cards' = [cards EXCEPT !.served = "ok", !.member = FALSE, !.ended = TRUE]
    <3>1. CardFields \subseteq DOMAIN cards' /\ cards'.card = cards.card /\ cards'.ended = TRUE
      BY <1>0, <2>1 DEF CardFields
    <3>2. QED BY <1>0, <3>1 DEF CardInv, RemovedWhenLeft
  <2>2. CASE cards' = [cards EXCEPT !.served = "refused"]
    <3>1. /\ CardFields \subseteq DOMAIN cards' /\ cards'.card = cards.card /\ cards'.served = "refused"
          /\ cards'.member = cards.member /\ cards'.ended = cards.ended
      BY <1>0, <2>2 DEF CardFields
    <3>2. QED BY <3>1 DEF CardInv, RemovedWhenLeft
  <2>3. QED BY <1>4, <2>1, <2>2 DEF RemoveServed, CardTurns
<1>5. CASE LateServed
  <2>1. cards' = [cards EXCEPT !.late = FALSE, !.member = FALSE, !.ended = TRUE]
    BY <1>5 DEF LateServed, CardTurns
  <2>2. CardFields \subseteq DOMAIN cards' /\ cards'.card = cards.card /\ cards'.ended = TRUE
    BY <1>0, <2>1 DEF CardFields
  <2>3. QED BY <1>0, <2>2 DEF CardInv, RemovedWhenLeft
<1>6. CASE RemoveLost
  <2>1. cards.ask = "sent" /\ cards' = [cards EXCEPT !.ask = "lost"]
    BY <1>6 DEF RemoveLost, CardTurns
  <2>2. /\ CardFields \subseteq DOMAIN cards' /\ cards'.card = cards.card /\ cards'.served = cards.served
        /\ cards'.member = cards.member /\ cards'.ended = cards.ended
    BY <1>0, <2>1 DEF CardFields
  <2>3. QED BY <2>1, <2>2 DEF CardInv, RemovedWhenLeft
<1>7. CASE RemoveAnswered
  <2>1. RemoveEnds(cards.served = "ok") /\ cards.ask # "none"
    BY <1>7 DEF RemoveAnswered
  <2> DEFINE ok == cards.served = "ok"
  <2>2. RemoveEnds(ok) /\ (ok => cards.ended)
    BY <2>1 DEF CardInv
  <2> HIDE DEF ok
  <2>3. QED BY <2>2, CardEndsKeeps
<1>8. CASE RemoveChecked
  <2>1. PICK ok : RemoveEnds(ok) /\ (ok => cards.ended)
    <3>1. CASE RemoveEnds(~cards.owner /\ ~cards.member)
      <4> DEFINE ok == ~cards.owner /\ ~cards.member
      <4>1. RemoveEnds(ok) /\ (ok => cards.ended)
        BY <3>1 DEF CardInv
      <4> HIDE DEF ok
      <4>2. QED BY <4>1
    <3>2. CASE RemoveEnds(FALSE)
      <4> DEFINE ok == FALSE
      <4>1. RemoveEnds(ok) /\ (ok => cards.ended)
        BY <3>2
      <4> HIDE DEF ok
      <4>2. QED BY <4>1
    <3>3. QED BY <1>8, <3>1, <3>2 DEF RemoveChecked
  <2>2. QED BY <2>1, CardEndsKeeps
<1>9. CASE RemountCard
  <2> DEFINE late == cards.late \/ (cards.ask # "none" /\ cards.served = "no")
             ended == ~cards.member
  <2>1. cards' = [cards EXCEPT !.ask = "none", !.late = late, !.turns = @ + 1, !.card = NewCard, !.ended = ended]
    BY <1>0, <1>9 DEF RemountCard, CardTurns, Spend, Unwatched, CardFields
  <2>2. ended <=> ~cards.member
    OBVIOUS
  <2> HIDE DEF late, ended
  <2>3. /\ CardFields \subseteq DOMAIN cards' /\ cards'.card = NewCard /\ cards'.ask = "none"
        /\ cards'.member = cards.member /\ cards'.ended = ended
    BY <1>0, <2>1 DEF CardFields
  <2>4. ShownOnCard \subseteq DOMAIN NewCard /\ ~NewCard.removed
    BY DEF NewCard, ShownOnCard
  <2>5. QED BY <2>2, <2>3, <2>4 DEF CardInv, RemovedWhenLeft
<1>10. CASE MemberAgain
  <2>1. cards' = [cards EXCEPT !.turns = @ + 1, !.member = TRUE]
    BY <1>0, <1>10 DEF MemberAgain, CardTurns, Spend, CardFields
  <2>2. /\ CardFields \subseteq DOMAIN cards' /\ cards'.card = cards.card /\ cards'.ask = cards.ask /\ cards'.served = cards.served
        /\ cards'.member = TRUE /\ cards'.ended = cards.ended
    BY <1>0, <2>1 DEF CardFields
  <2>3. QED BY <2>2 DEF CardInv, RemovedWhenLeft
<1>11. QED BY <1>1, <1>2, <1>3, <1>4, <1>5, <1>6, <1>7, <1>8, <1>9, <1>10 DEF CardNext

-------------------------------------------------------------------------------
(* The active tables *)

TablesFields == {"pending", "attempt", "refreshing", "error", "shown", "newest", "requests", "effect", "hidden", "now", "turns"}
ListRequests == [effect : Nat, id : Nat, read : Nat]
Current(t, r) == r.effect = t.effect
NoneCurrent(t) == \A r \in t.requests : ~Current(t, r)
\* One request of the present effect, and none that will bring a list older than the one shown.
Fetches(t) ==
    /\ TablesFields \subseteq DOMAIN t /\ t.requests \subseteq ListRequests
    /\ t.effect \in Nat /\ t.now \in Nat /\ t.newest \in Nat /\ t.turns \in Nat
    /\ t.shown = t.newest /\ t.newest <= t.now
    /\ \A r \in t.requests : /\ r.effect <= t.effect /\ r.read <= t.now
                             /\ Current(t, r) /\ r.read > 0 => r.read >= t.newest
    /\ \A r, s \in t.requests : Current(t, r) /\ Current(t, s) => r = s
Waits(t) == ~t.pending => NoneCurrent(t)
TellsRefresh(t) == t.refreshing /\ ~t.hidden => t.pending
TablesInv == Fetches(tables) /\ Waits(tables) /\ TellsRefresh(tables)

\* What a request, a new effect or a timer leaves of the lists.
Asking(u, t) ==
    /\ TablesFields \subseteq DOMAIN u /\ u.requests = t.requests /\ u.effect = t.effect /\ u.now = t.now
    /\ u.newest = t.newest /\ u.shown = t.shown /\ u.turns \in Nat

LEMMA FetchedKeeps == ASSUME NEW t, NEW u, Asking(u, t), Fetches(t) PROVE Fetches(u)
BY DEF Asking, Fetches, Current

LEMMA AsksOne ==
    ASSUME NEW t, Fetches(t), NoneCurrent(t)
    PROVE  LET u == AsksForTables(t) IN
           Fetches(u) /\ u.pending = t.pending /\ u.refreshing = t.refreshing /\ u.hidden = t.hidden
<1> DEFINE u == AsksForTables(t)
           r == [effect |-> t.effect, id |-> t.turns, read |-> 0]
<1>1. u = [t EXCEPT !.turns = @ + 1, !.requests = @ \cup {r}]
  BY DEF AsksForTables
<1>2. r \in ListRequests /\ r.effect = t.effect /\ r.read = 0
  BY DEF Fetches, ListRequests
<1> HIDE DEF u, r
<1>3. /\ TablesFields \subseteq DOMAIN u /\ u.requests = t.requests \cup {r} /\ u.effect = t.effect /\ u.now = t.now
      /\ u.newest = t.newest /\ u.shown = t.shown /\ u.turns = t.turns + 1
      /\ u.pending = t.pending /\ u.refreshing = t.refreshing /\ u.hidden = t.hidden
  BY <1>1 DEF Fetches, TablesFields
<1>4. Fetches(u)
  BY <1>2, <1>3 DEF Fetches, Current, NoneCurrent
<1>5. QED BY <1>3, <1>4 DEF u

LEMMA LoadOnce == ASSUME NEW t, Fetches(t), Waits(t) PROVE LET u == Load(t) IN Fetches(u) /\ Waits(u) /\ TellsRefresh(u)
<1> DEFINE u == Load(t)
<1>0. TablesFields \subseteq DOMAIN t
  BY DEF Fetches
<1>1. CASE t.pending \/ t.hidden
  <2>1. u = [t EXCEPT !.turns = @ + 1]
    BY <1>1 DEF Load, Spend
  <2> HIDE DEF u
  <2>2. /\ TablesFields \subseteq DOMAIN u /\ u.requests = t.requests /\ u.effect = t.effect /\ u.now = t.now
        /\ u.newest = t.newest /\ u.shown = t.shown /\ u.turns = t.turns + 1
        /\ u.pending = t.pending /\ u.refreshing = t.refreshing /\ u.hidden = t.hidden
    BY <1>0, <2>1 DEF TablesFields
  <2>3. Asking(u, t)
    BY <2>2 DEF Asking, Fetches
  <2>4. Fetches(u) /\ Waits(u) /\ TellsRefresh(u)
    BY <1>1, <2>2, <2>3, FetchedKeeps DEF Waits, TellsRefresh, NoneCurrent, Current
  <2>5. QED BY <2>4 DEF u
<1>2. CASE ~(t.pending \/ t.hidden)
  <2> DEFINE v == [t EXCEPT !.pending = TRUE, !.attempt = 1, !.refreshing = TRUE]
  <2>1. u = AsksForTables(v)
    BY <1>2 DEF Load
  <2>2. /\ TablesFields \subseteq DOMAIN v /\ v.requests = t.requests /\ v.effect = t.effect /\ v.now = t.now
        /\ v.newest = t.newest /\ v.shown = t.shown /\ v.turns = t.turns /\ v.pending
    BY <1>0 DEF TablesFields
  <2> HIDE DEF u, v
  <2>3. Asking(v, t) /\ NoneCurrent(v)
    BY <1>2, <2>2 DEF Asking, Fetches, Waits, NoneCurrent, Current
  <2>4. Fetches(v)
    BY <2>3, FetchedKeeps
  <2>5. Fetches(u) /\ u.pending = v.pending
    BY <2>1, <2>3, <2>4, AsksOne
  <2>6. Fetches(u) /\ Waits(u) /\ TellsRefresh(u)
    BY <2>2, <2>5 DEF Waits, TellsRefresh
  <2>7. QED BY <2>6 DEF u
<1>3. QED BY <1>1, <1>2

LEMMA EffectAnew == ASSUME NEW t, Fetches(t) PROVE LET u == NewEffect(t) IN Fetches(u) /\ Waits(u) /\ TellsRefresh(u)
<1> DEFINE v == [t EXCEPT !.effect = @ + 1, !.pending = FALSE]
<1>1. NewEffect(t) = Load(v)
  BY DEF NewEffect
<1>2. /\ TablesFields \subseteq DOMAIN v /\ v.requests = t.requests /\ v.effect = t.effect + 1 /\ v.now = t.now
      /\ v.newest = t.newest /\ v.shown = t.shown /\ v.turns = t.turns
  BY DEF Fetches, TablesFields
<1> HIDE DEF v
<1>3. v.effect \in Nat /\ \A r \in v.requests : r.effect # v.effect /\ r.effect <= v.effect
  BY <1>2 DEF Fetches, ListRequests
<1>4. Fetches(v) /\ Waits(v)
  BY <1>2, <1>3 DEF Fetches, Waits, NoneCurrent, Current
<1>5. QED BY <1>1, <1>4, LoadOnce

LEMMA TablesInitially == TablesInit => TablesInv
<1> SUFFICES ASSUME TablesInit PROVE TablesInv
  OBVIOUS
<1> DEFINE t == [pending |-> FALSE, attempt |-> 0, refreshing |-> FALSE, error |-> FALSE, shown |-> 0, newest |-> 0,
                 requests |-> {}, effect |-> 0, hidden |-> FALSE, now |-> 1, turns |-> 0]
<1>1. tables = Load(t)
  BY DEF TablesInit
<1>2. Fetches(t) /\ Waits(t)
  BY DEF Fetches, Waits, NoneCurrent, TablesFields
<1> HIDE DEF t
<1>3. QED BY <1>1, <1>2, LoadOnce DEF TablesInv

LEMMA TablesReadKeeps == ASSUME TablesInv, NEW r \in tables.requests, TablesRead(r) PROVE TablesInv'
<1> DEFINE s == [r EXCEPT !.read = tables.now]
<1>1. r \in ListRequests /\ TablesFields \subseteq DOMAIN tables /\ tables.now \in Nat
  BY DEF TablesInv, Fetches
<1>2. s \in ListRequests /\ s.effect = r.effect /\ s.read = tables.now
  BY <1>1 DEF ListRequests
<1>3. tables' = [tables EXCEPT !.requests = (@ \ {r}) \cup {s}]
  BY DEF TablesRead, Lists
<1> HIDE DEF s
<1> DEFINE u == tables'
<1>4. /\ TablesFields \subseteq DOMAIN u /\ u.requests = (tables.requests \ {r}) \cup {s} /\ u.effect = tables.effect
      /\ u.now = tables.now /\ u.newest = tables.newest /\ u.shown = tables.shown /\ u.turns = tables.turns
      /\ u.pending = tables.pending /\ u.refreshing = tables.refreshing /\ u.hidden = tables.hidden
  BY <1>1, <1>3 DEF TablesFields
<1> HIDE DEF u
<1>5. Fetches(u)
  BY <1>2, <1>4 DEF TablesInv, Fetches, Current
<1>6. Waits(u) /\ TellsRefresh(u)
  BY <1>2, <1>4 DEF TablesInv, Waits, TellsRefresh, NoneCurrent, Current
<1>7. QED BY <1>5, <1>6 DEF u, TablesInv, Fetches, Waits, TellsRefresh, NoneCurrent, Current

LEMMA TablesAnswerKeeps ==
    ASSUME TablesInv, NEW r \in tables.requests, NEW ok, ok => r.read > 0, TablesAnswer(r, ok)
    PROVE  TablesInv'
<1> DEFINE u == tables'
           rest == [tables EXCEPT !.requests = @ \ {r}]
           newest == IF r.read > tables.newest THEN r.read ELSE tables.newest
<1>1. /\ r \in ListRequests /\ TablesFields \subseteq DOMAIN tables /\ tables.newest \in Nat /\ Fetches(tables)
      /\ Waits(tables) /\ TellsRefresh(tables)
  BY DEF TablesInv, Fetches
<1>2. /\ TablesFields \subseteq DOMAIN rest /\ rest.requests = tables.requests \ {r} /\ rest.effect = tables.effect
      /\ rest.now = tables.now /\ rest.newest = tables.newest /\ rest.shown = tables.shown /\ rest.turns = tables.turns
      /\ rest.pending = tables.pending /\ rest.refreshing = tables.refreshing /\ rest.hidden = tables.hidden
  BY <1>1 DEF TablesFields
<1>3. u = IF r.effect # tables.effect THEN rest
          ELSE IF ok THEN [rest EXCEPT !.pending = FALSE, !.refreshing = FALSE, !.error = FALSE, !.shown = r.read, !.newest = newest]
          ELSE IF tables.attempt = TablesAttempts THEN [rest EXCEPT !.pending = FALSE, !.refreshing = FALSE, !.error = TRUE]
          ELSE [rest EXCEPT !.attempt = @ + 1]
  <2>1. tables' = IF r.effect # tables.effect THEN rest
          ELSE IF ok THEN [LoadEnds(rest) EXCEPT !.error = FALSE, !.shown = r.read, !.newest = IF r.read > @ THEN r.read ELSE @]
          ELSE IF tables.attempt = TablesAttempts THEN [LoadEnds(rest) EXCEPT !.error = TRUE]
          ELSE [rest EXCEPT !.attempt = @ + 1]
    BY DEF TablesAnswer, Lists
  <2>2. [LoadEnds(rest) EXCEPT !.error = FALSE, !.shown = r.read, !.newest = IF r.read > @ THEN r.read ELSE @]
        = [rest EXCEPT !.pending = FALSE, !.refreshing = FALSE, !.error = FALSE, !.shown = r.read, !.newest = newest]
    <3> HIDE DEF rest
    <3>1. QED BY <1>2 DEF LoadEnds, TablesFields
  <2>3. [LoadEnds(rest) EXCEPT !.error = TRUE] = [rest EXCEPT !.pending = FALSE, !.refreshing = FALSE, !.error = TRUE]
    BY DEF LoadEnds
  <2> HIDE DEF rest
  <2>4. QED BY <2>1, <2>2, <2>3
<1> HIDE DEF rest, u
<1>4. Fetches(rest)
  BY <1>1, <1>2 DEF Fetches, Current
<1>5. Current(tables, r) => NoneCurrent(rest)
  BY <1>1, <1>2 DEF Fetches, NoneCurrent, Current
<1>6. CASE ~Current(tables, r)
  <2>1. u = rest
    BY <1>3, <1>6 DEF Current
  <2>2. Waits(u) /\ TellsRefresh(u)
    BY <1>1, <1>2, <2>1 DEF Waits, TellsRefresh, NoneCurrent, Current
  <2>3. QED BY <1>4, <2>1, <2>2 DEF u, TablesInv, Fetches, Waits, TellsRefresh, NoneCurrent, Current
<1>7. CASE Current(tables, r) /\ ok
  <2>1. u = [rest EXCEPT !.pending = FALSE, !.refreshing = FALSE, !.error = FALSE, !.shown = r.read, !.newest = newest]
    BY <1>3, <1>7 DEF Current
  <2>2. newest = r.read /\ r.read \in Nat /\ r.read <= tables.now
    BY <1>1, <1>7 DEF Fetches, ListRequests
  <2> HIDE DEF newest
  <2>3. /\ TablesFields \subseteq DOMAIN u /\ u.requests = rest.requests /\ u.effect = rest.effect /\ u.now = rest.now
        /\ u.newest = r.read /\ u.shown = r.read /\ u.turns = rest.turns /\ ~u.refreshing
    BY <1>2, <2>1, <2>2 DEF TablesFields
  <2>4. NoneCurrent(u)
    BY <1>5, <1>7, <2>3 DEF NoneCurrent, Current
  <2>5. Fetches(u)
    BY <1>2, <1>4, <2>2, <2>3, <2>4 DEF Fetches, NoneCurrent, Current
  <2>6. Waits(u) /\ TellsRefresh(u)
    BY <2>3, <2>4 DEF Waits, TellsRefresh
  <2>7. QED BY <2>5, <2>6 DEF u, TablesInv, Fetches, Waits, TellsRefresh, NoneCurrent, Current
<1>8. CASE Current(tables, r) /\ ~ok /\ tables.attempt = TablesAttempts
  <2>1. u = [rest EXCEPT !.pending = FALSE, !.refreshing = FALSE, !.error = TRUE]
    BY <1>3, <1>8 DEF Current
  <2>2. /\ TablesFields \subseteq DOMAIN u /\ u.requests = rest.requests /\ u.effect = rest.effect /\ u.now = rest.now
        /\ u.newest = rest.newest /\ u.shown = rest.shown /\ u.turns = rest.turns /\ ~u.refreshing
    BY <1>2, <2>1 DEF TablesFields
  <2>3. NoneCurrent(u) /\ Asking(u, rest)
    BY <1>4, <1>5, <1>8, <2>2 DEF NoneCurrent, Current, Asking, Fetches
  <2>4. Fetches(u) /\ Waits(u) /\ TellsRefresh(u)
    BY <1>4, <2>2, <2>3, FetchedKeeps DEF Waits, TellsRefresh
  <2>5. QED BY <2>4 DEF u, TablesInv, Fetches, Waits, TellsRefresh, NoneCurrent, Current
<1>9. CASE Current(tables, r) /\ ~ok /\ tables.attempt # TablesAttempts
  <2>1. u = [rest EXCEPT !.attempt = @ + 1]
    BY <1>3, <1>9 DEF Current
  <2>2. /\ TablesFields \subseteq DOMAIN u /\ u.requests = rest.requests /\ u.effect = rest.effect /\ u.now = rest.now
        /\ u.newest = rest.newest /\ u.shown = rest.shown /\ u.turns = rest.turns
        /\ u.pending = rest.pending /\ u.refreshing = rest.refreshing /\ u.hidden = rest.hidden
    BY <1>2, <2>1 DEF TablesFields
  <2>3. NoneCurrent(u) /\ Asking(u, rest)
    BY <1>4, <1>5, <1>9, <2>2 DEF NoneCurrent, Current, Asking, Fetches
  <2>4. Fetches(u) /\ Waits(u) /\ TellsRefresh(u)
    BY <1>1, <1>2, <1>4, <2>2, <2>3, FetchedKeeps DEF Waits, TellsRefresh
  <2>5. QED BY <2>4 DEF u, TablesInv, Fetches, Waits, TellsRefresh, NoneCurrent, Current
<1>10. QED BY <1>6, <1>7, <1>8, <1>9

LEMMA TablesStep == TablesInv /\ [TablesNext]_tables => TablesInv'
<1> SUFFICES ASSUME TablesInv, [TablesNext]_tables PROVE TablesInv'
  OBVIOUS
<1>0. Fetches(tables) /\ Waits(tables) /\ TellsRefresh(tables) /\ TablesFields \subseteq DOMAIN tables
  BY DEF TablesInv, Fetches
<1>1. ASSUME Fetches(tables'), Waits(tables'), TellsRefresh(tables') PROVE TablesInv'
  BY <1>1 DEF TablesInv, Fetches, Waits, TellsRefresh, NoneCurrent, Current
<1>2. CASE UNCHANGED tables
  BY <1>0, <1>1, <1>2
<1>3. CASE RefreshTables \/ RenewTables
  <2>1. tables' = NewEffect(tables)
    BY <1>3 DEF RefreshTables, RenewTables, Lists
  <2>2. QED BY <1>0, <1>1, <2>1, EffectAnew
<1>4. CASE TablesTimer
  <2>1. tables' = Load(tables)
    BY <1>4 DEF TablesTimer, Lists
  <2>2. QED BY <1>0, <1>1, <2>1, LoadOnce
<1>5. CASE AppHidden
  <2> DEFINE u == tables'
  <2>1. u = [tables EXCEPT !.hidden = TRUE]
    BY <1>5 DEF AppHidden, Lists
  <2> HIDE DEF u
  <2>2. /\ TablesFields \subseteq DOMAIN u /\ u.requests = tables.requests /\ u.effect = tables.effect /\ u.now = tables.now
        /\ u.newest = tables.newest /\ u.shown = tables.shown /\ u.turns = tables.turns
        /\ u.pending = tables.pending /\ u.hidden
    BY <1>0, <2>1 DEF TablesFields
  <2>3. Asking(u, tables)
    BY <1>0, <2>2 DEF Asking, Fetches
  <2>4. Fetches(u) /\ Waits(u) /\ TellsRefresh(u)
    BY <1>0, <2>2, <2>3, FetchedKeeps DEF Waits, TellsRefresh, NoneCurrent, Current
  <2>5. QED BY <1>1, <2>4 DEF u
<1>6. CASE AppActive
  <2> DEFINE v == [tables EXCEPT !.hidden = FALSE]
  <2>1. tables' = Load(v)
    BY <1>6 DEF AppActive, Lists
  <2>2. /\ TablesFields \subseteq DOMAIN v /\ v.requests = tables.requests /\ v.effect = tables.effect /\ v.now = tables.now
        /\ v.newest = tables.newest /\ v.shown = tables.shown /\ v.turns = tables.turns /\ v.pending = tables.pending
    BY <1>0 DEF TablesFields
  <2> HIDE DEF v
  <2>3. Asking(v, tables) /\ Waits(v)
    BY <1>0, <2>2 DEF Asking, Fetches, Waits, NoneCurrent, Current
  <2>4. Fetches(v)
    BY <1>0, <2>3, FetchedKeeps
  <2>5. QED BY <1>1, <2>1, <2>3, <2>4, LoadOnce
<1>7. CASE TablesChange
  <2> DEFINE u == tables'
  <2>1. u = [tables EXCEPT !.turns = @ + 1, !.now = @ + 1]
    BY <1>0, <1>7 DEF TablesChange, Lists, Spend, TablesFields
  <2> HIDE DEF u
  <2>2. /\ TablesFields \subseteq DOMAIN u /\ u.requests = tables.requests /\ u.effect = tables.effect /\ u.now = tables.now + 1
        /\ u.newest = tables.newest /\ u.shown = tables.shown /\ u.turns = tables.turns + 1
        /\ u.pending = tables.pending /\ u.hidden = tables.hidden /\ u.refreshing = tables.refreshing
    BY <1>0, <2>1 DEF TablesFields
  <2>3. Fetches(u)
    BY <1>0, <2>2 DEF Fetches, Current, ListRequests
  <2>4. Waits(u) /\ TellsRefresh(u)
    BY <1>0, <2>2 DEF Waits, TellsRefresh, NoneCurrent, Current
  <2>5. QED BY <1>1, <2>3, <2>4 DEF u
<1>8. CASE TablesAgain
  <2>1. tables' = AsksForTables(tables) /\ NoneCurrent(tables) /\ tables.pending
    BY <1>8 DEF TablesAgain, Lists, NoneCurrent, Current
  <2> DEFINE u == AsksForTables(tables)
  <2>2. Fetches(u) /\ u.pending = tables.pending
    BY <1>0, <2>1, AsksOne
  <2> HIDE DEF u
  <2>3. Waits(u) /\ TellsRefresh(u)
    BY <2>1, <2>2 DEF Waits, TellsRefresh
  <2>4. QED BY <1>1, <2>1, <2>2, <2>3 DEF u
<1>9. ASSUME NEW r \in tables.requests, TablesRead(r) PROVE TablesInv'
  BY <1>9, TablesReadKeeps
<1>10. ASSUME NEW r \in tables.requests, NEW ok, ok => r.read > 0, TablesAnswer(r, ok) PROVE TablesInv'
  BY <1>10, TablesAnswerKeeps
<1>11. ASSUME NEW r \in tables.requests, TablesAnswer(r, FALSE) PROVE TablesInv'
  <2> DEFINE ok == FALSE
  <2>1. TablesAnswer(r, ok) /\ (ok => r.read > 0)
    BY <1>11
  <2> HIDE DEF ok
  <2>2. QED BY <1>10, <2>1
<1>12. ASSUME NEW r \in tables.requests, r.read > 0, TablesAnswer(r, TRUE) PROVE TablesInv'
  <2> DEFINE ok == TRUE
  <2>1. TablesAnswer(r, ok) /\ (ok => r.read > 0)
    BY <1>12
  <2> HIDE DEF ok
  <2>2. QED BY <1>10, <2>1
<1>13. QED BY <1>2, <1>3, <1>4, <1>5, <1>6, <1>7, <1>8, <1>9, <1>11, <1>12 DEF TablesNext

-------------------------------------------------------------------------------
(* Rooms visited last *)

RecentFields == {"user", "room", "saved", "effect", "queue", "stored", "visited", "failed", "turns"}
Recalling == [do : {"read"}, user : Visitors, room : ListedRooms \cup {NoVisitor}, effect : Nat]
Writing == [do : {"write"}, user : Visitors, ids : Seq(ListedRooms)]
RecentTyped ==
    /\ RecentFields \subseteq DOMAIN recent
    /\ recent.user \in Visitors \cup {NoVisitor} /\ recent.room \in ListedRooms \cup {NoVisitor} /\ recent.effect \in Nat
    /\ recent.saved \in [user : Visitors \cup {NoVisitor}, ids : Seq(ListedRooms)]
    /\ recent.queue \in Seq(Recalling \cup Writing)
    /\ recent.stored \in [Visitors -> Seq(ListedRooms)] /\ recent.visited \in [Visitors -> Seq(ListedRooms)]
\* The read of the present effect is the last that the storage was asked for, and for whom and what is there now.
Present(r, o) == o.do = "read" /\ o.effect = r.effect
QueueOrdered(r) ==
    \A i \in DOMAIN r.queue :
        /\ r.queue[i].do = "write" => i = 1
        /\ r.queue[i].do = "read" => r.queue[i].effect <= r.effect
        /\ Present(r, r.queue[i]) => i = Len(r.queue) /\ r.queue[i].user = r.user /\ r.queue[i].room = r.room
Recollects(r) == \E i \in DOMAIN r.queue : Present(r, r.queue[i])
\* What the storage will hold for a visitor once it has written what it was asked to.
Stores(r, u) ==
    IF r.queue # <<>> /\ Head(r.queue).do = "write" /\ Head(r.queue).user = u THEN Head(r.queue).ids ELSE r.stored[u]
\* Unless the read of the present effect is still to come, its rooms are shown, and the room visited comes first.
ShownFirst(r) ==
    r.user # NoVisitor /\ ~Recollects(r) =>
        r.saved.user = r.user /\ (r.room # NoVisitor => r.saved.ids # <<>> /\ r.saved.ids[1] = r.room)
KeptWhole(r) ==
    /\ \A u \in Visitors : r.visited[u] = Stores(r, u)
    /\ r.user # NoVisitor /\ ~Recollects(r) => r.saved.ids = r.visited[r.user]
RecentInv == RecentTyped /\ QueueOrdered(recent) /\ ShownFirst(recent) /\ (~recent.failed => KeptWhole(recent))

LEMMA RecentInitially == RecentInit => RecentInv
<1> SUFFICES ASSUME RecentInit PROVE RecentInv
  OBVIOUS
<1>1. /\ RecentFields \subseteq DOMAIN recent /\ recent.user = NoVisitor /\ recent.room = NoVisitor
      /\ recent.saved = [user |-> NoVisitor, ids |-> <<>>] /\ recent.effect = 0 /\ recent.queue = <<>>
      /\ recent.stored = [u \in Visitors |-> <<>>] /\ recent.visited = [u \in Visitors |-> <<>>]
  BY DEF RecentInit, RecentFields
<1>2. RecentTyped
  BY <1>1 DEF RecentTyped
<1>3. QED BY <1>1, <1>2 DEF RecentInv, QueueOrdered, ShownFirst, KeptWhole, Stores

LEMMA InFrontFacts ==
    ASSUME NEW room \in ListedRooms, NEW ids \in Seq(ListedRooms)
    PROVE  InFront(room, ids) \in Seq(ListedRooms) /\ InFront(room, ids) # <<>> /\ InFront(room, ids)[1] = room
<1> DEFINE others == Without(ids, {room})
           row == <<room>> \o others
<1>1. others \in Seq(ListedRooms)
  BY WithoutFacts
<1>2. InFront(room, ids) = IF Len(row) > Kept THEN SubSeq(row, 1, Kept) ELSE row
  BY DEF InFront
<1>3. Kept \in Nat \ {0}
  BY LobbyListsAssumption
<1> HIDE DEF others
<1>4. row \in Seq(ListedRooms) /\ row # <<>> /\ row[1] = room /\ Len(row) \in Nat
  BY <1>1
<1> HIDE DEF row
<1>5. CASE Len(row) > Kept
  <2>1. SubSeq(row, 1, Kept) \in Seq(ListedRooms) /\ Len(SubSeq(row, 1, Kept)) = Kept /\ SubSeq(row, 1, Kept)[1] = row[1]
    BY <1>3, <1>4, <1>5
  <2>2. SubSeq(row, 1, Kept) # <<>>
    BY <1>3, <2>1
  <2>3. QED BY <1>2, <1>4, <1>5, <2>1, <2>2
<1>6. QED BY <1>2, <1>4, <1>5

LEMMA VisitingKeeps ==
    ASSUME RecentInv, NEW user \in Visitors \cup {NoVisitor}, NEW room \in ListedRooms \cup {NoVisitor},
           recent' = Visiting(user, room)
    PROVE  RecentInv'
<1> DEFINE o == [do |-> "read", user |-> user, room |-> room, effect |-> recent.effect + 1]
           queue == IF user = NoVisitor THEN recent.queue ELSE Append(recent.queue, o)
           u == recent'
<1>1. /\ RecentTyped /\ RecentFields \subseteq DOMAIN recent /\ recent.effect \in Nat /\ recent.queue \in Seq(Recalling \cup Writing)
      /\ QueueOrdered(recent) /\ (~recent.failed => KeptWhole(recent))
  BY DEF RecentInv, RecentTyped
<1>2. u = [recent EXCEPT !.turns = @ + 1, !.user = user, !.room = room, !.effect = @ + 1, !.queue = queue]
  BY <1>1 DEF Visiting, Spend, RecentFields
<1> HIDE DEF u
<1>3. user # NoVisitor => o \in Recalling /\ o.do = "read" /\ o.effect = recent.effect + 1 /\ o.user = user /\ o.room = room
  BY <1>1 DEF Recalling
<1> HIDE DEF o
<1>4. /\ queue \in Seq(Recalling \cup Writing)
      /\ user = NoVisitor => queue = recent.queue
      /\ user # NoVisitor => /\ Len(queue) = Len(recent.queue) + 1 /\ queue[Len(recent.queue) + 1] = o
                             /\ \A i \in DOMAIN recent.queue : queue[i] = recent.queue[i]
      /\ Len(recent.queue) \in Nat /\ DOMAIN recent.queue = 1 .. Len(recent.queue)
  BY <1>1, <1>3
<1>5. DOMAIN queue = 1 .. Len(queue)
  BY <1>4
<1> HIDE DEF queue
<1>6. /\ RecentFields \subseteq DOMAIN u /\ u.user = user /\ u.room = room /\ u.effect = recent.effect + 1 /\ u.queue = queue
      /\ u.saved = recent.saved /\ u.stored = recent.stored /\ u.visited = recent.visited /\ u.failed = recent.failed
  BY <1>1, <1>2 DEF RecentFields
<1>7. ASSUME NEW i \in DOMAIN queue
      PROVE  \/ i \in DOMAIN recent.queue /\ queue[i] = recent.queue[i]
             \/ user # NoVisitor /\ i = Len(queue) /\ queue[i] = o
  <2>1. CASE user = NoVisitor
    BY <1>4, <2>1
  <2>2. CASE user # NoVisitor
    <3> DEFINE n == Len(recent.queue)
               m == Len(queue)
    <3>1. n \in Nat /\ m = n + 1 /\ i \in 1 .. m /\ DOMAIN recent.queue = 1 .. n /\ queue[n + 1] = o
      BY <1>4, <1>5, <2>2
    <3> HIDE DEF n, m
    <3>2. i \in 1 .. n \/ i = n + 1
      BY <3>1
    <3>3. CASE i \in 1 .. n
      <4>1. i \in DOMAIN recent.queue
        BY <3>1, <3>3
      <4>2. QED BY <1>4, <2>2, <4>1
    <3>4. CASE i = n + 1
      BY <2>2, <3>1, <3>4 DEF m
    <3>5. QED BY <3>2, <3>3, <3>4
  <2>3. QED BY <2>1, <2>2
<1>8. ASSUME NEW i \in DOMAIN recent.queue, recent.queue[i].do = "read"
      PROVE  recent.queue[i].effect <= recent.effect /\ recent.queue[i].effect \in Nat
  <2>1. recent.queue[i] \in Recalling \cup Writing
    BY <1>1
  <2>2. QED BY <1>1, <1>8, <2>1 DEF QueueOrdered, Recalling, Writing
<1>9. QueueOrdered(u)
  <2> SUFFICES ASSUME NEW i \in DOMAIN queue
               PROVE  /\ queue[i].do = "write" => i = 1
                      /\ queue[i].do = "read" => queue[i].effect <= recent.effect + 1
                      /\ Present(u, queue[i]) => i = Len(queue) /\ queue[i].user = user /\ queue[i].room = room
    BY <1>6 DEF QueueOrdered
  <2>1. CASE i \in DOMAIN recent.queue /\ queue[i] = recent.queue[i]
    <3>1. queue[i].do = "write" => i = 1
      BY <1>1, <2>1 DEF QueueOrdered
    <3>2. queue[i].do = "read" => queue[i].effect <= recent.effect /\ queue[i].effect \in Nat
      BY <1>8, <2>1
    <3>3. QED BY <1>1, <1>6, <3>1, <3>2 DEF Present
  <2>2. CASE user # NoVisitor /\ i = Len(queue) /\ queue[i] = o
    BY <1>1, <1>3, <2>2
  <2>3. QED BY <1>7, <2>1, <2>2
<1>10. user # NoVisitor => Recollects(u)
  <2> SUFFICES ASSUME user # NoVisitor PROVE Recollects(u)
    OBVIOUS
  <2> DEFINE n == Len(recent.queue)
             m == Len(queue)
  <2>1. n \in Nat /\ m = n + 1 /\ DOMAIN queue = 1 .. m /\ queue[n + 1] = o
    BY <1>4, <1>5
  <2> HIDE DEF n, m
  <2>2. n + 1 \in DOMAIN queue /\ Present(u, queue[n + 1])
    BY <1>3, <1>6, <2>1 DEF Present
  <2>3. QED BY <1>6, <2>2 DEF Recollects
<1>11. ShownFirst(u)
  BY <1>6, <1>10 DEF ShownFirst
<1>12. \A v : Stores(u, v) = Stores(recent, v)
  <2>1. CASE recent.queue = <<>>
    <3>1. queue = <<>> \/ (queue # <<>> /\ Head(queue) = o)
      BY <1>4, <2>1
    <3>2. queue # <<>> => Head(queue).do # "write"
      BY <1>3, <1>4, <2>1, <3>1
    <3>3. QED BY <1>6, <2>1, <3>2 DEF Stores
  <2>2. CASE recent.queue # <<>>
    <3>1. queue # <<>> /\ Head(queue) = Head(recent.queue)
      BY <1>1, <1>4, <2>2
    <3>2. QED BY <1>6, <2>2, <3>1 DEF Stores
  <2>3. QED BY <2>1, <2>2
<1>13. ~u.failed => KeptWhole(u)
  BY <1>1, <1>6, <1>10, <1>12 DEF KeptWhole
<1>14. RecentTyped'
  BY <1>1, <1>4, <1>6 DEF u, RecentTyped
<1>15. QED BY <1>9, <1>11, <1>13, <1>14 DEF u, RecentInv, QueueOrdered, ShownFirst, KeptWhole, Recollects, Present, Stores

\* What is left when the storage has done one thing.
LEMMA QueueTail ==
    ASSUME RecentInv, recent.queue # <<>>
    PROVE  LET o == Head(recent.queue)
               rest == Tail(recent.queue)
           IN /\ o \in Recalling \cup Writing /\ o = recent.queue[1] /\ 1 \in DOMAIN recent.queue
              /\ rest \in Seq(Recalling \cup Writing) /\ DOMAIN rest = 1 .. Len(rest) /\ Len(rest) \in Nat
              /\ Len(recent.queue) = Len(rest) + 1
              /\ \A i \in DOMAIN rest : i + 1 \in DOMAIN recent.queue /\ rest[i] = recent.queue[i + 1] /\ rest[i].do = "read"
              /\ \A i \in DOMAIN recent.queue : i = 1 \/ (i - 1 \in DOMAIN rest /\ rest[i - 1] = recent.queue[i])
<1> DEFINE queue == recent.queue
           rest == Tail(queue)
           ops == Recalling \cup Writing
<1>1. queue \in Seq(ops) /\ queue # <<>>
  BY DEF RecentInv, RecentTyped
<1> HIDE DEF ops
<1>2. /\ Head(queue) \in ops /\ Head(queue) = queue[1] /\ 1 \in DOMAIN queue /\ rest \in Seq(ops) /\ Len(queue) = Len(rest) + 1
      /\ DOMAIN rest = 1 .. Len(rest) /\ Len(rest) \in Nat /\ DOMAIN queue = 1 .. Len(queue)
  BY <1>1
<1>3. ASSUME NEW i \in DOMAIN rest PROVE i + 1 \in DOMAIN queue /\ rest[i] = queue[i + 1] /\ i + 1 # 1
  BY <1>1, <1>2
<1>4. ASSUME NEW i \in DOMAIN rest PROVE rest[i].do = "read"
  <2>1. queue[i + 1].do # "write" /\ queue[i + 1] \in ops
    BY <1>1, <1>3 DEF RecentInv, QueueOrdered
  <2>2. QED BY <1>3, <2>1 DEF ops, Recalling, Writing
<1>5. ASSUME NEW i \in DOMAIN queue PROVE i = 1 \/ (i - 1 \in DOMAIN rest /\ rest[i - 1] = queue[i])
  BY <1>1, <1>2
<1>6. QED BY <1>2, <1>3, <1>4, <1>5 DEF ops

\* A read of the present effect takes in what is stored; any other is dropped.
LEMMA RecalledKeeps ==
    ASSUME RecentInv, NEW ids \in Seq(ListedRooms), recent.queue # <<>>, Head(recent.queue).do = "read",
           NEW failed, recent.failed => failed,
           ~failed => ids = recent.stored[Head(recent.queue).user],
           recent' = [Recalled(Head(recent.queue), ids) EXCEPT !.failed = failed]
    PROVE  RecentInv'
<1> DEFINE o == Head(recent.queue)
           tail == Tail(recent.queue)
           u == recent'
           now == IF o.room = NoVisitor THEN ids ELSE InFront(o.room, ids)
           write == [do |-> "write", user |-> o.user, ids |-> now]
           rest == [recent EXCEPT !.queue = tail]
           shows == [rest EXCEPT !.saved = [user |-> o.user, ids |-> now]]
<1>1. /\ o \in Recalling \cup Writing /\ o = recent.queue[1] /\ 1 \in DOMAIN recent.queue
      /\ tail \in Seq(Recalling \cup Writing) /\ DOMAIN tail = 1 .. Len(tail) /\ Len(tail) \in Nat
      /\ Len(recent.queue) = Len(tail) + 1
      /\ \A i \in DOMAIN tail : i + 1 \in DOMAIN recent.queue /\ tail[i] = recent.queue[i + 1] /\ tail[i].do = "read"
      /\ \A i \in DOMAIN recent.queue : i = 1 \/ (i - 1 \in DOMAIN tail /\ tail[i - 1] = recent.queue[i])
  BY QueueTail
<1>2. o.user \in Visitors /\ o.room \in ListedRooms \cup {NoVisitor} /\ o.do = "read"
  BY <1>1 DEF Recalling, Writing
<1>3. /\ RecentTyped /\ QueueOrdered(recent) /\ ShownFirst(recent) /\ (~recent.failed => KeptWhole(recent))
      /\ RecentFields \subseteq DOMAIN recent
  BY DEF RecentInv, RecentTyped
<1>4. /\ now \in Seq(ListedRooms)
      /\ o.room # NoVisitor => now = InFront(o.room, ids) /\ now # <<>> /\ now[1] = o.room
  BY <1>2, InFrontFacts
<1>5. u = [IF o.effect # recent.effect THEN rest
           ELSE IF o.room = NoVisitor THEN shows
           ELSE [shows EXCEPT !.visited[o.user] = InFront(o.room, @), !.queue = Append(@, write)] EXCEPT !.failed = failed]
  BY DEF Recalled
<1>6. ~recent.failed => \A v \in Visitors : recent.visited[v] = recent.stored[v]
  BY <1>2, <1>3 DEF KeptWhole, Stores
<1> HIDE DEF o, tail, now, write
<1>7. \A i \in DOMAIN tail : /\ tail[i].do # "write" /\ tail[i].effect <= recent.effect
                             /\ Present(recent, tail[i]) => i = Len(tail) /\ tail[i].user = recent.user /\ tail[i].room = recent.room
  <2> SUFFICES ASSUME NEW i \in DOMAIN tail
               PROVE  /\ tail[i].do # "write" /\ tail[i].effect <= recent.effect
                      /\ Present(recent, tail[i]) => i = Len(tail) /\ tail[i].user = recent.user /\ tail[i].room = recent.room
    OBVIOUS
  <2>1. i + 1 \in DOMAIN recent.queue /\ tail[i] = recent.queue[i + 1] /\ tail[i].do = "read" /\ i \in Nat
    BY <1>1
  <2>2. /\ tail[i].effect <= recent.effect
        /\ Present(recent, tail[i]) => i + 1 = Len(recent.queue) /\ tail[i].user = recent.user /\ tail[i].room = recent.room
    BY <1>3, <2>1 DEF QueueOrdered
  <2>3. i + 1 = Len(recent.queue) => i = Len(tail)
    BY <1>1, <2>1
  <2>4. QED BY <2>1, <2>2, <2>3
<1>8. CASE o.effect # recent.effect
  <2>1. u = [recent EXCEPT !.queue = tail, !.failed = failed]
    BY <1>5, <1>8
  <2> HIDE DEF u
  <2>2. /\ RecentFields \subseteq DOMAIN u /\ u.user = recent.user /\ u.room = recent.room /\ u.effect = recent.effect
        /\ u.queue = tail /\ u.saved = recent.saved /\ u.stored = recent.stored /\ u.visited = recent.visited
        /\ u.failed = failed
    BY <1>3, <2>1 DEF RecentFields
  <2>3. Recollects(u) <=> Recollects(recent)
    <3>1. ~Present(recent, recent.queue[1])
      BY <1>1, <1>8 DEF Present
    <3>2. ASSUME NEW i \in DOMAIN tail, Present(recent, tail[i]) PROVE Recollects(recent)
      BY <1>1, <3>2 DEF Recollects
    <3>3. ASSUME NEW i \in DOMAIN recent.queue, Present(recent, recent.queue[i])
          PROVE  \E k \in DOMAIN tail : Present(recent, tail[k])
      <4>1. i - 1 \in DOMAIN tail /\ tail[i - 1] = recent.queue[i]
        BY <1>1, <3>1, <3>3
      <4>2. QED BY <3>3, <4>1
    <3>4. Recollects(u) <=> \E k \in DOMAIN tail : Present(recent, tail[k])
      BY <2>2 DEF Recollects, Present
    <3>5. QED BY <3>2, <3>3, <3>4 DEF Recollects
  <2>4. QueueOrdered(u)
    BY <1>7, <2>2 DEF QueueOrdered, Present
  <2>5. ShownFirst(u)
    BY <1>3, <2>2, <2>3 DEF ShownFirst
  <2>6. ~u.failed => KeptWhole(u)
    <3>1. tail # <<>> => Head(tail).do # "write"
      BY <1>1, <1>7
    <3>2. \A v : Stores(u, v) = recent.stored[v]
      BY <2>2, <3>1 DEF Stores
    <3>3. QED BY <1>3, <1>6, <2>2, <2>3, <3>2 DEF KeptWhole
  <2>7. RecentTyped'
    BY <1>1, <1>3, <2>2 DEF u, RecentTyped
  <2>8. QED BY <2>4, <2>5, <2>6, <2>7 DEF u, RecentInv, QueueOrdered, ShownFirst, KeptWhole, Recollects, Present, Stores
<1>9. CASE o.effect = recent.effect
  <2>1. /\ Len(recent.queue) = 1 /\ o.user = recent.user /\ o.room = recent.room
    BY <1>1, <1>2, <1>3, <1>9 DEF QueueOrdered, Present
  <2>2. tail = <<>>
    BY <1>1, <2>1
  <2>3. CASE o.room = NoVisitor
    <3>1. u = [recent EXCEPT !.queue = tail, !.saved = [user |-> o.user, ids |-> now], !.failed = failed]
      BY <1>5, <1>9, <2>3
    <3> HIDE DEF u
    <3>2. /\ RecentFields \subseteq DOMAIN u /\ u.user = recent.user /\ u.room = recent.room /\ u.effect = recent.effect
          /\ u.queue = <<>> /\ u.saved = [user |-> o.user, ids |-> now] /\ u.stored = recent.stored /\ u.visited = recent.visited
          /\ u.failed = failed
      BY <1>3, <2>2, <3>1 DEF RecentFields
    <3>3. QueueOrdered(u) /\ ShownFirst(u)
      <4>0. /\ u.queue = <<>>
            /\ u.room = NoVisitor
        BY <2>1, <2>3, <3>2
      <4>1. u.queue = <<>> /\ u.room = NoVisitor /\ u.saved.user = u.user
        <5>1. u.saved = [user |-> o.user, ids |-> now]
          BY <3>2, Zenon
        <5>2. u.saved.user = o.user
          BY <5>1
        <5>3. u.user = o.user
          BY <2>1, <3>2, Zenon
        <5>4. QED BY <4>0, <5>2, <5>3, Zenon
      <4>2. DOMAIN <<>> = {}
        OBVIOUS
      <4>3. DOMAIN u.queue = {}
        BY <4>1, <4>2
      <4>4. QED BY <4>1, <4>3 DEF QueueOrdered, ShownFirst
    <3>4. ~u.failed => KeptWhole(u)
      <4>1. ~u.failed => now = recent.stored[o.user] /\ ~recent.failed
        BY <2>3, <3>2 DEF now, o
      <4>2. QED BY <1>2, <1>6, <2>1, <3>2, <4>1 DEF KeptWhole, Stores
    <3>5. RecentTyped'
      <4>1. u.saved \in [user : Visitors \cup {NoVisitor}, ids : Seq(ListedRooms)] /\ u.queue \in Seq(Recalling \cup Writing)
        BY <1>2, <1>4, <3>2
      <4>2. QED BY <1>3, <3>2, <4>1 DEF u, RecentTyped
    <3>6. QED BY <3>3, <3>4, <3>5 DEF u, RecentInv, QueueOrdered, ShownFirst, KeptWhole, Recollects, Present, Stores
  <2>4. CASE o.room # NoVisitor
    <3> DEFINE visited == [recent.visited EXCEPT ![o.user] = InFront(o.room, @)]
    <3>1. u = [recent EXCEPT !.queue = <<write>>, !.saved = [user |-> o.user, ids |-> now], !.visited = visited, !.failed = failed]
      <4>1. Append(tail, write) = <<write>>
        BY <2>2
      <4>2. [shows EXCEPT !.visited[o.user] = InFront(o.room, @), !.queue = Append(@, write)]
            = [recent EXCEPT !.queue = <<write>>, !.saved = [user |-> o.user, ids |-> now], !.visited = visited]
        BY <1>3, <4>1 DEF RecentFields
      <4> HIDE DEF visited, shows, rest
      <4>3. QED BY <1>5, <1>9, <2>4, <4>2
    <3>2. /\ visited \in [Visitors -> Seq(ListedRooms)]
          /\ \A v \in Visitors : visited[v] = IF v = o.user THEN InFront(o.room, recent.visited[v]) ELSE recent.visited[v]
      <4>1. recent.visited \in [Visitors -> Seq(ListedRooms)]
        BY <1>3 DEF RecentTyped
      <4>2. InFront(o.room, recent.visited[o.user]) \in Seq(ListedRooms)
        BY <1>2, <2>4, <4>1, InFrontFacts
      <4>3. QED BY <1>2, <4>1, <4>2
    <3>3. write \in Writing /\ write.do = "write" /\ write.user = o.user /\ write.ids = now
      BY <1>2, <1>4 DEF Writing, write
    <3> HIDE DEF u, visited
    <3>4. /\ RecentFields \subseteq DOMAIN u /\ u.user = recent.user /\ u.room = recent.room /\ u.effect = recent.effect
          /\ u.queue = <<write>> /\ u.saved = [user |-> o.user, ids |-> now] /\ u.stored = recent.stored /\ u.visited = visited
          /\ u.failed = failed
      BY <1>3, <3>1 DEF RecentFields
    <3>5. DOMAIN u.queue = {1} /\ u.queue[1] = write /\ u.queue # <<>> /\ Head(u.queue) = write
      BY <3>4
    <3>6. QueueOrdered(u) /\ ShownFirst(u)
      BY <1>4, <2>1, <2>4, <3>3, <3>4, <3>5 DEF QueueOrdered, ShownFirst, Present
    <3>7. ~u.failed => KeptWhole(u)
      <4>1. ~u.failed => now = InFront(o.room, recent.visited[o.user]) /\ ~recent.failed
        BY <1>2, <1>4, <1>6, <2>4, <3>4 DEF o
      <4>2. ASSUME ~u.failed, NEW v \in Visitors PROVE visited[v] = Stores(u, v)
        <5>1. CASE v = o.user
          <6>1. Stores(u, v) = now
            BY <3>3, <3>5, <5>1 DEF Stores
          <6>2. visited[v] = now
            BY <3>2, <4>1, <4>2, <5>1
          <6>3. QED BY <6>1, <6>2
        <5>2. CASE v # o.user
          <6>1. Stores(u, v) = recent.stored[v]
            BY <3>3, <3>4, <3>5, <5>2 DEF Stores
          <6>2. QED BY <1>6, <3>2, <4>1, <4>2, <5>2, <6>1
        <5>3. QED BY <5>1, <5>2
      <4>3. ~u.failed => now = visited[recent.user]
        BY <1>2, <2>1, <3>2, <4>1
      <4>4. QED BY <3>4, <4>2, <4>3 DEF KeptWhole
    <3>8. RecentTyped'
      <4>1. u.saved \in [user : Visitors \cup {NoVisitor}, ids : Seq(ListedRooms)] /\ u.queue \in Seq(Recalling \cup Writing)
        BY <1>2, <1>4, <3>3, <3>4
      <4>2. QED BY <1>3, <3>2, <3>4, <4>1 DEF u, RecentTyped
    <3>9. QED BY <3>6, <3>7, <3>8 DEF u, RecentInv, QueueOrdered, ShownFirst, KeptWhole, Recollects, Present, Stores
  <2>5. QED BY <2>3, <2>4
<1>10. QED BY <1>8, <1>9

LEMMA WrittenKeeps ==
    ASSUME RecentInv, recent.queue # <<>>, Head(recent.queue).do = "write", NEW records, NEW failed, recent.failed => failed,
           records \in [Visitors -> Seq(ListedRooms)],
           ~failed => records = [recent.stored EXCEPT ![Head(recent.queue).user] = Head(recent.queue).ids],
           recent' = [recent EXCEPT !.queue = Tail(@), !.stored = records, !.failed = failed]
    PROVE  RecentInv'
<1> DEFINE o == Head(recent.queue)
           tail == Tail(recent.queue)
           u == recent'
<1>1. /\ o \in Recalling \cup Writing /\ o = recent.queue[1] /\ 1 \in DOMAIN recent.queue
      /\ tail \in Seq(Recalling \cup Writing) /\ DOMAIN tail = 1 .. Len(tail) /\ Len(tail) \in Nat
      /\ Len(recent.queue) = Len(tail) + 1
      /\ \A i \in DOMAIN tail : i + 1 \in DOMAIN recent.queue /\ tail[i] = recent.queue[i + 1] /\ tail[i].do = "read"
      /\ \A i \in DOMAIN recent.queue : i = 1 \/ (i - 1 \in DOMAIN tail /\ tail[i - 1] = recent.queue[i])
  BY QueueTail
<1>2. o.user \in Visitors /\ o.do = "write"
  BY <1>1 DEF Recalling, Writing
<1>3. /\ RecentTyped /\ QueueOrdered(recent) /\ ShownFirst(recent) /\ (~recent.failed => KeptWhole(recent))
      /\ RecentFields \subseteq DOMAIN recent /\ recent.stored \in [Visitors -> Seq(ListedRooms)]
  BY DEF RecentInv, RecentTyped
<1>4. ~recent.failed => \A v \in Visitors : recent.visited[v] = IF v = o.user THEN o.ids ELSE recent.stored[v]
  BY <1>2, <1>3 DEF KeptWhole, Stores
<1>5. u = [recent EXCEPT !.queue = tail, !.stored = records, !.failed = failed]
  OBVIOUS
<1>6. ~failed => \A v \in Visitors : records[v] = IF v = o.user THEN o.ids ELSE recent.stored[v]
  BY <1>2, <1>3
<1> HIDE DEF o, tail, u
<1>7. \A i \in DOMAIN tail : /\ tail[i].do # "write" /\ tail[i].effect <= recent.effect
                             /\ Present(recent, tail[i]) => i = Len(tail) /\ tail[i].user = recent.user /\ tail[i].room = recent.room
  <2> SUFFICES ASSUME NEW i \in DOMAIN tail
               PROVE  /\ tail[i].do # "write" /\ tail[i].effect <= recent.effect
                      /\ Present(recent, tail[i]) => i = Len(tail) /\ tail[i].user = recent.user /\ tail[i].room = recent.room
    OBVIOUS
  <2>1. i + 1 \in DOMAIN recent.queue /\ tail[i] = recent.queue[i + 1] /\ tail[i].do = "read" /\ i \in Nat
    BY <1>1
  <2>2. /\ tail[i].effect <= recent.effect
        /\ Present(recent, tail[i]) => i + 1 = Len(recent.queue) /\ tail[i].user = recent.user /\ tail[i].room = recent.room
    BY <1>3, <2>1 DEF QueueOrdered
  <2>3. i + 1 = Len(recent.queue) => i = Len(tail)
    BY <1>1, <2>1
  <2>4. QED BY <2>1, <2>2, <2>3
<1>8. /\ RecentFields \subseteq DOMAIN u /\ u.user = recent.user /\ u.room = recent.room /\ u.effect = recent.effect
      /\ u.queue = tail /\ u.saved = recent.saved /\ u.stored = records /\ u.visited = recent.visited /\ u.failed = failed
  BY <1>3, <1>5 DEF RecentFields
<1>9. Recollects(u) <=> Recollects(recent)
  <2>1. ~Present(recent, recent.queue[1])
    BY <1>1, <1>2 DEF Present
  <2>2. QED BY <1>1, <1>8, <2>1 DEF Recollects, Present
<1>10. QueueOrdered(u)
  BY <1>7, <1>8 DEF QueueOrdered, Present
<1>11. ShownFirst(u)
  BY <1>3, <1>8, <1>9 DEF ShownFirst
<1>12. ~u.failed => KeptWhole(u)
  <2>1. tail # <<>> => Head(tail).do # "write"
    BY <1>1, <1>7
  <2>2. \A v : Stores(u, v) = records[v]
    BY <1>8, <2>1 DEF Stores
  <2>3. QED BY <1>3, <1>4, <1>6, <1>8, <1>9, <2>2 DEF KeptWhole
<1>13. RecentTyped'
  BY <1>1, <1>3, <1>8 DEF u, RecentTyped
<1>14. QED BY <1>10, <1>11, <1>12, <1>13 DEF u, RecentInv, QueueOrdered, ShownFirst, KeptWhole, Recollects, Present, Stores

LEMMA RecentStep == RecentInv /\ [RecentNext]_recent => RecentInv'
<1> SUFFICES ASSUME RecentInv, [RecentNext]_recent PROVE RecentInv'
  OBVIOUS
<1>0. RecentTyped /\ RecentFields \subseteq DOMAIN recent
  BY DEF RecentInv, RecentTyped
<1>1. CASE UNCHANGED recent
  BY <1>1 DEF RecentInv, RecentTyped, QueueOrdered, ShownFirst, KeptWhole, Recollects, Present, Stores
<1>2. CASE VisitorOut \/ (\E user \in Visitors : VisitorIn(user)) \/ \E room \in ListedRooms \cup {NoVisitor} : VisitRoom(room)
  <2>1. PICK user \in Visitors \cup {NoVisitor}, room \in ListedRooms \cup {NoVisitor} : recent' = Visiting(user, room)
    <3>1. recent.user \in Visitors \cup {NoVisitor}
      BY <1>0 DEF RecentTyped
    <3>2. QED BY <1>2, <3>1 DEF VisitorOut, VisitorIn, VisitRoom, Recalls
  <2>2. QED BY <2>1, VisitingKeeps
<1> DEFINE o == Head(recent.queue)
<1>3. CASE recent.queue # <<>> /\ o.do = "read"
  <2>0. o.user \in Visitors /\ recent.stored[o.user] \in Seq(ListedRooms)
    <3>1. o \in Recalling \cup Writing
      BY <1>3, QueueTail
    <3>2. o.user \in Visitors
      BY <3>1 DEF Recalling, Writing
    <3>3. QED BY <1>0, <3>2 DEF RecentTyped
  <2>1. CASE StorageServes
    <3> DEFINE ids == recent.stored[o.user]
               failed == recent.failed
    <3>1. recent' = Recalled(o, ids)
      BY <1>3, <2>1 DEF StorageServes, Recalls
    <3>2. Recalled(o, ids) = [Recalled(o, ids) EXCEPT !.failed = failed]
      BY <1>0 DEF Recalled, RecentFields
    <3>3. recent' = [Recalled(Head(recent.queue), ids) EXCEPT !.failed = failed]
      BY <3>1, <3>2
    <3>4. ids \in Seq(ListedRooms) /\ ids = recent.stored[Head(recent.queue).user] /\ (recent.failed => failed)
      BY <2>0
    <3> HIDE DEF ids, failed
    <3>5. QED BY <1>3, <3>3, <3>4, RecalledKeeps
  <2>2. CASE StorageFails
    <3> DEFINE ids == <<>>
               failed == TRUE
    <3>1. recent' = [Recalled(Head(recent.queue), ids) EXCEPT !.failed = failed] /\ ~recent.failed
      BY <1>3, <2>2 DEF StorageFails, Recalls
    <3>2. ids \in Seq(ListedRooms) /\ failed
      OBVIOUS
    <3> HIDE DEF ids, failed
    <3>3. QED BY <1>3, <3>1, <3>2, RecalledKeeps
  <2>3. CASE ~StorageServes /\ ~StorageFails
    BY <1>1, <1>2, <2>3 DEF RecentNext
  <2>4. QED BY <2>1, <2>2, <2>3
<1>4. CASE recent.queue # <<>> /\ o.do # "read"
  <2>0. o.do = "write" /\ o.user \in Visitors /\ o.ids \in Seq(ListedRooms) /\ recent.stored \in [Visitors -> Seq(ListedRooms)]
    <3>1. o \in Recalling \cup Writing
      BY <1>4, QueueTail
    <3>2. QED BY <1>0, <1>4, <3>1 DEF Recalling, Writing, RecentTyped
  <2>1. CASE StorageServes
    <3> DEFINE records == [recent.stored EXCEPT ![o.user] = o.ids]
               failed == recent.failed
    <3>1. recent' = [recent EXCEPT !.queue = Tail(@), !.stored = records, !.failed = failed]
      BY <1>0, <1>4, <2>1 DEF StorageServes, Recalls, RecentFields
    <3>2. /\ records \in [Visitors -> Seq(ListedRooms)] /\ (recent.failed => failed)
          /\ records = [recent.stored EXCEPT ![Head(recent.queue).user] = Head(recent.queue).ids]
      BY <2>0
    <3> HIDE DEF records, failed
    <3>3. QED BY <1>4, <2>0, <3>1, <3>2, WrittenKeeps
  <2>2. CASE StorageFails
    <3> DEFINE records == recent.stored
               failed == TRUE
    <3>1. recent' = [recent EXCEPT !.queue = Tail(@), !.stored = records, !.failed = failed]
      BY <1>0, <1>4, <2>2 DEF StorageFails, Recalls, RecentFields
    <3>2. records \in [Visitors -> Seq(ListedRooms)] /\ (recent.failed => failed) /\ failed
      BY <2>0
    <3> HIDE DEF records, failed
    <3>3. QED BY <1>4, <2>0, <3>1, <3>2, WrittenKeeps
  <2>3. CASE ~StorageServes /\ ~StorageFails
    BY <1>1, <1>2, <2>3 DEF RecentNext
  <2>4. QED BY <2>1, <2>2, <2>3
<1>5. CASE recent.queue = <<>>
  BY <1>1, <1>2, <1>5 DEF RecentNext, StorageServes, StorageFails
<1>6. QED BY <1>3, <1>4, <1>5

LEMMA RecentIsKept == RecentInv => RecentKept
<1> SUFFICES ASSUME RecentInv, recent.queue = <<>>
             PROVE  /\ recent.user # NoVisitor /\ recent.room # NoVisitor => RecentIds # <<>> /\ RecentIds[1] = recent.room
                    /\ ~recent.failed => /\ recent.stored = recent.visited
                                         /\ recent.user # NoVisitor => RecentIds = recent.visited[recent.user]
  BY DEF RecentKept
<1>1. ~Recollects(recent) /\ \A u \in Visitors : Stores(recent, u) = recent.stored[u]
  BY DEF Recollects, Stores
<1>2. recent.user # NoVisitor => RecentIds = recent.saved.ids /\ (recent.room # NoVisitor => RecentIds # <<>> /\ RecentIds[1] = recent.room)
  BY <1>1 DEF RecentInv, ShownFirst, RecentIds
<1>3. ~recent.failed => /\ \A u \in Visitors : recent.visited[u] = recent.stored[u]
                        /\ recent.user # NoVisitor => recent.saved.ids = recent.visited[recent.user]
  BY <1>1 DEF RecentInv, KeptWhole
<1>4. recent.stored \in [Visitors -> Seq(ListedRooms)] /\ recent.visited \in [Visitors -> Seq(ListedRooms)]
  BY DEF RecentInv, RecentTyped
<1>5. ~recent.failed => recent.stored = recent.visited
  BY <1>3, <1>4
<1>6. QED BY <1>2, <1>3, <1>5

LEMMA TablesAreCurrent == TablesInv => TablesCurrent
BY DEF TablesInv, TablesCurrent, Fetches, TellsRefresh

-------------------------------------------------------------------------------
(* The table of a Call Break match *)

HostFields == {"deal", "phase", "turn", "trick", "plays", "acted", "hand", "revision"}
DrawerFields == {"open", "entered", "deal", "pending", "closed"}
PlayFields == {"name", "card", "phase"}
Shaped(h) ==
    /\ HostFields \subseteq DOMAIN h /\ h.deal \in Nat \ {0} /\ h.trick \in Nat /\ h.revision \in Nat
\* The match is past the turn of a prompt: another trick, another deal, or others after the player.
Past(e, h) ==
    /\ e[2] = "PLAYING" /\ e[1] \in Nat /\ e[4] \in Nat
    /\ e[1] <= h.deal
    /\ e[1] = h.deal => \/ h.phase = "DEAL_COMPLETE"
                        \/ h.phase = "PLAYING" /\ (e[4] < h.trick \/ (e[4] = h.trick /\ h.acted /\ h.turn # "me"))
Settled == CommandBusy /\ command.phase = "done"
\* A hand that is neither open nor closed by hand has been played from.
DrawerFits(d, s) ==
    /\ DrawerFields \subseteq DOMAIN d /\ d.deal = s.deal
    /\ d.entered # NoPrompt /\ ~d.open /\ ~d.closed => Past(d.entered, host) /\ Past(d.entered, s)
NotYet == drawer.deal = 0 /\ drawer.pending = NoPlay /\ DrawerFields \subseteq DOMAIN drawer /\ seen.hand = {} /\ ~drawer.open
          /\ drawer.entered = NoPrompt
\* The card that is waited for was played in the turn on the screen; once the match has it, the match
\* is past that turn, and the card is not in the hand of that deal.
Awaited ==
    drawer.pending # NoPlay =>
        /\ CommandBusy /\ command.name = "PLAY_CARD" /\ command.card = drawer.pending.card
        /\ drawer.pending.revision = seen.revision /\ drawer.deal = seen.deal
        /\ seen.phase = "PLAYING" /\ seen.turn = "me" /\ drawer.entered = Prompt(seen) /\ Prompt(seen) # NoPrompt
        /\ Settled => /\ drawer.pending.revision < host.revision /\ Past(drawer.entered, host)
                      /\ host.deal = seen.deal => drawer.pending.card \notin host.hand
\* While it is the player's turn to play, nobody moves the match.
Still == seen.phase = "PLAYING" /\ seen.turn = "me" /\ ~Settled => host = seen
CallBreakInv ==
    /\ Shaped(host) /\ Shaped(seen) /\ (CommandBusy => PlayFields \subseteq DOMAIN command)
    /\ DrawerFits(drawer, seen) \/ NotYet
    /\ Awaited /\ Still /\ HandOpensForTurn

LEMMA PromptFacts ==
    ASSUME NEW s
    PROVE  /\ Prompt(s) # NoPrompt => /\ Prompt(s)[1] = s.deal /\ Prompt(s)[2] = s.phase /\ Prompt(s)[4] = s.trick
                                      /\ s.phase = "PLAYING" => s.turn = "me"
           /\ HandAvailable(s) /\ MyTurn(s) => Prompt(s) # NoPrompt
<1> DEFINE myTurn == s.turn = "me"
           p == <<s.deal, s.phase, myTurn, s.trick>>
<1>1. Prompt(s) = IF HandAvailable(s) /\ (MyTurn(s) \/ CanReview(s)) THEN p ELSE NoPrompt
  BY DEF Prompt, MyTurn
<1> HIDE DEF myTurn
<1>2. p[1] = s.deal /\ p[2] = s.phase /\ p[4] = s.trick /\ 1 \in DOMAIN p
  OBVIOUS
<1>3. p # NoPrompt
  <2>1. 1 \notin DOMAIN NoPrompt
    BY DEF NoPrompt
  <2>2. QED BY <1>2, <2>1
<1> HIDE DEF p
<1>4. QED BY <1>1, <1>2, <1>3 DEF MyTurn, CanReview

LEMMA PastPrompt == ASSUME NEW s, NEW e, Past(e, s), Prompt(s) # NoPrompt, Shaped(s) PROVE Prompt(s) # e
BY PromptFacts DEF Past, Shaped

\* ---- The match moves on
LEMMA TurnedFacts ==
    ASSUME NEW h, Shaped(h), NEW turn
    PROVE  LET n == Turned(h, turn)
           IN  /\ Shaped(n) /\ n.turn = turn /\ n.revision = h.revision + 1 /\ n.deal = h.deal /\ n.phase = h.phase
               /\ n.trick = h.trick /\ n.acted = h.acted /\ n.hand = h.hand
<1> DEFINE n == Turned(h, turn)
<1>1. n = [h EXCEPT !.turn = turn, !.revision = h.revision + 1]
  BY DEF Turned
<1> HIDE DEF n
<1>2. /\ DOMAIN n = DOMAIN h /\ n.turn = turn /\ n.revision = h.revision + 1 /\ n.deal = h.deal /\ n.phase = h.phase
      /\ n.trick = h.trick /\ n.acted = h.acted /\ n.hand = h.hand
  BY <1>1 DEF Shaped, HostFields
<1>3. Shaped(n)
  BY <1>2 DEF Shaped
<1>4. QED BY <1>2, <1>3 DEF n

LEMMA BeginsFacts ==
    ASSUME NEW h, Shaped(h), NEW phase, NEW n \in Begins(h, phase)
    PROVE  /\ Shaped(n) /\ n.revision = h.revision + 1 /\ n.deal = h.deal /\ n.phase = phase
           /\ n.trick = h.trick /\ n.hand = h.hand
<1> DEFINE no == FALSE
           m == [h EXCEPT !.phase = phase, !.acted = no]
<1>1. PICK turn : n = Turned(m, turn)
  BY DEF Begins
<1> HIDE DEF no
<1>2. /\ DOMAIN m = DOMAIN h /\ m.revision = h.revision /\ m.deal = h.deal /\ m.phase = phase
      /\ m.trick = h.trick /\ m.hand = h.hand
  BY DEF Shaped, HostFields
<1> HIDE DEF m
<1>3. Shaped(m)
  BY <1>2 DEF Shaped
<1>4. QED BY <1>1, <1>2, <1>3, TurnedFacts

LEMMA NewDealFacts ==
    ASSUME NEW h, Shaped(h)
    PROVE  LET n == NewDeal(h) IN Shaped(n) /\ n.revision = h.revision /\ n.deal = h.deal + 1
<1> DEFINE no == FALSE
           n == NewDeal(h)
<1>1. n = [h EXCEPT !.deal = h.deal + 1, !.hand = {}, !.trick = 0, !.plays = no]
  BY DEF NewDeal
<1> HIDE DEF no, n
<1>2. DOMAIN n = DOMAIN h /\ n.revision = h.revision /\ n.deal = h.deal + 1 /\ n.trick = 0
  BY <1>1 DEF Shaped, HostFields
<1>3. Shaped(n) /\ n.revision = h.revision /\ n.deal = h.deal + 1
  BY <1>2 DEF Shaped
<1>4. QED BY <1>3 DEF n

\* Everybody has one turn.
LEMMA GoesFacts ==
    ASSUME NEW h, Shaped(h), NEW over, NEW n \in Goes(h, over)
    PROVE  \/ n \in over
           \/ /\ Shaped(n) /\ n.revision = h.revision + 1 /\ n.deal = h.deal /\ n.phase = h.phase /\ n.trick = h.trick
              /\ n.hand = h.hand
              /\ \/ h.turn = "me" /\ n.turn = "other" /\ n.acted
                 \/ h.turn # "me" /\ ~h.acted /\ n.turn = "me"
<1> DEFINE yes == TRUE
           m == [h EXCEPT !.acted = yes]
<1>1. \/ n \in over
      \/ h.turn = "me" /\ n = Turned(m, "other")
      \/ h.turn # "me" /\ ~h.acted /\ n = Turned(h, "me")
  BY Zenon DEF Goes
<1>2. yes
  OBVIOUS
<1> HIDE DEF yes
<1>3. /\ DOMAIN m = DOMAIN h /\ m.revision = h.revision /\ m.deal = h.deal /\ m.phase = h.phase
      /\ m.trick = h.trick /\ m.hand = h.hand /\ m.acted = yes
  BY DEF Shaped, HostFields
<1> HIDE DEF m
<1>4. Shaped(m)
  BY <1>3 DEF Shaped
<1>5. CASE h.turn = "me" /\ n = Turned(m, "other")
  <2>1. /\ Shaped(n) /\ n.turn = "other" /\ n.revision = m.revision + 1 /\ n.deal = m.deal /\ n.phase = m.phase
        /\ n.trick = m.trick /\ n.acted = m.acted /\ n.hand = m.hand
    BY <1>4, <1>5, TurnedFacts
  <2>2. n.acted
    BY <1>2, <1>3, <2>1, Zenon
  <2>3. QED BY <1>3, <1>5, <2>1, <2>2
<1>6. CASE h.turn # "me" /\ ~h.acted /\ n = Turned(h, "me")
  BY <1>6, TurnedFacts
<1>7. QED BY <1>1, <1>5, <1>6

LEMMA PlayedFacts ==
    ASSUME NEW h, Shaped(h), h.phase = "PLAYING", NEW card, NEW n \in Played(h, card)
    PROVE  /\ Shaped(n) /\ h.revision < n.revision /\ n.deal = h.deal /\ n.hand = h.hand \ {card}
           /\ \/ n.phase = "DEAL_COMPLETE"
              \/ n.phase = "PLAYING" /\ n.trick = h.trick + 1
              \/ /\ n.phase = "PLAYING" /\ n.trick = h.trick
                 /\ \/ h.turn = "me" /\ n.turn = "other" /\ n.acted
                    \/ h.turn # "me" /\ ~h.acted /\ n.turn = "me"
<1> DEFINE no == FALSE
           yes == TRUE
           now == [h EXCEPT !.hand = h.hand \ {card}]
           won == [now EXCEPT !.plays = no, !.trick = now.trick + 1]
           next(m) == IF m.trick = h.trick THEN [m EXCEPT !.plays = yes] ELSE m
<1>1. PICK m \in Goes(now, Begins(won, IF won.hand = {} THEN "DEAL_COMPLETE" ELSE "PLAYING")) : n = next(m)
  BY Zenon DEF Played
<1> HIDE DEF no, yes
<1>2. /\ DOMAIN now = DOMAIN h /\ now.revision = h.revision /\ now.deal = h.deal /\ now.phase = h.phase
      /\ now.trick = h.trick /\ now.hand = h.hand \ {card} /\ now.acted = h.acted /\ now.turn = h.turn
  BY DEF Shaped, HostFields
<1> HIDE DEF now
<1>3. /\ DOMAIN won = DOMAIN now /\ won.revision = now.revision /\ won.deal = now.deal
      /\ won.trick = now.trick + 1 /\ won.hand = now.hand
  BY <1>2 DEF Shaped, HostFields
<1> HIDE DEF won
<1>4. Shaped(now) /\ Shaped(won)
  BY <1>2, <1>3 DEF Shaped
<1>5. /\ Shaped(m) /\ h.revision < m.revision /\ m.deal = h.deal /\ m.hand = h.hand \ {card}
      /\ \/ m.phase = "DEAL_COMPLETE"
         \/ m.phase = "PLAYING" /\ m.trick = h.trick + 1
         \/ /\ m.phase = "PLAYING" /\ m.trick = h.trick
            /\ \/ h.turn = "me" /\ m.turn = "other" /\ m.acted
               \/ h.turn # "me" /\ ~h.acted /\ m.turn = "me"
  <2>0. h.revision \in Nat
    BY DEF Shaped
  <2>1. CASE m \in Begins(won, IF won.hand = {} THEN "DEAL_COMPLETE" ELSE "PLAYING")
    <3>1. PICK phase \in {"DEAL_COMPLETE", "PLAYING"} : m \in Begins(won, phase)
      BY <2>1
    <3>2. Shaped(m) /\ m.revision = won.revision + 1 /\ m.deal = won.deal /\ m.phase = phase /\ m.trick = won.trick /\ m.hand = won.hand
      BY <1>4, <3>1, BeginsFacts
    <3>3. QED BY <1>2, <1>3, <2>0, <3>1, <3>2
  <2>2. CASE m \notin Begins(won, IF won.hand = {} THEN "DEAL_COMPLETE" ELSE "PLAYING")
    <3>1. /\ Shaped(m) /\ m.revision = now.revision + 1 /\ m.deal = now.deal /\ m.phase = now.phase /\ m.trick = now.trick
          /\ m.hand = now.hand
          /\ \/ now.turn = "me" /\ m.turn = "other" /\ m.acted
             \/ now.turn # "me" /\ ~now.acted /\ m.turn = "me"
      BY <1>1, <1>4, <2>2, GoesFacts
    <3>2. QED BY <1>2, <2>0, <3>1
  <2>3. QED BY <2>1, <2>2
<1>6. /\ DOMAIN n = DOMAIN m /\ n.revision = m.revision /\ n.deal = m.deal /\ n.phase = m.phase
      /\ n.trick = m.trick /\ n.hand = m.hand /\ n.acted = m.acted /\ n.turn = m.turn
  BY <1>1, <1>5 DEF Shaped, HostFields
<1>7. Shaped(n)
  BY <1>5, <1>6 DEF Shaped
<1>8. QED BY <1>5, <1>6, <1>7

\* What a legal move does, as far as it matters here.
LEMMA LegalFacts ==
    ASSUME NEW h, Shaped(h), NEW name, NEW card, NEW n \in Legal(h, name, card)
    PROVE  /\ Shaped(n) /\ h.revision < n.revision /\ h.deal <= n.deal
           /\ h.phase = "DEAL_COMPLETE" => h.deal < n.deal
           /\ h.phase = "PLAYING" => name = "PLAY_CARD" /\ n \in Played(h, card)
<1> DEFINE dealt == [h EXCEPT !.phase = "HAND_REVIEW", !.hand = Cards]
<1>0. h.revision \in Nat /\ h.deal \in Nat
  BY DEF Shaped
<1>1. \/ name = "SHUFFLE_DECK" /\ h.phase = "AWAITING_SHUFFLE" /\ n \in Begins(h, "AWAITING_CUT")
      \/ name = "CUT_DECK" /\ h.phase = "AWAITING_CUT" /\ n \in Begins(h, "AWAITING_DISTRIBUTION")
      \/ name = "START_DISTRIBUTION" /\ h.phase = "AWAITING_DISTRIBUTION" /\ n = Turned(dealt, "nobody")
      \/ name = "ACCEPT_HAND" /\ h.phase = "HAND_REVIEW" /\ n \in Begins(h, "BIDDING")
      \/ name = "NEXT_DEAL" /\ h.phase = "DEAL_COMPLETE" /\ n \in Begins(NewDeal(h), "AWAITING_SHUFFLE")
      \/ name = "CLAIM_REDEAL" /\ h.phase = "HAND_REVIEW" /\ n \in Begins(NewDeal(h), "AWAITING_SHUFFLE")
      \/ name = "PLACE_BID" /\ h.phase = "BIDDING" /\ (n \in Begins(h, "PLAYING") \/ n \in Goes(h, Begins(h, "PLAYING")))
      \/ name = "PLAY_CARD" /\ h.phase = "PLAYING" /\ n \in Played(h, card)
  BY DEF Legal
<1>2. CASE \E phase : n \in Begins(h, phase) /\ h.phase \notin {"DEAL_COMPLETE", "PLAYING"}
  BY <1>0, <1>2, BeginsFacts
<1>3. CASE n = Turned(dealt, "nobody") /\ h.phase = "AWAITING_DISTRIBUTION"
  <2>1. DOMAIN dealt = DOMAIN h /\ dealt.revision = h.revision /\ dealt.deal = h.deal /\ dealt.trick = h.trick
    BY DEF Shaped, HostFields
  <2> HIDE DEF dealt
  <2>2. Shaped(dealt)
    BY <2>1 DEF Shaped
  <2>3. QED BY <1>0, <1>3, <2>1, <2>2, TurnedFacts
<1>4. CASE n \in Begins(NewDeal(h), "AWAITING_SHUFFLE") /\ h.phase # "PLAYING"
  <2>1. Shaped(NewDeal(h)) /\ NewDeal(h).revision = h.revision /\ NewDeal(h).deal = h.deal + 1
    BY NewDealFacts
  <2>2. Shaped(n) /\ n.revision = NewDeal(h).revision + 1 /\ n.deal = NewDeal(h).deal
    BY <1>4, <2>1, BeginsFacts
  <2>3. QED BY <1>0, <1>4, <2>1, <2>2
<1>5. CASE n \in Goes(h, Begins(h, "PLAYING")) /\ h.phase = "BIDDING"
  BY <1>0, <1>2, <1>5, GoesFacts
<1>6. CASE h.phase = "PLAYING" /\ name = "PLAY_CARD" /\ n \in Played(h, card)
  <2>1. Shaped(n) /\ h.revision < n.revision /\ n.deal = h.deal
    BY <1>6, PlayedFacts
  <2>2. QED BY <1>0, <1>6, <2>1
<1>7. QED BY <1>1, <1>2, <1>3, <1>4, <1>5, <1>6

LEMMA StaysPast ==
    ASSUME NEW h, Shaped(h), NEW name, NEW card, NEW n \in Legal(h, name, card), NEW e, Past(e, h)
    PROVE  Past(e, n) /\ (n.deal = e[1] => n.hand \subseteq h.hand)
<1>1. /\ Shaped(n) /\ h.deal <= n.deal /\ (h.phase = "DEAL_COMPLETE" => h.deal < n.deal)
      /\ h.deal \in Nat /\ n.deal \in Nat /\ h.trick \in Nat /\ n.trick \in Nat /\ e[1] \in Nat /\ e[4] \in Nat
  BY LegalFacts DEF Shaped, Past
<1>2. CASE h.phase = "PLAYING" /\ e[1] = h.deal
  <2>1. /\ n.deal = h.deal /\ n.hand = h.hand \ {card}
        /\ \/ n.phase = "DEAL_COMPLETE"
           \/ n.phase = "PLAYING" /\ n.trick = h.trick + 1
           \/ /\ n.phase = "PLAYING" /\ n.trick = h.trick
              /\ \/ h.turn = "me" /\ n.turn = "other" /\ n.acted
                 \/ h.turn # "me" /\ ~h.acted /\ n.turn = "me"
    BY <1>2, LegalFacts, PlayedFacts
  <2>2. e[4] < h.trick \/ (e[4] = h.trick /\ h.acted /\ h.turn # "me")
    BY <1>2 DEF Past
  <2>3. QED BY <1>1, <1>2, <2>1, <2>2 DEF Past
<1>3. CASE h.phase = "DEAL_COMPLETE" \/ e[1] < h.deal
  BY <1>1, <1>3 DEF Past
<1>4. QED BY <1>1, <1>2, <1>3 DEF Past

\* ---- What an update of the screen makes of the drawer
LEMMA EmptyFits == ASSUME NEW s PROVE LET d == EmptyDrawer(s.deal) IN DrawerFits(d, s) /\ d.pending = NoPlay
<1> DEFINE no == FALSE
           d == EmptyDrawer(s.deal)
<1>1. d = [open |-> no, entered |-> NoPrompt, deal |-> s.deal, pending |-> NoPlay, closed |-> no]
  BY DEF EmptyDrawer
<1> HIDE DEF no, d
<1>2. DOMAIN d = DrawerFields /\ d.deal = s.deal /\ d.entered = NoPrompt /\ d.pending = NoPlay
  BY <1>1 DEF DrawerFields
<1>3. DrawerFits(d, s) /\ d.pending = NoPlay
  BY <1>2 DEF DrawerFits
<1>4. QED BY <1>3 DEF d

LEMMA PromptedFits ==
    ASSUME NEW s, NEW d, DrawerFits(d, s), NEW turn, turn # NoPrompt => turn = Prompt(s) /\ d.pending = NoPlay, Shaped(s)
    PROVE  LET u == PromptEntered(d, turn)
           IN  /\ DrawerFits(u, s) /\ u.pending = d.pending
               /\ turn # NoPrompt => u.entered = turn /\ (u.open \/ u.closed)
               /\ turn = NoPrompt => u = d
<1> DEFINE yes == TRUE
           no == FALSE
           u == PromptEntered(d, turn)
<1>0. yes
  OBVIOUS
<1>1. IF turn # NoPrompt /\ turn # d.entered /\ d.pending = NoPlay
      THEN u = [d EXCEPT !.open = yes, !.entered = turn, !.closed = no] ELSE u = d
  BY DEF PromptEntered
<1> HIDE DEF yes, no, u
<1>2. CASE turn # NoPrompt /\ turn # d.entered /\ d.pending = NoPlay
  <2>1. /\ DOMAIN u = DOMAIN d /\ u.open = yes /\ u.entered = turn /\ u.deal = d.deal /\ u.pending = d.pending
    BY <1>1, <1>2 DEF DrawerFits, DrawerFields
  <2>2. u.open
    BY <1>0, <2>1, Zenon
  <2>3. DrawerFits(u, s)
    BY <2>1, <2>2 DEF DrawerFits
  <2>4. QED BY <1>2, <2>1, <2>2, <2>3 DEF u
<1>3. CASE turn = NoPrompt
  BY <1>1, <1>3 DEF u
<1>4. CASE turn # NoPrompt /\ turn = d.entered
  <2>1. u = d
    BY <1>1, <1>4
  <2>2. d.open \/ d.closed
    BY <1>4, PastPrompt DEF DrawerFits
  <2>3. QED BY <1>4, <2>1, <2>2 DEF u
<1>5. QED BY <1>1, <1>2, <1>3, <1>4

\* A card that is waited for: its command is still under way, or the match has it, or it was refused.
LEMMA ResolvedFits ==
    ASSUME CallBreakInv, NEW s \in {seen, host}, NEW busy, NEW error, drawer.deal = s.deal, DrawerFits(drawer, seen),
           \/ busy /\ CommandBusy /\ s = seen /\ ~error
           \/ ~busy /\ (~CommandBusy \/ (Settled /\ s = host) \/ (s = seen /\ error))
    PROVE  LET d == Resolve(drawer, s, busy, error)
           IN  DrawerFits(d, s) /\ (d.pending # NoPlay => busy /\ d = drawer)
<1> DEFINE yes == TRUE
           no == FALSE
           d == Resolve(drawer, s, busy, error)
           came == s.revision > drawer.pending.revision /\ drawer.pending.card \notin s.hand
<1>0. yes
  OBVIOUS
<1>1. /\ drawer.pending = NoPlay => d = drawer
      /\ drawer.pending # NoPlay =>
           IF came THEN d = [drawer EXCEPT !.open = no, !.pending = NoPlay, !.closed = no]
           ELSE IF ~busy /\ error THEN d = [drawer EXCEPT !.open = yes, !.pending = NoPlay]
           ELSE d = drawer
  BY DEF Resolve
<1>2. DrawerFits(drawer, s)
  BY DEF DrawerFits
<1>3. DrawerFields \subseteq DOMAIN drawer /\ Awaited /\ Shaped(seen) /\ Shaped(host)
  BY DEF DrawerFits, CallBreakInv
<1>4. s.revision \in Nat /\ seen.revision \in Nat
  BY <1>3 DEF Shaped
<1>5. came => drawer.pending = NoPlay \/ (Settled /\ s = host)
  BY <1>3, <1>4 DEF Awaited
<1>6. Settled /\ s = host /\ drawer.pending # NoPlay => came
  BY <1>3, <1>4 DEF Awaited
<1> HIDE DEF yes, no, d, came
<1>7. CASE drawer.pending = NoPlay
  BY <1>1, <1>2, <1>7 DEF d
<1>8. CASE drawer.pending # NoPlay /\ came
  <2>1. DOMAIN d = DOMAIN drawer /\ d.pending = NoPlay /\ d.entered = drawer.entered /\ d.deal = drawer.deal
    BY <1>1, <1>3, <1>8 DEF DrawerFields
  <2>2. s = host /\ Past(drawer.entered, host)
    BY <1>3, <1>5, <1>8 DEF Awaited
  <2>3. DrawerFits(d, s)
    BY <1>3, <2>1, <2>2 DEF DrawerFits
  <2>4. QED BY <2>1, <2>3 DEF d
<1>9. CASE drawer.pending # NoPlay /\ ~came /\ ~busy /\ error
  <2>1. DOMAIN d = DOMAIN drawer /\ d.pending = NoPlay /\ d.entered = drawer.entered /\ d.deal = drawer.deal /\ d.open = yes
    BY <1>1, <1>3, <1>9 DEF DrawerFields
  <2>2. d.open
    BY <1>0, <2>1, Zenon
  <2>3. DrawerFits(d, s)
    BY <1>3, <2>1, <2>2 DEF DrawerFits
  <2>4. QED BY <2>1, <2>3 DEF d
<1>10. CASE drawer.pending # NoPlay /\ ~came /\ ~(~busy /\ error)
  <2>1. d = drawer
    BY <1>1, <1>10
  <2>2. busy
    BY <1>3, <1>6, <1>10 DEF Awaited
  <2>3. QED BY <1>2, <2>1, <2>2 DEF d
<1>11. QED BY <1>7, <1>8, <1>9, <1>10

LEMMA TurnPrompts == ASSUME NEW s, NEW t, NEW busy PROVE TurnInput(s, t, busy) # NoPrompt => TurnInput(s, t, busy) = Prompt(s) /\ ~busy
BY DEF TurnInput

LEMMA UpdatedFits ==
    ASSUME CallBreakInv, NEW s \in {seen, host}, NEW t, NEW busy, NEW error,
           \/ busy /\ CommandBusy /\ s = seen /\ ~error
           \/ ~busy /\ (~CommandBusy \/ (Settled /\ s = host) \/ (s = seen /\ error))
    PROVE  LET u == UpdateHandDrawer(drawer, s, t, busy, error)
           IN  /\ DrawerFits(u, s) /\ (u.pending # NoPlay => busy /\ u = drawer)
               /\ TurnInput(s, t, busy) # NoPrompt => u.entered = Prompt(s) /\ (u.open \/ u.closed)
<1> DEFINE e == IF drawer.deal = s.deal THEN drawer ELSE EmptyDrawer(s.deal)
           d == Resolve(e, s, busy, error)
           turn == TurnInput(s, t, busy)
           u == PromptEntered(d, turn)
<1>1. UpdateHandDrawer(drawer, s, t, busy, error) = u
  BY DEF UpdateHandDrawer
<1>2. Shaped(s)
  BY DEF CallBreakInv
<1>3. DrawerFits(d, s) /\ (d.pending # NoPlay => busy /\ d = drawer)
  <2>1. CASE drawer.deal = s.deal
    <3>1. DrawerFits(drawer, seen)
      BY <1>2, <2>1 DEF CallBreakInv, NotYet, Shaped
    <3>2. e = drawer
      BY <2>1
    <3> HIDE DEF e
    <3>3. QED BY <2>1, <3>1, <3>2, ResolvedFits
  <2>2. CASE drawer.deal # s.deal
    <3>1. e = EmptyDrawer(s.deal)
      BY <2>2
    <3>2. DrawerFits(e, s) /\ e.pending = NoPlay
      BY <3>1, EmptyFits
    <3> HIDE DEF e
    <3>3. d = e
      BY <3>2 DEF Resolve
    <3>4. QED BY <3>2, <3>3
  <2>3. QED BY <2>1, <2>2
<1>4. turn # NoPrompt => turn = Prompt(s) /\ ~busy
  BY TurnPrompts
<1> HIDE DEF e, d, turn
<1>5. /\ DrawerFits(u, s) /\ u.pending = d.pending
      /\ turn # NoPrompt => u.entered = turn /\ (u.open \/ u.closed)
      /\ turn = NoPrompt => u = d
  BY <1>2, <1>3, <1>4, PromptedFits
<1> HIDE DEF u
<1>6. u.pending # NoPlay => busy /\ u = drawer
  BY <1>3, <1>4, <1>5
<1>7. QED BY <1>1, <1>4, <1>5, <1>6 DEF turn

\* Every update of the screen: after time, after a snapshot, and after an answer.
LEMMA ShowsKeeps ==
    ASSUME CallBreakInv, NEW s \in {seen, host}, NEW t, NEW request, NEW error, ShowsMatch(s, t, request, error), UNCHANGED host,
           \/ request = command /\ CommandBusy /\ s = seen /\ ~error
           \/ request = command /\ ~CommandBusy
           \/ ~CommandBusy' /\ ((Settled /\ s = host) \/ (s = seen /\ error /\ ~Settled))
    PROVE  CallBreakInv'
<1> DEFINE busy == request # [name |-> "none"]
<1>1. /\ seen' = s /\ trickShown' = t /\ command' = request
      /\ drawer' = UpdateHandDrawer(drawer, s, t, busy, error)
  BY DEF ShowsMatch
<1>2. busy <=> CommandBusy'
  BY <1>1 DEF CommandBusy
<1>3. \/ busy /\ CommandBusy /\ s = seen /\ ~error /\ command' = command
      \/ ~busy /\ (~CommandBusy \/ (Settled /\ s = host) \/ (s = seen /\ error))
  BY <1>1 DEF CommandBusy
<1>4. s # host => s = seen /\ (command' = command \/ ~Settled)
  BY <1>1
<1>5. TurnInput(s, t, busy) = TurnInput(seen, trickShown, CommandBusy)'
  BY <1>1 DEF TurnInput, CommandBusy
<1> HIDE DEF busy
<1>6. /\ DrawerFits(drawer', s) /\ (drawer'.pending # NoPlay => busy /\ drawer' = drawer)
      /\ TurnInput(s, t, busy) # NoPrompt => drawer'.entered = Prompt(s) /\ (drawer'.open \/ drawer'.closed)
  BY <1>1, <1>3, UpdatedFits
<1>7. Awaited'
  <2> SUFFICES ASSUME drawer'.pending # NoPlay PROVE Awaited'
    BY DEF Awaited
  <2>1. drawer' = drawer /\ seen' = seen /\ command' = command /\ host' = host
    BY <1>1, <1>3, <1>6
  <2>2. QED BY <2>1 DEF CallBreakInv, Awaited, Settled, CommandBusy
<1>8. Still'
  <2>1. CASE s = host
    BY <1>1, <2>1 DEF Still
  <2>2. CASE s # host
    BY <1>1, <1>2, <1>3, <1>4, <2>2 DEF CallBreakInv, Still, Settled, CommandBusy
  <2>3. QED BY <2>1, <2>2
<1>9. HandOpensForTurn'
  <2>1. Prompt(s) = Prompt(seen)'
    BY <1>1
  <2>2. TurnInput(s, t, busy) # NoPrompt => ~busy
    BY TurnPrompts
  <2>3. QED BY <1>1, <1>2, <1>5, <1>6, <2>1, <2>2 DEF HandOpensForTurn
<1>10. Shaped(host)' /\ Shaped(seen)' /\ (CommandBusy' => PlayFields \subseteq DOMAIN command')
  BY <1>1, <1>2, <1>3 DEF CallBreakInv, CommandBusy
<1>11. DrawerFits(drawer, seen)'
  BY <1>1, <1>6 DEF DrawerFits
<1>12. QED BY <1>7, <1>8, <1>9, <1>10, <1>11 DEF CallBreakInv

\* What leaves the match, the snapshot and the command alone, and of the drawer all but whether it is open.
LEMMA HandKeeps ==
    ASSUME CallBreakInv, UNCHANGED <<host, seen, trickShown, command>>, drawer' = drawer
    PROVE  CallBreakInv'
<1>1. Awaited' /\ Still' /\ HandOpensForTurn'
  BY DEF CallBreakInv, Awaited, Still, Settled, CommandBusy, HandOpensForTurn, TurnInput, Reveal, TrickKey, Prompt,
         HandAvailable, MyTurn, CanReview
<1>2. QED BY <1>1 DEF CallBreakInv, CommandBusy, DrawerFits, NotYet

LEMMA ToggleKeeps == ASSUME CallBreakInv, ToggleHand PROVE CallBreakInv'
<1> DEFINE open == ~drawer.open
           closed == drawer.open
<1>1. /\ drawer' = [drawer EXCEPT !.open = open, !.closed = closed] /\ UNCHANGED <<host, seen, trickShown, command>>
      /\ seen.hand # {}
  BY DEF ToggleHand, HandAvailable
<1>2. open \/ closed
  OBVIOUS
<1> HIDE DEF open, closed
<1>3. DrawerFits(drawer, seen)
  BY <1>1 DEF CallBreakInv, NotYet
<1>4. /\ DOMAIN drawer' = DOMAIN drawer /\ drawer'.open = open /\ drawer'.closed = closed
      /\ drawer'.entered = drawer.entered /\ drawer'.deal = drawer.deal /\ drawer'.pending = drawer.pending
  BY <1>1, <1>3 DEF DrawerFits, DrawerFields
<1>5. drawer'.open \/ drawer'.closed
  <2>1. CASE open
    BY <1>4, <2>1, Zenon
  <2>2. CASE closed
    BY <1>4, <2>2, Zenon
  <2>3. QED BY <1>2, <2>1, <2>2
<1>6. DrawerFits(drawer, seen)'
  BY <1>1, <1>3, <1>4, <1>5 DEF DrawerFits
<1>7. /\ TurnInput(seen, trickShown, CommandBusy)' = TurnInput(seen, trickShown, CommandBusy)
      /\ Prompt(seen)' = Prompt(seen)
  BY <1>1 DEF TurnInput, CommandBusy
<1>8. HandOpensForTurn'
  BY <1>1, <1>4, <1>5, <1>7 DEF CallBreakInv, HandOpensForTurn, CommandBusy
<1>9. Awaited' /\ Still'
  BY <1>1, <1>4, <1>7 DEF CallBreakInv, Awaited, Still, Settled, CommandBusy
<1>10. QED BY <1>1, <1>6, <1>8, <1>9 DEF CallBreakInv, CommandBusy

\* A card is played from the turn on the screen, for which the hand is open.
LEMMA CallBreakSendKeeps == ASSUME CallBreakInv, NEW name, SendCommand(name) PROVE CallBreakInv'
<1> DEFINE card == IF name = "PLAY_CARD" THEN Chosen ELSE "none"
<1>1. /\ name \in Offered /\ command' = [name |-> name, card |-> card, phase |-> "sent"]
      /\ drawer' = (IF name = "PLAY_CARD" THEN [drawer EXCEPT !.pending = [card |-> card, revision |-> seen.revision]] ELSE drawer)
      /\ UNCHANGED <<host, seen, trickShown>>
  BY DEF SendCommand
<1>2. ~CommandBusy
  BY <1>1 DEF Offered
<1>3. drawer.pending = NoPlay /\ Still
  BY <1>2 DEF CallBreakInv, Awaited
<1>4. /\ name = "PLAY_CARD" => drawer.open /\ HandAvailable(seen) /\ Chosen # "none"
      /\ Chosen # "none" => CanPlay(seen, trickShown, CommandBusy)
  BY <1>1, <1>2 DEF Offered, Chosen
<1> HIDE DEF card
<1>5. PlayFields \subseteq DOMAIN command' /\ command'.name = name /\ command'.card = card /\ command'.phase = "sent" /\ CommandBusy'
  <2>1. DOMAIN command' = {"name", "card", "phase"}
    BY <1>1
  <2>2. "card" \notin DOMAIN [name |-> "none"]
    OBVIOUS
  <2>3. command' # [name |-> "none"]
    BY <2>1, <2>2
  <2>4. QED BY <1>1, <2>1, <2>3 DEF PlayFields, CommandBusy
<1>6. ~Settled'
  BY <1>5 DEF Settled
<1>7. TurnInput(seen, trickShown, CommandBusy)' = NoPrompt
  BY <1>5 DEF TurnInput
<1>8. Still'
  BY <1>1, <1>2, <1>3 DEF Still, Settled
<1>9. CASE name # "PLAY_CARD"
  <2>1. drawer' = drawer
    BY <1>1, <1>9
  <2>2. Awaited' /\ HandOpensForTurn'
    BY <1>3, <1>7, <2>1 DEF Awaited, HandOpensForTurn
  <2>3. QED BY <1>1, <1>5, <1>8, <2>1, <2>2 DEF CallBreakInv, DrawerFits, NotYet
<1>10. CASE name = "PLAY_CARD"
  <2>1. /\ ~Reveal(seen, trickShown) /\ seen.turn = "me" /\ seen.phase = "PLAYING" /\ HandAvailable(seen) /\ drawer.open
    BY <1>4, <1>10 DEF CanPlay, MyTurn
  <2>2. DrawerFits(drawer, seen)
    BY <2>1 DEF CallBreakInv, NotYet
  <2>3. Prompt(seen) # NoPrompt /\ TurnInput(seen, trickShown, CommandBusy) = Prompt(seen)
    BY <1>2, <2>1, PromptFacts DEF MyTurn, TurnInput
  <2>4. drawer.entered = Prompt(seen) /\ drawer.deal = seen.deal
    BY <2>2, <2>3 DEF CallBreakInv, HandOpensForTurn, DrawerFits
  <2>5. /\ DOMAIN drawer' = DOMAIN drawer /\ drawer'.pending = [card |-> card, revision |-> seen.revision]
        /\ drawer'.entered = drawer.entered /\ drawer'.deal = drawer.deal /\ drawer'.open = drawer.open
    BY <1>1, <1>10, <2>2 DEF DrawerFits, DrawerFields
  <2>6. drawer'.pending.card = card /\ drawer'.pending.revision = seen.revision
    BY <2>5
  <2>7. Awaited'
    BY <1>1, <1>5, <1>6, <1>10, <2>1, <2>3, <2>4, <2>5, <2>6 DEF Awaited
  <2>8. DrawerFits(drawer, seen)'
    BY <1>1, <2>1, <2>2, <2>5 DEF DrawerFits
  <2>9. HandOpensForTurn'
    BY <1>5, <1>7 DEF HandOpensForTurn
  <2>10. QED BY <1>1, <1>5, <1>8, <2>7, <2>8, <2>9 DEF CallBreakInv
<1>11. QED BY <1>9, <1>10

\* A step of the match, by whoever it is.
LEMMA HostMoves ==
    ASSUME CallBreakInv, NEW name, NEW card, host' \in Legal(host, name, card), UNCHANGED <<seen, drawer, trickShown>>,
           CommandBusy' <=> CommandBusy, CommandBusy => PlayFields \subseteq DOMAIN command',
           CommandBusy => command'.name = command.name /\ command'.card = command.card,
           Still', Awaited'
    PROVE  CallBreakInv'
<1>1. Shaped(host')
  BY LegalFacts DEF CallBreakInv
<1>2. DrawerFits(drawer, seen) => DrawerFits(drawer, seen)'
  BY StaysPast DEF CallBreakInv, DrawerFits
<1>3. NotYet => NotYet'
  BY DEF NotYet
<1>4. HandOpensForTurn'
  BY DEF CallBreakInv, HandOpensForTurn, TurnInput, Reveal, TrickKey, Prompt, HandAvailable, MyTurn, CanReview
<1>5. QED BY <1>1, <1>2, <1>3, <1>4 DEF CallBreakInv

LEMMA OtherMovesKeep == ASSUME CallBreakInv, OtherMoves PROVE CallBreakInv'
<1>1. /\ UNCHANGED <<seen, drawer, faces, trickShown, command>> /\ Shaped(host) /\ Shaped(seen) /\ Still /\ Awaited
  BY DEF OtherMoves, CallBreakInv
<1>2. PICK name \in OtherNames : host' \in Legal(host, name, "none")
  BY DEF OtherMoves
<1>3. host.phase = "PLAYING" => host.turn # "me"
  BY <1>1, <1>2, LegalFacts DEF OtherNames
<1>4. Still'
  BY <1>1, <1>3 DEF Still, Settled, CommandBusy
<1>5. Awaited'
  <2> SUFFICES ASSUME drawer.pending # NoPlay
               PROVE  Settled => /\ drawer.pending.revision < host'.revision /\ Past(drawer.entered, host')
                                 /\ host'.deal = seen.deal => drawer.pending.card \notin host'.hand
    BY <1>1 DEF Awaited, Settled, CommandBusy
  <2> SUFFICES ASSUME Settled
               PROVE  /\ drawer.pending.revision < host'.revision /\ Past(drawer.entered, host')
                      /\ host'.deal = seen.deal => drawer.pending.card \notin host'.hand
    OBVIOUS
  <2>1. /\ drawer.pending.revision < host.revision /\ Past(drawer.entered, host)
        /\ host.deal = seen.deal => drawer.pending.card \notin host.hand
        /\ drawer.entered = Prompt(seen) /\ Prompt(seen) # NoPrompt /\ drawer.pending.revision = seen.revision
    BY <1>1 DEF Awaited
  <2>2. drawer.entered[1] = seen.deal
    BY <2>1, PromptFacts
  <2>3. Past(drawer.entered, host') /\ (host'.deal = seen.deal => host'.hand \subseteq host.hand)
    BY <1>1, <1>2, <2>1, <2>2, StaysPast
  <2>4. Shaped(host') /\ host.revision < host'.revision /\ host.deal <= host'.deal
    BY <1>1, <1>2, LegalFacts
  <2>5. host'.deal = seen.deal => host.deal = seen.deal
    BY <1>1, <2>1, <2>2, <2>4 DEF Past, Shaped
  <2>6. drawer.pending.revision < host'.revision
    BY <1>1, <2>1, <2>4 DEF Shaped
  <2>7. QED BY <2>1, <2>3, <2>5, <2>6
<1>6. QED BY <1>1, <1>2, <1>4, <1>5, HostMoves DEF CallBreakInv, CommandBusy

LEMMA CommandCarriedKeeps == ASSUME CallBreakInv, CommandCarried PROVE CallBreakInv'
<1>1. /\ UNCHANGED <<seen, drawer, faces, trickShown>> /\ CommandBusy /\ command.phase = "sent"
      /\ host' \in Legal(host, command.name, command.card) /\ command' = [command EXCEPT !.phase = "done"]
      /\ Shaped(host) /\ Shaped(seen) /\ Still /\ Awaited /\ PlayFields \subseteq DOMAIN command
  BY DEF CommandCarried, CallBreakInv
<1>2. /\ DOMAIN command' = DOMAIN command /\ command'.phase = "done" /\ command'.name = command.name
      /\ command'.card = command.card
  BY <1>1 DEF PlayFields
<1>3. CommandBusy' /\ Settled'
  <2>1. "phase" \notin DOMAIN [name |-> "none"] /\ "phase" \in DOMAIN command'
    BY <1>1, <1>2 DEF PlayFields
  <2>2. command' # [name |-> "none"]
    BY <2>1
  <2>3. QED BY <1>2, <2>2 DEF CommandBusy, Settled
<1>4. Still'
  BY <1>3 DEF Still
<1>5. Awaited'
  <2> SUFFICES ASSUME drawer.pending # NoPlay
               PROVE  /\ drawer.pending.revision < host'.revision /\ Past(drawer.entered, host')
                      /\ host'.deal = seen.deal => drawer.pending.card \notin host'.hand
    <3>1. Prompt(seen)' = Prompt(seen)
      BY <1>1
    <3>2. QED BY <1>1, <1>2, <1>3, <3>1 DEF Awaited
  <2>1. /\ command.name = "PLAY_CARD" /\ command.card = drawer.pending.card
        /\ drawer.pending.revision = seen.revision /\ seen.phase = "PLAYING" /\ seen.turn = "me"
        /\ drawer.entered = Prompt(seen) /\ Prompt(seen) # NoPrompt
    BY <1>1 DEF Awaited
  <2>2. host = seen
    BY <1>1, <2>1 DEF Still, Settled
  <2>3. host' \in Played(host, drawer.pending.card)
    BY <1>1, <2>1, <2>2, LegalFacts
  <2>4. /\ host.revision < host'.revision /\ host'.deal = host.deal /\ host'.hand = host.hand \ {drawer.pending.card}
        /\ \/ host'.phase = "DEAL_COMPLETE"
           \/ host'.phase = "PLAYING" /\ host'.trick = host.trick + 1
           \/ host'.phase = "PLAYING" /\ host'.trick = host.trick /\ host'.turn = "other" /\ host'.acted
    BY <1>1, <2>1, <2>2, <2>3, PlayedFacts
  <2>5. drawer.entered[1] = host.deal /\ drawer.entered[2] = "PLAYING" /\ drawer.entered[4] = host.trick
    BY <2>1, <2>2, PromptFacts
  <2>6. Past(drawer.entered, host')
    BY <1>1, <2>4, <2>5 DEF Past, Shaped
  <2>7. QED BY <2>1, <2>2, <2>4, <2>6
<1>6. QED BY <1>1, <1>2, <1>3, <1>4, <1>5, HostMoves

\* A table that is opened again prompts anew.
LEMMA CallBreakReopenKeeps == ASSUME CallBreakInv, Reopen PROVE CallBreakInv'
<1> DEFINE e == EmptyDrawer(seen.deal)
           zero == EmptyDrawer(0)
           turn == TurnInput(seen, trickShown', CommandBusy)
<1>0. UNCHANGED <<host, seen, command>> /\ Shaped(seen)
  BY DEF Reopen, CallBreakInv
<1>1. PICK error : ~error /\ drawer' = UpdateHandDrawer(zero, seen, trickShown', CommandBusy, error)
  <2>1. drawer' = UpdateHandDrawer(zero, seen, trickShown', CommandBusy, FALSE)
    BY Zenon DEF Reopen
  <2>2. QED BY <2>1, Zenon
<1>2. zero.deal # seen.deal
  BY <1>0 DEF EmptyDrawer, Shaped
<1>3. DrawerFits(e, seen) /\ e.pending = NoPlay
  BY EmptyFits
<1>4. drawer' = PromptEntered(e, turn)
  <2>1. drawer' = PromptEntered(Resolve(IF zero.deal = seen.deal THEN zero ELSE e, seen, CommandBusy, error), turn)
    BY <1>1 DEF UpdateHandDrawer
  <2>2. drawer' = PromptEntered(Resolve(e, seen, CommandBusy, error), turn)
    BY <1>2, <2>1
  <2> HIDE DEF e
  <2>3. Resolve(e, seen, CommandBusy, error) = e
    BY <1>3 DEF Resolve
  <2>4. QED BY <2>2, <2>3
<1>5. turn # NoPrompt => turn = Prompt(seen) /\ ~CommandBusy
  BY TurnPrompts
<1>6. turn = TurnInput(seen, trickShown, CommandBusy)'
  BY <1>0 DEF TurnInput, CommandBusy
<1> HIDE DEF e, turn, zero
<1>7. /\ DrawerFits(drawer', seen) /\ drawer'.pending = NoPlay
      /\ turn # NoPrompt => drawer'.entered = turn /\ (drawer'.open \/ drawer'.closed)
  BY <1>0, <1>3, <1>4, <1>5, PromptedFits
<1>8. DrawerFits(drawer, seen)'
  BY <1>0, <1>7 DEF DrawerFits
<1>9. Awaited'
  BY <1>7 DEF Awaited
<1>10. Still'
  BY <1>0 DEF CallBreakInv, Still, Settled, CommandBusy
<1>11. HandOpensForTurn'
  <2>1. Prompt(seen)' = Prompt(seen)
    BY <1>0
  <2>2. QED BY <1>5, <1>6, <1>7, <2>1 DEF HandOpensForTurn
<1>12. QED BY <1>0, <1>8, <1>9, <1>10, <1>11 DEF CallBreakInv, CommandBusy

LEMMA CallBreakInitially == CallBreakInit => CallBreakInv
<1> SUFFICES ASSUME CallBreakInit PROVE CallBreakInv
  OBVIOUS
<1> DEFINE no == FALSE
<1>0. ~no
  OBVIOUS
<1>1. PICK t \in Turns : host = [deal |-> 1, phase |-> "AWAITING_SHUFFLE", turn |-> t, trick |-> 0, plays |-> no,
                                 acted |-> no, hand |-> {}, revision |-> 1]
  BY DEF CallBreakInit
<1>2. /\ seen = host /\ command = [name |-> "none"]
      /\ drawer = [open |-> no, entered |-> NoPrompt, deal |-> 0, pending |-> NoPlay, closed |-> no]
  BY DEF CallBreakInit, EmptyDrawer
<1> HIDE DEF no
<1>3. Shaped(host) /\ host.hand = {} /\ host.deal = 1 /\ host.phase = "AWAITING_SHUFFLE"
  BY <1>1 DEF Shaped, HostFields
<1>4. drawer.deal = 0 /\ drawer.pending = NoPlay /\ drawer.entered = NoPrompt /\ drawer.open = no /\ DOMAIN drawer = DrawerFields
  BY <1>2 DEF DrawerFields
<1>5. NotYet
  <2>1. ~drawer.open
    BY <1>0, <1>4, Zenon
  <2>2. QED BY <1>2, <1>3, <1>4, <2>1 DEF NotYet
<1>6. Awaited /\ Still /\ HandOpensForTurn /\ ~CommandBusy
  BY <1>2, <1>3, <1>4 DEF Awaited, Still, HandOpensForTurn, CommandBusy
<1>7. QED BY <1>2, <1>3, <1>5, <1>6 DEF CallBreakInv

LEMMA CallBreakStep == CallBreakInv /\ [CallBreakNext]_callBreakVars => CallBreakInv'
<1> SUFFICES ASSUME CallBreakInv, [CallBreakNext]_callBreakVars PROVE CallBreakInv'
  OBVIOUS
<1>1. CASE CollectTrick \/ HideTrick
  <2>1. PICK t, error : ~error /\ ShowsMatch(seen, t, command, error) /\ UNCHANGED host
    <3>1. \E t : ShowsMatch(seen, t, command, FALSE) /\ UNCHANGED host
      BY <1>1, Zenon DEF CollectTrick, HideTrick
    <3>2. QED BY <3>1, Zenon
  <2>2. QED BY <2>1, ShowsKeeps
<1>2. CASE MatchRead
  <2>1. PICK error : ~error /\ ShowsMatch(host, trickShown, command, error) /\ UNCHANGED host /\ ~CommandBusy
    <3>1. ShowsMatch(host, trickShown, command, FALSE) /\ UNCHANGED host /\ ~CommandBusy
      BY <1>2, Zenon DEF MatchRead
    <3>2. QED BY <3>1, Zenon
  <2>2. QED BY <2>1, ShowsKeeps
<1>3. CASE Accepted
  <2>1. PICK error : ~error /\ ShowsMatch(host, trickShown, [name |-> "none"], error) /\ UNCHANGED host /\ Settled
    <3>1. ShowsMatch(host, trickShown, [name |-> "none"], FALSE) /\ UNCHANGED host /\ Settled
      BY <1>3, Zenon DEF Accepted, Settled
    <3>2. QED BY <3>1, Zenon
  <2>2. ~CommandBusy'
    BY <2>1 DEF ShowsMatch, CommandBusy
  <2> DEFINE none == [name |-> "none"]
  <2>3. ShowsMatch(host, trickShown, none, error)
    BY <2>1
  <2> HIDE DEF none
  <2>4. QED BY <2>1, <2>2, <2>3, ShowsKeeps
<1>4. CASE CommandRejected
  <2>1. PICK error : error /\ ShowsMatch(seen, trickShown, [name |-> "none"], error) /\ UNCHANGED host /\ command.phase = "sent"
    <3>1. ShowsMatch(seen, trickShown, [name |-> "none"], TRUE) /\ UNCHANGED host /\ command.phase = "sent"
      BY <1>4, Zenon DEF CommandRejected
    <3>2. QED BY <3>1, Zenon
  <2>2. ~Settled /\ ~CommandBusy'
    BY <2>1 DEF Settled, ShowsMatch, CommandBusy
  <2> DEFINE none == [name |-> "none"]
  <2>3. ShowsMatch(seen, trickShown, none, error)
    BY <2>1
  <2> HIDE DEF none
  <2>4. QED BY <2>1, <2>2, <2>3, ShowsKeeps
<1>5. CASE OtherMoves \/ CommandCarried
  BY <1>5, OtherMovesKeep, CommandCarriedKeeps
<1>6. CASE ToggleHand \/ Reopen \/ \E name \in Names : SendCommand(name)
  BY <1>6, ToggleKeeps, CallBreakReopenKeeps, CallBreakSendKeeps
<1>7. CASE RevealNext \/ RevealAll \/ HideCards \/ ShowCards \/ CancelSelection \/ \E card \in Cards : SelectCard(card)
  <2>1. UNCHANGED <<host, seen, drawer, trickShown, command>>
    BY <1>7 DEF RevealNext, RevealAll, HideCards, ShowCards, CancelSelection, SelectCard, Turning
  <2>2. QED BY <2>1, HandKeeps
<1>8. CASE UNCHANGED callBreakVars
  BY <1>8, HandKeeps DEF callBreakVars
<1>9. QED BY <1>1, <1>2, <1>3, <1>4, <1>5, <1>6, <1>7, <1>8 DEF CallBreakNext

-------------------------------------------------------------------------------
(* The table of a Flush match *)

MatchFields == {"rules", "revision", "proposal", "proposed", "status", "stage", "started", "byThis", "round", "bets", "compared"}
FormFields == {"draft", "base", "dirty", "pressed"}
RoundFields == {"flips", "resultOpen", "acknowledged", "finalOpen", "flights", "last"}
AskFields == {"kind", "rules", "revision"}

\* A match that has started has no proposal that waits for votes.
Regular(m) ==
    /\ MatchFields \subseteq DOMAIN m /\ m.revision \in Nat /\ m.round \in Nat /\ m.bets \in Nat
    /\ m.started => ~Pending(m)
\* What a match may become: its rules change only with their revision, and not once it has started; and a
\* round has ever more bets.
Later(n, m) ==
    /\ m.revision <= n.revision /\ (n.revision = m.revision => n.rules = m.rules)
    /\ m.round <= n.round /\ (n.round = m.round => m.bets <= n.bets)
    /\ m.started => n.started /\ n.revision = m.revision
\* An untouched draft of the revision that is shown says what is shown.
FormFits(f, v) == FormFields \subseteq DOMAIN f /\ (~f.dirty /\ f.base = v.revision => f.draft = v.rules)
RoundFits(r, v) ==
    /\ RoundFields \subseteq DOMAIN r /\ r.flights \subseteq 1 .. v.bets
    /\ r.resultOpen => r.flips = OpponentCards
\* Whoever starts the match asks for the rules that are shown.
AskFits(q) ==
    q # NoAsk =>
        /\ AskFields \subseteq DOMAIN q
        /\ q.kind = "start" => q.revision = view.revision /\ q.rules = view.rules /\ form.pressed = view.rules
ByThis == match.byThis => match.started /\ view.revision = match.revision /\ form.pressed = view.rules
FlushInv ==
    /\ Regular(match) /\ Regular(view) /\ Later(match, view)
    /\ FormFits(form, view) /\ RoundFits(round, view) /\ AskFits(ask) /\ ByThis

LEMMA FlushInvHolds == FlushInv => StartedAsPressed /\ RoundShownInOrder
BY DEF FlushInv, StartedAsPressed, RoundShownInOrder, ByThis, Later, RoundFits

LEMMA FlushInitially == FlushScreenInit => FlushInv
<1> SUFFICES ASSUME FlushScreenInit PROVE FlushInv
  OBVIOUS
<1> DEFINE no == FALSE
           off == FinalStage(match) # "none"
<1>0. no = FALSE
  OBVIOUS
<1>1. match \in [rules : RuleSets, revision : {0}, proposal : {0}, proposed : RuleSets, status : {"none"},
                 stage : {"open"}, started : {no}, byThis : {no}, round : {0}, bets : {0}, compared : {0}]
  BY DEF FlushScreenInit
<1>2. /\ view = match /\ ask = NoAsk
      /\ form = [draft |-> match.rules, base |-> match.revision, dirty |-> no, pressed |-> match.rules]
      /\ round = [flips |-> 0, resultOpen |-> no, acknowledged |-> 0, finalOpen |-> off, flights |-> {}, last |-> match.bets]
  BY DEF FlushScreenInit, Clean, FreshRound
<1> HIDE DEF no, off
<1>3. /\ DOMAIN match = MatchFields /\ match.revision = 0 /\ match.round = 0 /\ match.bets = 0 /\ match.started = no
      /\ match.byThis = no
  BY <1>1 DEF MatchFields
<1>4. /\ DOMAIN form = FormFields /\ form.draft = match.rules
      /\ DOMAIN round = RoundFields /\ round.flights = {} /\ round.resultOpen = no
  BY <1>2 DEF FormFields, RoundFields
<1>5. ~match.started /\ ~match.byThis /\ ~round.resultOpen
  BY <1>0, <1>3, <1>4, Zenon
<1>6. Regular(match) /\ Later(match, match)
  BY <1>3, <1>5 DEF Regular, Later
<1>7. FormFits(form, match) /\ RoundFits(round, match)
  BY <1>4, <1>5 DEF FormFits, RoundFits
<1>8. QED BY <1>2, <1>5, <1>6, <1>7 DEF FlushInv, AskFits, ByThis

\* ---- What the server makes of a match
LEMMA AdoptLater ==
    ASSUME NEW m, Regular(m), Pending(m)
    PROVE  LET n == Adopt(m) IN Regular(n) /\ Later(n, m) /\ n.byThis = m.byThis
<1> DEFINE n == Adopt(m)
<1>1. ~m.started
  BY DEF Regular
<1>2. n = [m EXCEPT !.rules = m.proposed, !.revision = m.revision + 1, !.status = "ACCEPTED"]
  BY DEF Adopt
<1> HIDE DEF n
<1>3. /\ DOMAIN n = DOMAIN m /\ n.revision = m.revision + 1 /\ n.round = m.round /\ n.bets = m.bets
      /\ n.started = m.started /\ n.byThis = m.byThis
  BY <1>2 DEF Regular, MatchFields
<1>4. Regular(n) /\ Later(n, m) /\ n.byThis = m.byThis
  BY <1>1, <1>3 DEF Regular, Later
<1>5. QED BY <1>4 DEF n

LEMMA DeclineLater ==
    ASSUME NEW m, Regular(m)
    PROVE  LET n == Decline(m) IN Regular(n) /\ Later(n, m) /\ n.byThis = m.byThis
<1> DEFINE n == Decline(m)
<1>2. n = [m EXCEPT !.proposed = m.rules, !.status = "REJECTED"]
  BY DEF Decline
<1> HIDE DEF n
<1>3. /\ DOMAIN n = DOMAIN m /\ n.revision = m.revision /\ n.rules = m.rules /\ n.round = m.round /\ n.bets = m.bets
      /\ n.started = m.started /\ n.byThis = m.byThis /\ n.status = "REJECTED"
  BY <1>2 DEF Regular, MatchFields
<1>4. Regular(n) /\ Later(n, m) /\ n.byThis = m.byThis
  BY <1>3 DEF Regular, Later, Pending
<1>5. QED BY <1>4 DEF n

LEMMA ProposeLater ==
    ASSUME NEW m, Regular(m), MayPropose(m), NEW rules, NEW now
    PROVE  LET n == Propose(m, rules, now) IN Regular(n) /\ Later(n, m) /\ n.byThis = m.byThis
<1> DEFINE n == Propose(m, rules, now)
           p == [m EXCEPT !.proposal = @ + 1, !.proposed = rules, !.status = "PENDING"]
<1>1. ~m.started
  BY DEF MayPropose
<1>2. /\ DOMAIN p = DOMAIN m /\ p.revision = m.revision /\ p.rules = m.rules /\ p.round = m.round /\ p.bets = m.bets
      /\ p.started = m.started /\ p.byThis = m.byThis /\ p.status = "PENDING"
  BY DEF Regular, MatchFields
<1>3. n = IF now THEN Adopt(p) ELSE p
  BY DEF Propose
<1> HIDE DEF n, p
<1>4. Regular(p) /\ Pending(p) /\ Later(p, m) /\ p.byThis = m.byThis
  BY <1>1, <1>2 DEF Regular, Later, Pending
<1>5. Regular(n) /\ n.byThis = m.byThis /\ Later(n, p)
  BY <1>3, <1>4, AdoptLater DEF Regular, Later
<1>6. Later(n, m)
  BY <1>1, <1>2, <1>5 DEF Regular, Later
<1>7. QED BY <1>5, <1>6 DEF n

LEMMA StartedLater ==
    ASSUME NEW m, Regular(m), NEW by, MayStart(m, m.revision)
    PROVE  LET n == Started(m, by)
           IN Regular(n) /\ Later(n, m) /\ n.revision = m.revision /\ n.started /\ (n.byThis => by)
<1> DEFINE n == Started(m, by)
           yes == TRUE
           byThis == by /\ ~m.started
<1>1. yes /\ (byThis => by)
  OBVIOUS
<1>2. n = [m EXCEPT !.stage = "playing", !.started = yes, !.round = m.round + 1, !.byThis = byThis, !.bets = 0]
  BY DEF Started
<1> HIDE DEF n, yes, byThis
<1>3. /\ DOMAIN n = DOMAIN m /\ n.revision = m.revision /\ n.rules = m.rules /\ n.round = m.round + 1 /\ n.bets = 0
      /\ n.started = yes /\ n.byThis = byThis /\ n.status = m.status
  BY <1>2 DEF Regular, MatchFields
<1>4. n.started /\ (n.byThis => by)
  BY <1>1, <1>3, Zenon
<1>5. Regular(n) /\ Later(n, m) /\ n.revision = m.revision
  BY <1>3, <1>4 DEF Regular, Later, Pending, MayStart
<1>6. QED BY <1>4, <1>5 DEF n

LEMMA PlaysLater ==
    ASSUME NEW m, Regular(m), NEW n \in Plays(m) \cup {[m EXCEPT !.stage = "locked"], [m EXCEPT !.stage = "open"]}
    PROVE  Regular(n) /\ Later(n, m) /\ n.byThis = m.byThis
<1>1. \/ n = [m EXCEPT !.bets = m.bets + 1] \/ n = [m EXCEPT !.compared = m.compared + 1]
      \/ \E stage : n = [m EXCEPT !.stage = stage]
  BY DEF Plays
<1>2. /\ DOMAIN n = DOMAIN m /\ n.revision = m.revision /\ n.rules = m.rules /\ n.round = m.round
      /\ n.started = m.started /\ n.byThis = m.byThis /\ n.status = m.status /\ (n.bets = m.bets \/ n.bets = m.bets + 1)
  BY <1>1 DEF Regular, MatchFields
<1>3. QED BY <1>2 DEF Regular, Later, Pending

\* ---- What its client makes of that
LEMMA LaterStill == ASSUME NEW l, NEW m, NEW n, Regular(l), Regular(m), Regular(n), Later(m, l), Later(n, m) PROVE Later(n, l)
BY DEF Later, Regular

\* The request that started the match, if it was this client's, was for the rules it shows.
LEMMA MatchMoves ==
    ASSUME FlushInv, Regular(match'), Later(match', match), UNCHANGED <<view, form, round>>,
           match'.byThis => match.byThis \/ (view.revision = match'.revision /\ match'.started /\ form.pressed = view.rules),
           AskFits(ask')
    PROVE  FlushInv'
<1>1. Later(match', view)
  BY LaterStill DEF FlushInv
<1>2. ByThis'
  BY DEF FlushInv, ByThis, Later
<1>3. AskFits(ask)'
  BY DEF AskFits
<1>4. QED BY <1>1, <1>2, <1>3 DEF FlushInv

LEMMA MatchElsewhereKeeps == ASSUME FlushInv, MatchElsewhere PROVE FlushInv'
<1>1. Regular(match) /\ AskFits(ask) /\ UNCHANGED <<view, form, round, ask>>
  BY DEF FlushInv, MatchElsewhere
<1>2. AskFits(ask')
  BY <1>1
<1>3. Regular(match') /\ Later(match', match) /\ (match'.byThis => match.byThis)
  <2>1. CASE Pending(match) /\ match' \in {Adopt(match), Decline(match)}
    BY <1>1, <2>1, AdoptLater, DeclineLater
  <2>2. CASE MayPropose(match) /\ \E rules \in RuleSets : match' = Propose(match, rules, FALSE)
    BY <1>1, <2>2, ProposeLater
  <2>3. CASE match' = [match EXCEPT !.stage = "locked"] \/ match' = [match EXCEPT !.stage = "open"] \/ match' \in Plays(match)
    BY <1>1, <2>3, PlaysLater
  <2>4. CASE MayStart(match, match.revision) /\ match' = Started(match, FALSE)
    <3>1. PICK by : ~by /\ match' = Started(match, by)
      BY <2>4, Zenon
    <3>2. QED BY <1>1, <2>4, <3>1, StartedLater
  <2>5. QED BY <2>1, <2>2, <2>3, <2>4 DEF MatchElsewhere
<1>4. QED BY <1>1, <1>2, <1>3, MatchMoves

LEMMA CarriedKeeps == ASSUME FlushInv, Carried PROVE FlushInv'
<1> DEFINE done == TRUE
<1>1. /\ Regular(match) /\ AskFits(ask) /\ UNCHANGED <<view, form, round>> /\ ask # NoAsk
      /\ ask' = [kind |-> ask.kind, rules |-> ask.rules, revision |-> ask.revision, done |-> done]
  BY DEF FlushInv, Carried
<1> HIDE DEF done
<1>2. AskFits(ask')
  <2>1. /\ AskFields \subseteq DOMAIN ask' /\ ask'.kind = ask.kind /\ ask'.rules = ask.rules
        /\ ask'.revision = ask.revision
    BY <1>1 DEF AskFields
  <2>2. QED BY <1>1, <2>1 DEF AskFits
<1>3. CASE ask.kind = "propose" /\ MayPropose(match) /\ \E now \in BOOLEAN : match' = Propose(match, ask.rules, now)
  BY <1>1, <1>2, <1>3, ProposeLater, MatchMoves
<1>4. CASE match' = [match EXCEPT !.stage = "locked"] \/ match' \in Plays(match)
  BY <1>1, <1>2, <1>4, PlaysLater, MatchMoves
<1>5. CASE ask.kind = "start" /\ MayStart(match, ask.revision) /\ match' = Started(match, TRUE)
  <2>1. ask.revision = match.revision /\ MayStart(match, match.revision)
    BY <1>5 DEF MayStart
  <2>2. PICK by : match' = Started(match, by)
    BY <1>5
  <2>3. Regular(match') /\ Later(match', match) /\ match'.revision = match.revision /\ match'.started
    BY <1>1, <2>1, <2>2, StartedLater
  <2>4. view.revision = match.revision /\ form.pressed = view.rules
    BY <1>1, <1>5, <2>1 DEF AskFits
  <2>5. QED BY <1>1, <1>2, <2>3, <2>4, MatchMoves
<1>6. CASE UNCHANGED match
  <2>1. Later(match', match) /\ Regular(match') /\ (match'.byThis => match.byThis)
    BY <1>1, <1>6 DEF Later, Regular
  <2>2. QED BY <1>1, <1>2, <2>1, MatchMoves
<1>7. QED BY <1>3, <1>4, <1>5, <1>6 DEF Carried

LEMMA ReloadFits ==
    ASSUME NEW m, NEW f
    PROVE  LET g == [Clean(m) EXCEPT !.pressed = f.pressed] IN FormFits(g, m) /\ g.pressed = f.pressed
<1> DEFINE no == FALSE
           g == [Clean(m) EXCEPT !.pressed = f.pressed]
<1>1. g = [[draft |-> m.rules, base |-> m.revision, dirty |-> no, pressed |-> m.rules] EXCEPT !.pressed = f.pressed]
  BY DEF Clean
<1> HIDE DEF no, g
<1>2. DOMAIN g = FormFields /\ g.draft = m.rules /\ g.pressed = f.pressed
  BY <1>1 DEF FormFields
<1>3. QED BY <1>2 DEF g, FormFits

\* A new revision replaces the draft, or finds it touched.
LEMMA EffectsFit ==
    ASSUME FlushInv
    PROVE  LET g == FormEffects(form, match) IN FormFits(g, match) /\ g.pressed = form.pressed
<1>1. FormFits(form, view) /\ Later(match, view) /\ Regular(match) /\ Regular(view)
  BY DEF FlushInv
<1> DEFINE g == FormEffects(form, match)
<1>2. g = [Clean(match) EXCEPT !.pressed = form.pressed] \/ (g = form /\ (match.revision = view.revision \/ form.dirty))
  BY Zenon DEF FormEffects
<1> HIDE DEF g
<1>3. CASE g = [Clean(match) EXCEPT !.pressed = form.pressed]
  BY <1>3, ReloadFits DEF g
<1>4. CASE g = form /\ (match.revision = view.revision \/ form.dirty)
  <2>1. FormFits(g, match) /\ g.pressed = form.pressed
    BY <1>1, <1>4 DEF FormFits, Later
  <2>2. QED BY <2>1 DEF g
<1>5. QED BY <1>2, <1>3, <1>4

LEMMA ArenaFits == ASSUME FlushInv PROVE RoundFits(RoundEffects(round, match), match)
<1> DEFINE open == round.resultOpen /\ match.compared = view.compared
           final == IF <<match.round, FinalStage(match)>> # <<view.round, FinalStage(view)>> THEN FinalStage(match) # "none"
                    ELSE round.finalOpen
           flips == IF match.compared # view.compared THEN 0 ELSE round.flips
           flights == IF match.round # view.round THEN {}
                      ELSE round.flights \cup {bet \in 1 .. MaxBets : round.last < bet /\ bet <= match.bets}
           r == RoundEffects(round, match)
<1>1. RoundFits(round, view) /\ Regular(match) /\ Regular(view) /\ Later(match, view)
  BY DEF FlushInv
<1>2. r = [round EXCEPT !.flips = flips, !.resultOpen = open, !.finalOpen = final, !.flights = flights, !.last = match.bets]
  BY DEF RoundEffects
<1>3. open => round.resultOpen /\ match.compared = view.compared
  OBVIOUS
<1>4. flights \subseteq 1 .. match.bets
  <2>1. CASE match.round # view.round
    BY <2>1
  <2>2. CASE match.round = view.round
    <3>1. view.bets <= match.bets /\ view.bets \in Nat /\ match.bets \in Nat /\ round.flights \subseteq 1 .. view.bets
      BY <1>1, <2>2 DEF Later, Regular, RoundFits
    <3>2. SUFFICES ASSUME NEW bet \in flights PROVE bet \in 1 .. match.bets
      BY Zenon
    <3>3. bet \in round.flights \/ (bet \in 1 .. MaxBets /\ bet <= match.bets)
      BY <2>2, <3>2
    <3>4. QED BY <3>1, <3>3
  <2>3. QED BY <2>1, <2>2
<1>5. match.compared = view.compared => flips = round.flips
  OBVIOUS
<1> HIDE DEF open, final, flips, flights, r
<1>6. DOMAIN r = DOMAIN round /\ r.flips = flips /\ r.resultOpen = open /\ r.flights = flights
  BY <1>1, <1>2 DEF RoundFits, RoundFields
<1>7. r.resultOpen => r.flips = OpponentCards
  <2>1. r.resultOpen => open
    BY <1>6, Zenon
  <2>2. QED BY <1>1, <1>3, <1>5, <1>6, <2>1 DEF RoundFits
<1>8. RoundFits(r, match)
  BY <1>1, <1>4, <1>6, <1>7 DEF RoundFits
<1>9. QED BY <1>8 DEF r

LEMMA ShownKeeps == ASSUME FlushInv, ShowsFlush(match), UNCHANGED match, ask' = NoAsk PROVE FlushInv'
<1>1. FormFits(form', match) /\ form'.pressed = form.pressed
  BY EffectsFit DEF ShowsFlush
<1>2. RoundFits(round', match)
  BY ArenaFits DEF ShowsFlush
<1>3. view' = match /\ Regular(match) /\ Later(match, match) /\ ByThis /\ Later(match, view)
  BY DEF ShowsFlush, FlushInv, Regular, Later
<1>4. ByThis'
  BY <1>1, <1>3 DEF ByThis, Later
<1>5. QED BY <1>1, <1>2, <1>3, <1>4 DEF FlushInv, AskFits

\* ---- The player
LEMMA FormKeeps ==
    ASSUME FlushInv, UNCHANGED <<match, view, round>>, FormFits(form', view),
           \/ form'.pressed = form.pressed /\ (UNCHANGED ask \/ ask' = NoAsk)
           \/ form'.pressed = view.rules /\ AskFields \subseteq DOMAIN ask' /\ ask'.revision = view.revision /\ ask'.rules = view.rules
    PROVE  FlushInv'
<1>1. AskFits(ask)'
  BY DEF FlushInv, AskFits
<1>2. ByThis'
  BY DEF FlushInv, ByThis
<1>3. QED BY <1>1, <1>2 DEF FlushInv

LEMMA RoundKeeps ==
    ASSUME FlushInv, UNCHANGED <<match, view, form, ask>>, RoundFits(round', view)
    PROVE  FlushInv'
<1>1. AskFits(ask)' /\ ByThis'
  BY DEF FlushInv, AskFits, ByThis
<1>2. QED BY <1>1 DEF FlushInv

LEMMA AskKeepsForm ==
    ASSUME FlushInv, NEW kind, kind # "start", Asks(kind), UNCHANGED <<match, view, form, round>>
    PROVE  FlushInv'
<1>1. ask' = [kind |-> kind, rules |-> form.draft, revision |-> form.base]
  BY DEF Asks
<1>2. AskFields \subseteq DOMAIN ask' /\ ask'.kind # "start"
  BY <1>1 DEF AskFields
<1>3. AskFits(ask)'
  BY <1>2 DEF AskFits
<1>4. ByThis'
  BY DEF FlushInv, ByThis
<1>5. QED BY <1>3, <1>4 DEF FlushInv

LEMMA StartKeeps == ASSUME FlushInv, StartGame PROVE FlushInv'
<1>1. /\ FormFits(form, view) /\ ~form.dirty /\ form.base = view.revision
      /\ form' = [form EXCEPT !.pressed = form.draft] /\ UNCHANGED <<match, view, round>>
      /\ ask' = [kind |-> "start", rules |-> form.draft, revision |-> form.base]
  BY DEF FlushInv, StartGame, FormationDisabled, Stale, Asks
<1>2. form.draft = view.rules
  BY <1>1 DEF FormFits
<1>3. /\ DOMAIN form' = DOMAIN form /\ form'.pressed = form.draft /\ form'.draft = form.draft /\ form'.dirty = form.dirty
      /\ form'.base = form.base
  BY <1>1 DEF FormFits, FormFields
<1>4. FormFits(form', view)
  BY <1>1, <1>3 DEF FormFits
<1>5. AskFields \subseteq DOMAIN ask' /\ ask'.revision = view.revision /\ ask'.rules = view.rules
  BY <1>1, <1>2 DEF AskFields
<1>6. QED BY <1>1, <1>2, <1>3, <1>4, <1>5, FormKeeps

LEMMA EditKeeps == ASSUME FlushInv, NEW rules, Edit(rules) PROVE FlushInv'
<1> DEFINE yes == TRUE
<1>1. FormFits(form, view) /\ form' = [form EXCEPT !.draft = rules, !.dirty = yes] /\ UNCHANGED <<match, view, round, ask>> /\ yes
  BY DEF FlushInv, Edit
<1> HIDE DEF yes
<1>2. DOMAIN form' = DOMAIN form /\ form'.pressed = form.pressed /\ form'.dirty = yes
  BY <1>1 DEF FormFits, FormFields
<1>3. form'.dirty
  BY <1>1, <1>2, Zenon
<1>4. FormFits(form', view)
  BY <1>1, <1>2, <1>3 DEF FormFits
<1>5. QED BY <1>1, <1>2, <1>4, FormKeeps

LEMMA FlipsKeep ==
    ASSUME FlushInv, FlipCard \/ ShowResult \/ Acknowledge \/ ToggleFinalShow \/ \E bet \in 1 .. MaxBets : BetLanded(bet)
    PROVE  FlushInv'
<1> DEFINE yes == TRUE
           no == FALSE
           other == ~round.finalOpen
<1>0. yes /\ ~no
  OBVIOUS
<1>1. /\ UNCHANGED <<match, view, form, ask>> /\ RoundFits(round, view)
      /\ \/ round' = [round EXCEPT !.flips = round.flips + 1] /\ ~round.resultOpen
         \/ round' = [round EXCEPT !.resultOpen = yes] /\ round.flips = OpponentCards
         \/ round' = [round EXCEPT !.acknowledged = view.compared, !.resultOpen = no]
         \/ round' = [round EXCEPT !.finalOpen = other]
         \/ \E bet : round' = [round EXCEPT !.flights = round.flights \ {bet}]
  BY Zenon DEF FlushInv, FlipCard, ShowResult, Acknowledge, ToggleFinalShow, BetLanded
<1> HIDE DEF yes, no, other
<1>2. /\ DOMAIN round' = DOMAIN round /\ round'.flights \subseteq round.flights
      /\ \/ round'.resultOpen = round.resultOpen /\ ~round.resultOpen
         \/ round'.resultOpen = no
         \/ round'.flips = round.flips /\ (round.flips = OpponentCards \/ round'.resultOpen = round.resultOpen)
  BY <1>1 DEF RoundFits, RoundFields
<1>3. round'.resultOpen => round'.flips = OpponentCards
  <2>1. CASE round'.resultOpen = no
    BY <1>0, <2>1, Zenon
  <2>2. CASE round'.resultOpen = round.resultOpen /\ ~round.resultOpen
    BY <2>2
  <2>3. CASE round'.flips = round.flips /\ (round.flips = OpponentCards \/ round'.resultOpen = round.resultOpen)
    BY <1>1, <2>3 DEF RoundFits
  <2>4. QED BY <1>2, <2>1, <2>2, <2>3
<1>4. RoundFits(round', view)
  BY <1>1, <1>2, <1>3 DEF RoundFits
<1>5. QED BY <1>1, <1>4, RoundKeeps

LEMMA CollapsedKeeps == ASSUME FlushInv, Collapsed PROVE FlushInv'
<1> DEFINE no == FALSE
           final == FinalStage(view) # "none"
<1>1. /\ form' = [Clean(view) EXCEPT !.pressed = form.pressed] /\ UNCHANGED <<match, view, ask>> /\ ~no
      /\ round' = [flips |-> 0, resultOpen |-> no, acknowledged |-> round.acknowledged, finalOpen |-> final,
                   flights |-> {}, last |-> view.bets]
  BY DEF Collapsed, FreshRound
<1> HIDE DEF no, final
<1>2. FormFits(form', view) /\ form'.pressed = form.pressed
  BY <1>1, ReloadFits
<1>3. DOMAIN round' = RoundFields /\ round'.flights = {} /\ round'.resultOpen = no
  BY <1>1 DEF RoundFields
<1>4. ~round'.resultOpen
  BY <1>1, <1>3, Zenon
<1>5. RoundFits(round', view)
  BY <1>3, <1>4 DEF RoundFits
<1>6. AskFits(ask)' /\ ByThis'
  BY <1>1, <1>2 DEF FlushInv, AskFits, ByThis
<1>7. QED BY <1>1, <1>2, <1>5, <1>6 DEF FlushInv

LEMMA FlushStep == FlushInv /\ [FlushScreenNext]_flushViewVars => FlushInv'
<1> SUFFICES ASSUME FlushInv, [FlushScreenNext]_flushViewVars PROVE FlushInv'
  OBVIOUS
<1>1. CASE MatchElsewhere \/ Carried
  BY <1>1, MatchElsewhereKeeps, CarriedKeeps
<1>2. CASE FlushRead \/ AskAnswered
  BY <1>2, ShownKeeps DEF FlushRead, AskAnswered
<1>3. CASE ReloadRules \/ AskFailed
  <2>1. FormFits(form', view) /\ form'.pressed = form.pressed /\ UNCHANGED <<match, view, round>> /\ (UNCHANGED ask \/ ask' = NoAsk)
    BY <1>3, ReloadFits DEF ReloadRules, AskFailed, FlushInv
  <2>2. QED BY <2>1, FormKeeps
<1>4. CASE ProposeDraft \/ LockTable \/ ActInRound
  BY <1>4, AskKeepsForm DEF ProposeDraft, LockTable, ActInRound
<1>5. CASE StartGame \/ \E rules \in RuleSets : Edit(rules)
  BY <1>5, StartKeeps, EditKeeps
<1>6. CASE FlipCard \/ ShowResult \/ Acknowledge \/ ToggleFinalShow \/ \E bet \in 1 .. MaxBets : BetLanded(bet)
  BY <1>6, FlipsKeep
<1>7. CASE Collapsed
  BY <1>7, CollapsedKeeps
<1>8. CASE UNCHANGED flushViewVars
  <2>1. UNCHANGED <<match, view, form, round, ask>>
    BY <1>8 DEF flushViewVars
  <2>2. AskFits(ask)' /\ ByThis'
    BY <2>1 DEF FlushInv, AskFits, ByThis
  <2>3. QED BY <2>1, <2>2 DEF FlushInv
<1>9. QED BY <1>1, <1>2, <1>3, <1>4, <1>5, <1>6, <1>7, <1>8 DEF FlushScreenNext

-------------------------------------------------------------------------------
(* The table of a Marriage match *)

RoundOf == {"turn", "phase", "declaring", "hand", "committed", "folded", "status", "moves", "said"}
SheetFields == {"snap", "closed", "hidden", "selected", "preview", "finish", "ticked"}
Proper(r) ==
    /\ RoundOf \subseteq DOMAIN r /\ r.hand \subseteq MarriageCards /\ r.moves \in Nat /\ IsFiniteSet(r.said)
Grows(n, r) == Proper(n) /\ r.moves <= n.moves
SheetFits(h, r) ==
    /\ SheetFields \subseteq DOMAIN h /\ h.selected \subseteq FreeCards(r)
    /\ HandSnap(Decision(r)) = "expanded" => h.snap = "expanded" \/ h.closed
\* The groups of a panel are of the cards it was computed for.
KeyCards(key) == IF key[1] = "win" THEN key[2] ELSE key[2] \ key[3]
PanelFits(p) ==
    /\ {"key", "choices", "page"} \subseteq DOMAIN p
    /\ p.choices # <<>> =>
         /\ p.page \in DOMAIN p.choices /\ p.key[1] \in {"win", "maal"}
         /\ \A i \in DOMAIN p.choices : p.choices[i] \subseteq KeyCards(p.key)
\* The moves that wait to fly are in their order, and none is newer than the last that was taken in.
FlightFits(f, r) ==
    /\ {"cursor", "queue"} \subseteq DOMAIN f /\ f.cursor = r.moves /\ f.queue \in Seq(Nat)
    /\ \A i, j \in DOMAIN f.queue : i < j => f.queue[i] < f.queue[j]
    /\ \A i \in DOMAIN f.queue : f.queue[i] <= f.cursor
NewsFits(n) ==
    /\ {"seen", "queue"} \subseteq DOMAIN n /\ n.queue \in Seq(n.seen) /\ IsInjective(n.queue)
MarriageInv ==
    /\ Proper(play) /\ Grows(play, sight)
    /\ Proper(sight) /\ SheetFits(sheet, sight) /\ PanelFits(meldPanel) /\ FlightFits(flying, sight) /\ NewsFits(news)

\* What is worked out for a hand is offered while that hand is on the screen.
LEMMA PanelShown == ASSUME Proper(sight), PanelFits(meldPanel), CanShow PROVE Choice \subseteq PanelCards(sight)
<1>1. Choice # {} /\ Options # <<>>
  BY DEF CanShow, Choice
<1>2. /\ meldPanel.key = PanelKey(sight) /\ meldPanel.choices # <<>> /\ Choice = meldPanel.choices[meldPanel.page]
  BY <1>1 DEF Options, Choice, Checking
<1> DEFINE panel == Panel(sight)
<1>3. meldPanel.key = <<panel, sight.hand, sight.committed>>
  BY <1>2 DEF PanelKey
<1>4. /\ panel = "win" => SeenMaal(sight)
      /\ panel = "maal" => ~SeenMaal(sight)
  BY DEF Panel
<1> HIDE DEF panel
<1>5. Choice \subseteq KeyCards(meldPanel.key) /\ meldPanel.key[1] \in {"win", "maal"}
  BY <1>2 DEF PanelFits
<1>6. meldPanel.key[1] = panel /\ meldPanel.key[2] = sight.hand /\ meldPanel.key[3] = sight.committed
  BY <1>3
<1>7. KeyCards(meldPanel.key) = PanelCards(sight)
  <2>1. CASE panel = "win"
    BY <1>4, <1>6, <2>1 DEF KeyCards, PanelCards
  <2>2. CASE panel = "maal"
    BY <1>4, <1>6, <2>2 DEF KeyCards, PanelCards, FreeCards
  <2>3. QED BY <1>5, <1>6, <2>1, <2>2
<1>8. QED BY <1>5, <1>7

LEMMA MarriageInvHolds == MarriageInv => ShownFromHand /\ SheetOpensForDecision /\ ToldOnce
<1> SUFFICES ASSUME MarriageInv PROVE ShownFromHand /\ SheetOpensForDecision /\ ToldOnce
  OBVIOUS
<1>1. ShownFromHand
  BY PanelShown DEF MarriageInv, ShownFromHand, SheetFits
<1>2. SheetOpensForDecision
  BY DEF MarriageInv, SheetOpensForDecision, SheetFits
<1>3. ToSet(news.queue) \subseteq news.seen
  <2>1. news.queue \in Seq(news.seen)
    BY DEF MarriageInv, NewsFits
  <2>2. \A i \in DOMAIN news.queue : news.queue[i] \in news.seen
    BY <2>1
  <2>3. QED BY <2>2 DEF ToSet
<1>4. ToldOnce
  BY <1>3 DEF MarriageInv, ToldOnce, FlightFits, NewsFits
<1>5. QED BY <1>1, <1>2, <1>4

\* ---- The match moves on
LEMMA FieldGrows ==
    ASSUME NEW r, Proper(r), NEW f \in {"turn", "phase", "declaring", "committed", "folded", "status"}, NEW v
    PROVE  Grows([r EXCEPT ![f] = v], r)
<1> DEFINE n == [r EXCEPT ![f] = v]
<1>1. DOMAIN n = DOMAIN r /\ n.hand = r.hand /\ n.moves = r.moves /\ n.said = r.said
  BY DEF Proper, RoundOf
<1> HIDE DEF n
<1>2. Grows(n, r)
  BY <1>1 DEF Proper, Grows
<1>3. QED BY <1>2 DEF n

LEMMA HandGrows ==
    ASSUME NEW r, Proper(r), NEW hand, hand \subseteq MarriageCards
    PROVE  Grows([r EXCEPT !.hand = hand], r)
<1> DEFINE n == [r EXCEPT !.hand = hand]
<1>1. DOMAIN n = DOMAIN r /\ n.hand = hand /\ n.moves = r.moves /\ n.said = r.said
  BY DEF Proper, RoundOf
<1> HIDE DEF n
<1>2. Grows(n, r)
  BY <1>1 DEF Proper, Grows
<1>3. QED BY <1>2 DEF n

LEMMA CountedGrows == ASSUME NEW r, Proper(r) PROVE LET n == Counted(r) IN Grows(n, r) /\ n.hand = r.hand
<1> DEFINE n == Counted(r)
<1>1. n = [r EXCEPT !.moves = r.moves + 1]
  BY DEF Counted
<1> HIDE DEF n
<1>2. DOMAIN n = DOMAIN r /\ n.hand = r.hand /\ n.moves = r.moves + 1 /\ n.said = r.said
  BY <1>1 DEF Proper, RoundOf
<1>3. Grows(n, r) /\ n.hand = r.hand
  BY <1>2 DEF Proper, Grows
<1>4. QED BY <1>3 DEF n

LEMMA AnnounceGrows == ASSUME NEW r, Proper(r), NEW kind, NEW who PROVE LET n == Announce(r, kind, who) IN Grows(n, r)
<1> DEFINE n == Announce(r, kind, who)
           said == r.said \cup {<<kind, who>>}
<1>1. n = [r EXCEPT !.said = said]
  BY DEF Announce
<1>2. IsFiniteSet(said)
  BY FS_AddElement DEF Proper
<1> HIDE DEF n, said
<1>3. DOMAIN n = DOMAIN r /\ n.hand = r.hand /\ n.moves = r.moves /\ n.said = said
  BY <1>1 DEF Proper, RoundOf
<1>4. Grows(n, r)
  BY <1>2, <1>3 DEF Proper, Grows
<1>5. QED BY <1>4 DEF n

LEMMA TurnGrows ==
    ASSUME NEW r, Proper(r), NEW turn, NEW phase
    PROVE  LET n == TurnTo(r, turn, phase) IN Grows(n, r) /\ n.hand = r.hand
<1> DEFINE n == TurnTo(r, turn, phase)
<1>1. n = [r EXCEPT !.turn = turn, !.phase = phase]
  BY DEF TurnTo
<1> HIDE DEF n
<1>2. DOMAIN n = DOMAIN r /\ n.hand = r.hand /\ n.moves = r.moves /\ n.said = r.said
  BY <1>1 DEF Proper, RoundOf
<1>3. Grows(n, r) /\ n.hand = r.hand
  BY <1>2 DEF Proper, Grows
<1>4. QED BY <1>3 DEF n

LEMMA GrowsOn == ASSUME NEW r, NEW m, NEW n, Proper(r), Grows(m, r), Grows(n, m) PROVE Grows(n, r)
BY DEF Grows, Proper

LEMMA FinishedGrows == ASSUME NEW r, Proper(r), NEW who PROVE Grows(Finished(r, who), r)
<1> DEFINE m == Announce(r, "win", who)
           n == [m EXCEPT !.status = "finished"]
<1>1. Grows(m, r)
  BY AnnounceGrows
<1> HIDE DEF m
<1>2. Grows(n, m)
  BY <1>1, FieldGrows DEF Grows
<1> HIDE DEF n
<1>3. Grows(n, r)
  BY <1>1, <1>2, GrowsOn
<1>4. QED BY <1>3 DEF n, m, Finished

LEMMA OutcomesGrow ==
    ASSUME NEW r, Proper(r), NEW name, NEW who, NEW given, NEW n \in Outcomes(r, name, who, given)
    PROVE  Grows(n, r)
<1> DEFINE declaring == r.declaring \ {who}
           yes == TRUE
<1>1. \/ \E m \in {r, Announce(r, "tunnela", who)} : \E d, v :
           /\ d = [m EXCEPT !.declaring = v]
           /\ n = d \/ \E t : n = TurnTo(d, t, "draw")
      \/ \E card \in MarriageCards : \E m : m = Counted(TurnTo(r, Me, "discard")) /\ n = [m EXCEPT !.hand = m.hand \cup {card}]
      \/ n = Counted(TurnTo(r, "other", "discard"))
      \/ \E v : n = Announce([r EXCEPT !.committed = v], "shown", who)
      \/ \E t, m : m = TurnTo(r, t, "draw") /\ \E hand \in {m.hand, m.hand \ given} : n = Counted([m EXCEPT !.hand = hand])
      \/ \E w : n = Finished(r, w)
      \/ \E m \in {r, TurnTo(r, "other", "draw")} : n = [m EXCEPT !.folded = TRUE]
  <2>1. CASE name = "DECLARE_TUNNELAS"
    BY <2>1 DEF Outcomes
  <2>2. CASE name = "DRAW_CARD"
    BY <2>2 DEF Outcomes
  <2>3. CASE name = "SHOW"
    BY <2>3 DEF Outcomes
  <2>4. CASE name = "DISCARD_CARD"
    BY <2>4 DEF Outcomes
  <2>5. CASE name = "FINISH"
    BY <2>5 DEF Outcomes
  <2>6. CASE name = "FOLD"
    BY <2>6 DEF Outcomes
  <2>7. CASE name \notin {"DECLARE_TUNNELAS", "DRAW_CARD", "SHOW", "DISCARD_CARD", "FINISH", "FOLD"}
    BY <2>7 DEF Outcomes
  <2>8. QED BY <2>1, <2>2, <2>3, <2>4, <2>5, <2>6, <2>7
<1>2. ASSUME NEW m \in {r, Announce(r, "tunnela", who)}, NEW d, NEW v, d = [m EXCEPT !.declaring = v],
             n = d \/ \E t : n = TurnTo(d, t, "draw")
      PROVE  Grows(n, r)
  <2>1. Grows(m, r)
    BY AnnounceGrows DEF Grows, Proper
  <2>2. Grows(d, m)
    <3>1. Grows([m EXCEPT !["declaring"] = v], m)
      BY <2>1, FieldGrows DEF Grows
    <3>2. QED BY <1>2, <3>1
  <2>3. Grows(d, r)
    BY <2>1, <2>2, GrowsOn
  <2>4. Grows(d, d) /\ Proper(d)
    BY <2>3 DEF Grows, Proper
  <2>5. \A t : Grows(TurnTo(d, t, "draw"), d)
    BY <2>4, TurnGrows
  <2>6. QED BY <1>2, <2>3, <2>4, <2>5, GrowsOn
<1>3. ASSUME NEW card \in MarriageCards, NEW m, m = Counted(TurnTo(r, Me, "discard")), n = [m EXCEPT !.hand = m.hand \cup {card}]
      PROVE  Grows(n, r)
  <2>1. Grows(TurnTo(r, Me, "discard"), r)
    BY TurnGrows
  <2>2. Grows(m, TurnTo(r, Me, "discard"))
    BY <1>3, <2>1, CountedGrows DEF Grows
  <2>3. Grows(m, r)
    BY <2>1, <2>2, GrowsOn
  <2>4. m.hand \cup {card} \subseteq MarriageCards
    BY <2>3 DEF Grows, Proper
  <2>5. Grows(n, m)
    BY <1>3, <2>3, <2>4, HandGrows DEF Grows
  <2>6. QED BY <2>3, <2>5, GrowsOn
<1>4. ASSUME n = Counted(TurnTo(r, "other", "discard")) PROVE Grows(n, r)
  <2>1. Grows(TurnTo(r, "other", "discard"), r)
    BY TurnGrows
  <2>2. Grows(n, TurnTo(r, "other", "discard"))
    BY <1>4, <2>1, CountedGrows DEF Grows
  <2>3. QED BY <2>1, <2>2, GrowsOn
<1>5. ASSUME NEW v, n = Announce([r EXCEPT !.committed = v], "shown", who) PROVE Grows(n, r)
  <2> DEFINE m == [r EXCEPT !.committed = v]
  <2>1. Grows(m, r)
    BY FieldGrows
  <2> HIDE DEF m
  <2>2. Grows(n, m)
    BY <1>5, <2>1, AnnounceGrows DEF Grows, m
  <2>3. QED BY <2>1, <2>2, GrowsOn
<1>6. ASSUME NEW t, NEW m, m = TurnTo(r, t, "draw"), NEW hand \in {m.hand, m.hand \ given}, n = Counted([m EXCEPT !.hand = hand])
      PROVE  Grows(n, r)
  <2> DEFINE d == [m EXCEPT !.hand = hand]
  <2>1. Grows(m, r)
    BY <1>6, TurnGrows
  <2>2. hand \subseteq MarriageCards
    BY <2>1 DEF Grows, Proper
  <2>3. Grows(d, m)
    BY <2>1, <2>2, HandGrows DEF Grows
  <2> HIDE DEF d
  <2>4. Grows(n, d)
    BY <1>6, <2>3, CountedGrows DEF Grows, d
  <2>5. Grows(d, r)
    BY <2>1, <2>3, GrowsOn
  <2>6. QED BY <2>4, <2>5, GrowsOn
<1>7. ASSUME NEW m \in {r, TurnTo(r, "other", "draw")}, n = [m EXCEPT !.folded = TRUE] PROVE Grows(n, r)
  <2>1. Grows(m, r)
    BY TurnGrows DEF Grows, Proper
  <2>2. PICK v : n = [m EXCEPT !.folded = v]
    BY <1>7
  <2>3. Grows([m EXCEPT !["folded"] = v], m)
    BY <2>1, FieldGrows DEF Grows
  <2>4. Grows(n, m)
    BY <2>2, <2>3
  <2>5. QED BY <2>1, <2>4, GrowsOn
<1>8. QED
  <2>1. (\E w : n = Finished(r, w)) => Grows(n, r)
    BY FinishedGrows
  <2>2. QED BY <1>1, <1>2, <1>3, <1>4, <1>5, <1>6, <1>7, <2>1, Zenon

\* ---- Lists of the members of a set
LEMMA SetToSeqFacts ==
    ASSUME NEW S, IsFiniteSet(S)
    PROVE  /\ SetToSeq(S) \in Seq(S) /\ IsInjective(SetToSeq(S))
<1> DEFINE n == Cardinality(S)
<1>1. n \in Nat /\ ExistsBijection(1 .. n, S)
  BY FS_CardinalityType
<1>2. PICK g : g \in Bijection(1 .. n, S)
  BY <1>1, Zenon DEF ExistsBijection
<1>3. g \in [1 .. n -> S] /\ IsInjective(g)
  BY <1>2 DEF Bijection, Injection, IsInjective
<1>4. SetToSeq(S) \in [1 .. n -> S] /\ IsInjective(SetToSeq(S))
  BY <1>3, Zenon DEF SetToSeq
<1> HIDE DEF n
<1>5. SetToSeq(S) \in Seq(S)
  BY <1>1, <1>4
<1>6. QED BY <1>4, <1>5

LEMMA JoinedInjective ==
    ASSUME NEW S, NEW T, S \cap T = {}, NEW s \in Seq(S), NEW t \in Seq(T), IsInjective(s), IsInjective(t)
    PROVE  s \o t \in Seq(S \cup T) /\ IsInjective(s \o t)
<1> DEFINE j == s \o t
<1>1. /\ Len(s) \in Nat /\ Len(t) \in Nat /\ DOMAIN s = 1 .. Len(s) /\ DOMAIN t = 1 .. Len(t)
      /\ DOMAIN j = 1 .. (Len(s) + Len(t))
      /\ \A i \in DOMAIN j : j[i] = IF i <= Len(s) THEN s[i] ELSE t[i - Len(s)]
  OBVIOUS
<1>2. s \in Seq(S \cup T) /\ t \in Seq(S \cup T)
  <2>1. s \in [1 .. Len(s) -> S \cup T] /\ t \in [1 .. Len(t) -> S \cup T]
    OBVIOUS
  <2>2. QED BY <1>1, <2>1
<1>3. j \in Seq(S \cup T)
  BY <1>2
<1>4. \A i \in DOMAIN s : s[i] \in S
  OBVIOUS
<1>5. \A i \in DOMAIN t : t[i] \in T
  OBVIOUS
<1> HIDE DEF j
<1>6. ASSUME NEW a \in DOMAIN j, NEW b \in DOMAIN j, j[a] = j[b] PROVE a = b
  <2>1. CASE a <= Len(s) /\ b <= Len(s)
    <3>1. a \in DOMAIN s /\ b \in DOMAIN s /\ j[a] = s[a] /\ j[b] = s[b]
      BY <1>1, <2>1
    <3>2. QED BY <1>6, <3>1 DEF IsInjective
  <2>2. CASE ~(a <= Len(s)) /\ ~(b <= Len(s))
    <3>1. a - Len(s) \in DOMAIN t /\ b - Len(s) \in DOMAIN t /\ j[a] = t[a - Len(s)] /\ j[b] = t[b - Len(s)]
      BY <1>1, <2>2
    <3>2. a - Len(s) = b - Len(s)
      BY <1>6, <3>1 DEF IsInjective
    <3>3. QED BY <1>1, <3>2
  <2>3. CASE a <= Len(s) /\ ~(b <= Len(s))
    <3>1. a \in DOMAIN s /\ b - Len(s) \in DOMAIN t /\ j[a] = s[a] /\ j[b] = t[b - Len(s)]
      BY <1>1, <2>3
    <3>2. QED BY <1>4, <1>5, <1>6, <3>1
  <2>4. CASE ~(a <= Len(s)) /\ b <= Len(s)
    <3>1. b \in DOMAIN s /\ a - Len(s) \in DOMAIN t /\ j[b] = s[b] /\ j[a] = t[a - Len(s)]
      BY <1>1, <2>4
    <3>2. QED BY <1>4, <1>5, <1>6, <3>1
  <2>5. QED BY <2>1, <2>2, <2>3, <2>4
<1>7. IsInjective(j)
  BY <1>6 DEF IsInjective
<1>8. QED BY <1>3, <1>7 DEF j

LEMMA SeqOfMore == ASSUME NEW S, NEW T, S \subseteq T, NEW s \in Seq(S) PROVE s \in Seq(T)
<1>1. s \in [1 .. Len(s) -> T] /\ Len(s) \in Nat
  OBVIOUS
<1>2. QED BY <1>1

LEMMA Joined ==
    ASSUME NEW S, NEW s \in Seq(S), NEW t \in Seq(S)
    PROVE  /\ s \o t \in Seq(S) /\ DOMAIN (s \o t) = 1 .. (Len(s) + Len(t))
           /\ \A i \in DOMAIN (s \o t) : (s \o t)[i] = IF i <= Len(s) THEN s[i] ELSE t[i - Len(s)]
OBVIOUS

\* ---- The effects of a snapshot
LEMMA SheetTakesIn ==
    ASSUME SheetFits(sheet, sight), NEW r, NEW failed
    PROVE  SheetFits(SheetEffects(sheet, r, failed), r)
<1> DEFINE first == IF <<r.hand, r.committed>> = <<sight.hand, sight.committed>> THEN sheet
                    ELSE [sheet EXCEPT !.selected = @ \cap FreeCards(r)]
           second == IF SeenMaal(r) /\ ~SeenMaal(sight) THEN [first EXCEPT !.preview = FALSE] ELSE first
           showing == second.preview /\ ~r.folded
           ending == second.finish /\ ~r.folded
           folded == [second EXCEPT !.selected = IF r.folded THEN {} ELSE @, !.preview = showing, !.finish = ending]
           no == FALSE
           decided == IF Decision(r) = Decision(sight) THEN folded
                      ELSE [folded EXCEPT !.snap = HandSnap(Decision(r)), !.closed = no, !.selected = {}]
           going == decided.finish /\ Going(r)
           done == [decided EXCEPT !.finish = going, !.ticked = IF Decision(r) = "DECLARE_TUNNELAS" THEN @ ELSE <<>>]
           last == IF failed /\ done.selected # {} /\ Decision(r) = "DISCARD_REQUIRED"
                   THEN [done EXCEPT !.snap = "expanded", !.closed = no] ELSE done
<1>0. last = SheetEffects(sheet, r, failed)
  BY Zenon DEF SheetEffects
<1>1. /\ SheetFields \subseteq DOMAIN first /\ first.selected \subseteq FreeCards(r)
      /\ first.snap = sheet.snap /\ first.closed = sheet.closed
  BY DEF SheetFits, SheetFields, FreeCards
<1> HIDE DEF first
<1>2. /\ SheetFields \subseteq DOMAIN second /\ second.selected \subseteq FreeCards(r)
      /\ second.snap = sheet.snap /\ second.closed = sheet.closed
  <2>1. PICK v : second = first \/ second = [first EXCEPT !.preview = v]
    OBVIOUS
  <2> HIDE DEF second
  <2>2. QED BY <1>1, <2>1 DEF SheetFields
<1> HIDE DEF second, showing, ending
<1>3. /\ SheetFields \subseteq DOMAIN folded /\ folded.selected \subseteq FreeCards(r)
      /\ folded.snap = sheet.snap /\ folded.closed = sheet.closed
  BY <1>2 DEF SheetFields
<1> HIDE DEF folded, no
<1>4. SheetFits(decided, r)
  <2>1. CASE Decision(r) = Decision(sight)
    BY <1>3, <2>1 DEF SheetFits
  <2>2. CASE Decision(r) # Decision(sight)
    <3>1. decided = [folded EXCEPT !.snap = HandSnap(Decision(r)), !.closed = no, !.selected = {}]
      BY <2>2
    <3> HIDE DEF decided
    <3>2. SheetFields \subseteq DOMAIN decided /\ decided.snap = HandSnap(Decision(r)) /\ decided.selected = {}
      BY <1>3, <3>1 DEF SheetFields
    <3>3. QED BY <3>2 DEF SheetFits
  <2>3. QED BY <2>1, <2>2
<1> HIDE DEF decided, going
<1>5. SheetFits(done, r)
  <2>1. SheetFields \subseteq DOMAIN done /\ done.selected = decided.selected /\ done.snap = decided.snap /\ done.closed = decided.closed
    BY <1>4 DEF SheetFits, SheetFields
  <2> HIDE DEF done
  <2>2. QED BY <1>4, <2>1 DEF SheetFits
<1> HIDE DEF done
<1>6. SheetFits(last, r)
  <2>1. PICK v : last = done \/ last = [done EXCEPT !.snap = "expanded", !.closed = v]
    OBVIOUS
  <2> HIDE DEF last
  <2>2. CASE last = [done EXCEPT !.snap = "expanded", !.closed = v]
    <3>1. SheetFields \subseteq DOMAIN last /\ last.selected = done.selected /\ last.snap = "expanded"
      BY <1>5, <2>2 DEF SheetFits, SheetFields
    <3>2. QED BY <1>5, <3>1 DEF SheetFits
  <2>3. QED BY <1>5, <2>1, <2>2
<1>7. QED BY <1>0, <1>6

LEMMA FlightTakesIn ==
    ASSUME NEW f, NEW s, NEW r, FlightFits(f, s), Proper(s), Proper(r), s.moves <= r.moves
    PROVE  FlightFits(FlightEffects(f, r), r)
<1> DEFINE new == [i \in 1 .. (r.moves - f.cursor) |-> f.cursor + i]
           queue == f.queue \o new
           n == FlightEffects(f, r)
<1>1. f.cursor \in Nat /\ r.moves \in Nat /\ r.moves - f.cursor \in Nat
  BY DEF FlightFits, Proper
<1>2. new \in Seq(Nat) /\ Len(new) = r.moves - f.cursor /\ \A i \in 1 .. Len(new) : new[i] = f.cursor + i
  <2>1. new \in [1 .. (r.moves - f.cursor) -> Nat]
    BY <1>1
  <2>2. QED BY <1>1, <2>1
<1>3. n = [f EXCEPT !.cursor = r.moves, !.queue = queue]
  BY DEF FlightEffects
<1> HIDE DEF new, n
<1>4. /\ f.queue \in Seq(Nat) /\ Len(f.queue) \in Nat /\ DOMAIN f.queue = 1 .. Len(f.queue)
      /\ \A i, j \in DOMAIN f.queue : i < j => f.queue[i] < f.queue[j]
      /\ \A i \in DOMAIN f.queue : f.queue[i] \in Nat /\ f.queue[i] <= f.cursor
  BY DEF FlightFits
<1>5. /\ queue \in Seq(Nat) /\ DOMAIN queue = 1 .. (Len(f.queue) + Len(new))
      /\ \A i \in DOMAIN queue : queue[i] = IF i <= Len(f.queue) THEN f.queue[i] ELSE new[i - Len(f.queue)]
  BY <1>2, <1>4, Joined
<1> HIDE DEF queue
<1>6. \A i \in DOMAIN queue : /\ i <= Len(f.queue) => i \in DOMAIN f.queue /\ queue[i] = f.queue[i] /\ queue[i] \in Nat /\ queue[i] <= f.cursor
                              /\ ~(i <= Len(f.queue)) => queue[i] = f.cursor + (i - Len(f.queue)) /\ i - Len(f.queue) <= r.moves - f.cursor
                              /\ i \in Nat
  <2> SUFFICES ASSUME NEW i \in DOMAIN queue
               PROVE  /\ i <= Len(f.queue) => i \in DOMAIN f.queue /\ queue[i] = f.queue[i] /\ queue[i] \in Nat /\ queue[i] <= f.cursor
                      /\ ~(i <= Len(f.queue)) => queue[i] = f.cursor + (i - Len(f.queue)) /\ i - Len(f.queue) <= r.moves - f.cursor
                      /\ i \in Nat
    OBVIOUS
  <2>1. i \in Nat /\ Len(new) \in Nat
    BY <1>1, <1>2, <1>4, <1>5
  <2>2. i <= Len(f.queue) => i \in DOMAIN f.queue
    BY <1>2, <1>4, <1>5, <2>1
  <2>3. ~(i <= Len(f.queue)) => i - Len(f.queue) \in 1 .. Len(new)
    BY <1>2, <1>4, <1>5, <2>1
  <2>4. QED BY <1>1, <1>2, <1>4, <1>5, <2>1, <2>2, <2>3
<1>7. ASSUME NEW i \in DOMAIN queue, NEW j \in DOMAIN queue, i < j PROVE queue[i] < queue[j]
  <2>1. CASE j <= Len(f.queue)
    <3>1. i <= Len(f.queue)
      BY <1>4, <1>6, <1>7, <2>1
    <3>2. QED BY <1>4, <1>6, <1>7, <2>1, <3>1
  <2>2. CASE ~(j <= Len(f.queue)) /\ i <= Len(f.queue)
    BY <1>1, <1>4, <1>6, <2>2
  <2>3. CASE ~(j <= Len(f.queue)) /\ ~(i <= Len(f.queue))
    BY <1>1, <1>4, <1>6, <1>7, <2>3
  <2>4. QED BY <2>1, <2>2, <2>3
<1>8. \A i \in DOMAIN queue : queue[i] <= r.moves
  <2> SUFFICES ASSUME NEW i \in DOMAIN queue PROVE queue[i] <= r.moves
    OBVIOUS
  <2>1. CASE i <= Len(f.queue)
    BY <1>1, <1>6, <2>1
  <2>2. CASE ~(i <= Len(f.queue))
    BY <1>1, <1>4, <1>6, <2>2
  <2>3. QED BY <2>1, <2>2
<1>9. n.cursor = r.moves /\ n.queue = queue /\ {"cursor", "queue"} \subseteq DOMAIN n
  BY <1>3 DEF FlightFits
<1>10. FlightFits(n, r)
  BY <1>5, <1>7, <1>8, <1>9 DEF FlightFits
<1>11. QED BY <1>10 DEF n

LEMMA NewsTakesIn ==
    ASSUME NEW n, NewsFits(n), NEW r, Proper(r)
    PROVE  NewsFits(NewsEffects(n, r))
<1> DEFINE fresh == r.said \ n.seen
           wins == {e \in fresh : e[1] = "win"}
           queue == IF wins # {} THEN SetToSeq(wins) ELSE n.queue \o SetToSeq(fresh)
           offered == NewsEffects(n, r)
<1>1. offered = [n EXCEPT !.seen = n.seen \cup r.said, !.queue = queue]
  BY DEF NewsEffects
<1>2. fresh \subseteq r.said /\ wins \subseteq fresh /\ n.seen \cap fresh = {} /\ n.seen \cup fresh = n.seen \cup r.said
  OBVIOUS
<1>3. IsFiniteSet(fresh) /\ IsFiniteSet(wins)
  <2>1. IsFiniteSet(fresh)
    BY <1>2, FS_Subset DEF Proper
  <2> HIDE DEF fresh, wins
  <2>2. QED BY <1>2, <2>1, FS_Subset
<1> HIDE DEF offered, fresh, wins
<1>4. queue \in Seq(n.seen \cup r.said) /\ IsInjective(queue)
  <2>1. CASE wins # {}
    <3>1. queue = SetToSeq(wins) /\ SetToSeq(wins) \in Seq(wins) /\ IsInjective(SetToSeq(wins))
      BY <1>3, <2>1, SetToSeqFacts
    <3>2. wins \subseteq n.seen \cup r.said
      BY <1>2
    <3> HIDE DEF queue
    <3>3. QED BY <3>1, <3>2, SeqOfMore
  <2>2. CASE wins = {}
    <3> DEFINE t == SetToSeq(fresh)
               joined == n.queue \o t
    <3>1. queue = joined
      BY <2>2
    <3>2. t \in Seq(fresh) /\ IsInjective(t)
      BY <1>3, SetToSeqFacts
    <3>3. n.queue \in Seq(n.seen) /\ IsInjective(n.queue)
      BY DEF NewsFits
    <3> HIDE DEF t, queue
    <3>4. joined \in Seq(n.seen \cup fresh) /\ IsInjective(joined)
      BY <1>2, <3>2, <3>3, JoinedInjective
    <3>5. QED BY <1>2, <3>1, <3>4
  <2>3. QED BY <2>1, <2>2
<1> HIDE DEF queue
<1>5. offered.seen = n.seen \cup r.said /\ offered.queue = queue /\ {"seen", "queue"} \subseteq DOMAIN offered
  BY <1>1 DEF NewsFits
<1>6. NewsFits(offered)
  BY <1>4, <1>5 DEF NewsFits
<1>7. QED BY <1>6 DEF offered

LEMMA NoPanelFits == PanelFits(NoPanel)
<1>1. NoPanel.choices = <<>> /\ {"key", "choices", "page"} \subseteq DOMAIN NoPanel
  BY DEF NoPanel
<1>2. QED BY <1>1 DEF PanelFits

LEMMA RendersKeeps ==
    ASSUME MarriageInv, NEW r, Grows(play, r), Grows(r, sight), NEW failed, Renders(r, failed), UNCHANGED play
    PROVE  MarriageInv'
<1> DEFINE s == sight'
           h == sheet'
           f == flying'
           w == news'
           p == meldPanel'
           q == play'
<1>1. /\ s = r /\ h = SheetEffects(sheet, r, failed) /\ f = FlightEffects(flying, r) /\ w = NewsEffects(news, r)
      /\ p \in {meldPanel, NoPanel} /\ q = play
  BY DEF Renders
<1> HIDE DEF s, h, f, w, p, q
<1>2. Proper(sight) /\ Proper(r) /\ sight.moves <= r.moves /\ FlightFits(flying, sight) /\ NewsFits(news) /\ SheetFits(sheet, sight) /\ PanelFits(meldPanel) /\ Proper(play)
  BY DEF MarriageInv, Grows
<1>3. SheetFits(h, s)
  BY <1>1, <1>2, SheetTakesIn
<1>4. FlightFits(f, s)
  BY <1>1, <1>2, FlightTakesIn
<1>5. NewsFits(w)
  BY <1>1, <1>2, NewsTakesIn
<1>6. PanelFits(p)
  BY <1>1, <1>2, NoPanelFits
<1>7. Proper(q) /\ Grows(q, s) /\ Proper(s)
  BY <1>1, <1>2
<1>8. QED BY <1>3, <1>4, <1>5, <1>6, <1>7 DEF MarriageInv, s, h, f, w, p, q

\* ---- What the panel works out
LEMMA ComputedFits ==
    ASSUME Proper(sight), Panel(sight) # "none", NEW p,
           p = [key |-> PanelKey(sight), choices |-> GroupChoices(sight), page |-> 1]
    PROVE  PanelFits(p)
<1> DEFINE panel == Panel(sight)
           groups == kSubset(Group, PanelCards(sight))
           choices == SetToSeq(groups)
<1>1. p.key = <<panel, sight.hand, sight.committed>> /\ p.choices = choices /\ p.page = 1 /\ {"key", "choices", "page"} \subseteq DOMAIN p
  BY DEF PanelKey, GroupChoices
<1>2. /\ panel \in {"win", "maal"}
      /\ panel = "win" => SeenMaal(sight)
      /\ panel = "maal" => ~SeenMaal(sight)
  BY DEF Panel
<1>3. KeyCards(p.key) = PanelCards(sight)
  <2>1. p.key[1] = panel /\ p.key[2] = sight.hand /\ p.key[3] = sight.committed
    BY <1>1
  <2> HIDE DEF panel
  <2>2. CASE panel = "win"
    BY <1>2, <2>1, <2>2 DEF KeyCards, PanelCards
  <2>3. CASE panel = "maal"
    BY <1>2, <2>1, <2>3 DEF KeyCards, PanelCards, FreeCards
  <2>4. QED BY <1>2, <2>2, <2>3
<1>4. IsFiniteSet(PanelCards(sight))
  <2>1. PanelCards(sight) \subseteq MarriageCards
    BY DEF PanelCards, FreeCards, Proper
  <2>2. QED BY <2>1, MarriageScreenAssumption, FS_Subset
<1>5. IsFiniteSet(groups) /\ groups \subseteq SUBSET PanelCards(sight)
  <2>1. IsFiniteSet(SUBSET PanelCards(sight))
    BY <1>4, FS_SUBSET
  <2>2. groups \subseteq SUBSET PanelCards(sight)
    BY DEF kSubset
  <2> HIDE DEF groups
  <2>3. QED BY <2>1, <2>2, FS_Subset
<1> HIDE DEF groups
<1>6. choices \in Seq(groups)
  BY <1>5, SetToSeqFacts
<1> HIDE DEF choices
<1>7. \A i \in DOMAIN choices : choices[i] \subseteq PanelCards(sight)
  BY <1>5, <1>6
<1>8. choices # <<>> => 1 \in DOMAIN choices
  BY <1>6
<1>9. p.key[1] \in {"win", "maal"}
  BY <1>1, <1>2
<1>10. QED BY <1>1, <1>3, <1>7, <1>8, <1>9 DEF PanelFits

\* ---- One part of the screen at a time
LEMMA MatchKeeps ==
    ASSUME MarriageInv, Grows(play', play), UNCHANGED <<sight, sheet, meldPanel, flying, news>>
    PROVE  MarriageInv'
<1> DEFINE q == play'
<1>1. Grows(q, play) /\ Proper(sight) /\ Grows(play, sight)
  BY DEF MarriageInv
<1> HIDE DEF q
<1>2. Grows(q, sight) /\ Proper(q)
  BY <1>1, GrowsOn DEF Grows
<1>3. QED BY <1>2 DEF MarriageInv, q

LEMMA SheetKeeps ==
    ASSUME MarriageInv, SheetFits(sheet', sight), UNCHANGED <<play, sight, meldPanel, flying, news>>
    PROVE  MarriageInv'
BY DEF MarriageInv

LEMMA MeldPanelKeeps ==
    ASSUME MarriageInv, PanelFits(meldPanel'), UNCHANGED <<play, sight, sheet, flying, news>>
    PROVE  MarriageInv'
BY DEF MarriageInv

\* What is neither the chosen card nor the position of the sheet may change at will.
LEMMA SheetAside ==
    ASSUME NEW h, NEW n, SheetFits(h, sight), SheetFields \subseteq DOMAIN n,
           n.selected \subseteq FreeCards(sight), n.snap = h.snap, n.closed = h.closed
    PROVE  SheetFits(n, sight)
BY DEF SheetFits

LEMMA SlideFits ==
    ASSUME SheetFits(sheet, sight), SlideSheet
    PROVE  SheetFits(sheet', sight)
<1> DEFINE open == sheet.snap = "expanded" /\ HandSnap(Decision(sight)) = "expanded"
           snap == IF sheet.snap = "expanded" THEN "collapsed" ELSE "expanded"
           n == sheet'
<1>1. n = [sheet EXCEPT !.snap = snap, !.closed = open]
  BY DEF SlideSheet, Screen
<1>2. snap = "expanded" \/ (HandSnap(Decision(sight)) = "expanded" => open)
  OBVIOUS
<1> HIDE DEF open, snap, n
<1>3. SheetFields \subseteq DOMAIN n /\ n.selected = sheet.selected /\ n.snap = snap /\ n.closed = open
  BY <1>1 DEF SheetFits, SheetFields
<1>4. HandSnap(Decision(sight)) = "expanded" => n.snap = "expanded" \/ n.closed
  <2>1. snap = "expanded" => n.snap = "expanded"
    BY <1>3
  <2>2. open => n.closed
    BY <1>3, Zenon
  <2>3. QED BY <1>2, <2>1, <2>2
<1>5. SheetFits(n, sight)
  BY <1>3, <1>4 DEF SheetFits
<1>6. QED BY <1>5 DEF n

LEMMA AsideFits ==
    ASSUME SheetFits(sheet, sight),
           \/ Hide \/ OpenPreview \/ ClosePreview \/ Detect \/ CloseTunnelas
           \/ (\E card \in MarriageCards : SelectForDiscard(card)) \/ \E t \in Tunnelas : Tick(t)
    PROVE  SheetFits(sheet', sight)
<1> DEFINE n == sheet'
<1>1. \/ \E a, b, c : n = [sheet EXCEPT !.hidden = a, !.selected = {}, !.preview = b, !.finish = c]
      \/ \E b, c : n = [sheet EXCEPT !.preview = b, !.finish = c]
      \/ \E v : n = [sheet EXCEPT !.ticked = v]
      \/ \E card \in FreeCards(sight) : \E v \in {{}, {card}} : n = [sheet EXCEPT !.selected = v]
  <2>1. CASE Hide
    BY <2>1, Zenon DEF Hide, Screen
  <2>2. CASE OpenPreview \/ ClosePreview
    BY <2>2, Zenon DEF OpenPreview, ClosePreview, Screen
  <2>3. CASE Detect \/ CloseTunnelas
    BY <2>3 DEF Detect, CloseTunnelas, Screen
  <2>4. CASE \E t \in Tunnelas : Tick(t)
    <3>1. PICK t \in Tunnelas : Tick(t)
      BY <2>4
    <3>2. QED BY <3>1 DEF Tick, Screen
  <2>5. CASE \E card \in MarriageCards : SelectForDiscard(card)
    <3>1. PICK card \in MarriageCards : SelectForDiscard(card)
      BY <2>5
    <3>2. QED BY <3>1 DEF SelectForDiscard, Screen
  <2>6. QED BY <2>1, <2>2, <2>3, <2>4, <2>5
<1> HIDE DEF n
<1>2. SheetFields \subseteq DOMAIN sheet /\ sheet.selected \subseteq FreeCards(sight)
  BY DEF SheetFits
<1>3. SheetFields \subseteq DOMAIN n /\ n.selected \subseteq FreeCards(sight) /\ n.snap = sheet.snap /\ n.closed = sheet.closed
  BY <1>1, <1>2 DEF SheetFields
<1>4. SheetFits(n, sight)
  BY <1>3, SheetAside
<1>5. QED BY <1>4 DEF n

\* ---- A queue that is shown is taken from its front.
LEMMA TailIs ==
    ASSUME NEW S, NEW s \in Seq(S), s # <<>>
    PROVE  Tail(s) \in Seq(S) /\ \A i \in DOMAIN Tail(s) : i \in Nat /\ i + 1 \in DOMAIN s /\ Tail(s)[i] = s[i + 1]
OBVIOUS

LEMMA LandedKeeps == ASSUME MarriageInv, CardLanded PROVE MarriageInv'
<1> DEFINE n == flying'
           rest == Tail(flying.queue)
<1>1. FlightFits(flying, sight) /\ flying.queue # <<>> /\ n = [flying EXCEPT !.queue = rest]
  BY DEF CardLanded, MarriageInv
<1>2. rest \in Seq(Nat) /\ \A i \in DOMAIN rest : i \in Nat /\ i + 1 \in DOMAIN flying.queue /\ rest[i] = flying.queue[i + 1]
  BY <1>1, TailIs DEF FlightFits
<1> HIDE DEF n, rest
<1>3. {"cursor", "queue"} \subseteq DOMAIN n /\ n.cursor = flying.cursor /\ n.queue = rest
  BY <1>1 DEF FlightFits
<1>4. ASSUME NEW i \in DOMAIN rest, NEW j \in DOMAIN rest, i < j PROVE rest[i] < rest[j]
  <2>1. i \in Nat /\ j \in Nat /\ i + 1 < j + 1
    BY <1>2, <1>4
  <2>2. QED BY <1>1, <1>2, <2>1 DEF FlightFits
<1>5. FlightFits(n, sight)
  BY <1>1, <1>2, <1>3, <1>4 DEF FlightFits
<1>6. FlightFits(flying, sight)'
  BY <1>5 DEF CardLanded, n, FlightFits
<1>7. UNCHANGED <<play, sight, sheet, meldPanel, news>>
  BY DEF CardLanded
<1>8. QED BY <1>6, <1>7 DEF MarriageInv

LEMMA DismissKeeps == ASSUME MarriageInv, Dismiss PROVE MarriageInv'
<1> DEFINE n == news'
           rest == Tail(news.queue)
<1>1. NewsFits(news) /\ news.queue # <<>> /\ n = [news EXCEPT !.queue = rest]
  BY DEF Dismiss, MarriageInv
<1>2. rest \in Seq(news.seen) /\ \A i \in DOMAIN rest : i \in Nat /\ i + 1 \in DOMAIN news.queue /\ rest[i] = news.queue[i + 1]
  BY <1>1, TailIs DEF NewsFits
<1> HIDE DEF n, rest
<1>3. {"seen", "queue"} \subseteq DOMAIN n /\ n.seen = news.seen /\ n.queue = rest
  BY <1>1 DEF NewsFits
<1>4. ASSUME NEW i \in DOMAIN rest, NEW j \in DOMAIN rest, rest[i] = rest[j] PROVE i = j
  <2>1. i + 1 = j + 1
    BY <1>1, <1>2, <1>4 DEF NewsFits, IsInjective
  <2>2. QED BY <1>2, <2>1
<1>5. NewsFits(n)
  BY <1>2, <1>3, <1>4 DEF NewsFits, IsInjective
<1>6. UNCHANGED <<play, sight, sheet, meldPanel, flying>>
  BY DEF Dismiss
<1>7. QED BY <1>5, <1>6 DEF MarriageInv, n

\* ---- The table as it is opened
LEMMA MountedFits ==
    ASSUME NEW r, Proper(r)
    PROVE  SheetFits(MountedSheet(r), r) /\ FlightFits(MountedFlight(r), r) /\ NewsFits(MountedNews(r))
<1> DEFINE no == FALSE
           h == MountedSheet(r)
           f == MountedFlight(r)
           w == MountedNews(r)
           wins == {e \in r.said : e[1] = "win"}
           won == SetToSeq(wins)
<1>1. h = [snap |-> HandSnap(Decision(r)), closed |-> no, hidden |-> no, selected |-> {}, preview |-> no,
           finish |-> no, ticked |-> <<>>]
  BY DEF MountedSheet
<1>2. f = [cursor |-> r.moves, queue |-> <<>>] /\ w = [seen |-> r.said, queue |-> won]
  BY DEF MountedFlight, MountedNews
<1>3. IsFiniteSet(wins) /\ wins \subseteq r.said
  BY FS_Subset DEF Proper
<1> HIDE DEF no, h, f, w, wins
<1>4. won \in Seq(wins) /\ IsInjective(won)
  BY <1>3, SetToSeqFacts
<1> HIDE DEF won
<1>5. won \in Seq(r.said)
  BY <1>3, <1>4, SeqOfMore
<1>6. SheetFields \subseteq DOMAIN h /\ h.selected = {} /\ h.snap = HandSnap(Decision(r))
  BY <1>1 DEF SheetFields
<1>7. SheetFits(h, r)
  BY <1>6 DEF SheetFits
<1>8. {"cursor", "queue"} \subseteq DOMAIN f /\ f.cursor = r.moves /\ f.queue = <<>>
  BY <1>2
<1>9. FlightFits(f, r)
  BY <1>8 DEF FlightFits
<1>10. {"seen", "queue"} \subseteq DOMAIN w /\ w.seen = r.said /\ w.queue = won
  BY <1>2
<1>11. NewsFits(w)
  BY <1>4, <1>5, <1>10 DEF NewsFits
<1>12. QED BY <1>7, <1>9, <1>11 DEF h, f, w

LEMMA ReopenedKeeps == ASSUME MarriageInv, TableReopened PROVE MarriageInv'
<1> DEFINE h == sheet'
           f == flying'
           w == news'
           p == meldPanel'
<1>1. h = MountedSheet(sight) /\ f = MountedFlight(sight) /\ w = MountedNews(sight) /\ p = NoPanel /\ UNCHANGED <<play, sight>>
  BY DEF TableReopened
<1> HIDE DEF h, f, w, p
<1>2. SheetFits(h, sight) /\ FlightFits(f, sight) /\ NewsFits(w) /\ PanelFits(p)
  BY <1>1, MountedFits, NoPanelFits DEF MarriageInv
<1>3. QED BY <1>1, <1>2 DEF MarriageInv, h, f, w, p

LEMMA MarriageInitially == MarriageInit => MarriageInv
<1> SUFFICES ASSUME MarriageInit PROVE MarriageInv
  OBVIOUS
<1>1. /\ play \in [turn : {Me}, phase : {"draw"}, declaring : {{Me, "other"}}, hand : {Dealt}, committed : {{}},
                  folded : {FALSE}, status : {"playing"}, moves : {0}, said : {{}}]
      /\ sight = play /\ sheet = MountedSheet(play) /\ meldPanel = NoPanel /\ flying = MountedFlight(play) /\ news = MountedNews(play)
  BY DEF MarriageInit
<1>2. RoundOf \subseteq DOMAIN play /\ play.hand = Dealt /\ play.moves = 0 /\ play.said = {}
  BY <1>1 DEF RoundOf
<1>3. Proper(play)
  BY <1>2, MarriageScreenAssumption, FS_EmptySet DEF Proper
<1>4. Grows(play, sight)
  BY <1>1, <1>3 DEF Grows, Proper
<1>5. QED BY <1>1, <1>3, <1>4, MountedFits, NoPanelFits DEF MarriageInv

LEMMA MarriageStep == MarriageInv /\ [MarriageNext]_marriageVars => MarriageInv'
<1> SUFFICES ASSUME MarriageInv, [MarriageNext]_marriageVars PROVE MarriageInv'
  OBVIOUS
<1>0. Proper(play) /\ Grows(play, sight) /\ Proper(sight) /\ Grows(play, play) /\ Grows(sight, sight)
  BY DEF MarriageInv, Grows, Proper
<1>1. CASE Around \/ MoveMade
  <2>1. UNCHANGED <<sight, sheet, meldPanel, flying, news>>
    BY <1>1 DEF Around, MoveMade
  <2>2. \/ \E name, who, given : play' \in Outcomes(play, name, who, given)
        \/ \E v : play' = [play EXCEPT !["status"] = v]
    BY <1>1 DEF Around, MoveMade
  <2>3. Grows(play', play)
    BY <1>0, <2>2, OutcomesGrow, FieldGrows
  <2>4. QED BY <2>1, <2>3, MatchKeeps
<1>2. CASE RoundRead \/ MoveAnswered \/ MoveRejected
  <2>1. UNCHANGED play /\ \E r \in {play, sight} : \E failed : Renders(r, failed)
    BY <1>2, Zenon DEF RoundRead, MoveAnswered, MoveRejected
  <2>2. QED BY <1>0, <2>1, RendersKeeps
<1>3. CASE Computed
  BY <1>0, <1>3, ComputedFits, MeldPanelKeeps DEF Computed
<1>4. CASE Command
  <2>1. UNCHANGED <<play, sight, sheet, meldPanel, flying, news>>
    BY <1>4 DEF Command, Issues
  <2>2. QED BY <2>1 DEF MarriageInv
<1>5. CASE TableReopened
  BY <1>5, ReopenedKeeps
<1>6. CASE SlideSheet
  BY <1>6, SlideFits, SheetKeeps DEF MarriageInv, SlideSheet, Screen
<1>7. CASE \/ Hide \/ OpenPreview \/ ClosePreview \/ Detect \/ CloseTunnelas
           \/ (\E card \in MarriageCards : SelectForDiscard(card)) \/ \E t \in Tunnelas : Tick(t)
  <2>1. UNCHANGED <<play, sight, meldPanel, flying, news>>
    BY <1>7 DEF Hide, OpenPreview, ClosePreview, Detect, CloseTunnelas, SelectForDiscard, Tick, Screen
  <2>2. SheetFits(sheet', sight)
    BY <1>7, AsideFits DEF MarriageInv
  <2>3. QED BY <2>1, <2>2, SheetKeeps
<1>8. CASE CardLanded \/ Dismiss
  BY <1>8, LandedKeeps, DismissKeeps
<1>9. CASE \E page \in 1 .. Cardinality(MarriageCards) : TurnPage(page)
  <2>1. PICK page : TurnPage(page)
    BY <1>9
  <2>2. meldPanel' = [meldPanel EXCEPT !.page = page] /\ page \in DOMAIN meldPanel.choices /\ UNCHANGED <<play, sight, sheet, flying, news>>
    BY <2>1 DEF TurnPage, Options
  <2>3. PanelFits(meldPanel')
    BY <2>2 DEF PanelFits, MarriageInv
  <2>4. QED BY <2>2, <2>3, MeldPanelKeeps
<1>10. CASE UNCHANGED marriageVars
  BY <1>10 DEF MarriageInv, marriageVars
<1>11. QED BY <1>1, <1>2, <1>3, <1>4, <1>5, <1>6, <1>7, <1>8, <1>9, <1>10 DEF MarriageNext

-------------------------------------------------------------------------------
(* The client as a whole *)

\* One part begins as it may, the others rest in a state in which they could begin.
LEMMA PartsBegin ==
    ScreensInit => /\ SocialInit /\ ChatInit /\ CallBreakInit /\ FlushScreenInit /\ MarriageInit
                   /\ LobbyInit /\ TablesInit /\ RecentInit /\ CardInit /\ SearchInit
<1> SUFFICES ASSUME ScreensInit
             PROVE  /\ SocialInit /\ ChatInit /\ CallBreakInit /\ FlushScreenInit /\ MarriageInit
                    /\ LobbyInit /\ TablesInit /\ RecentInit /\ CardInit /\ SearchInit
  OBVIOUS
<1>1. CASE part = "social"
  BY <1>1, Zenon DEF ScreensInit, Resting
<1>2. CASE part = "chat"
  BY <1>2 DEF ScreensInit, Resting
<1>3. CASE part = "lobby"
  BY <1>3 DEF ScreensInit, Resting
<1>4. CASE part = "tables"
  BY <1>4 DEF ScreensInit, Resting
<1>5. CASE part = "recent"
  BY <1>5 DEF ScreensInit, Resting
<1>6. CASE part = "cards"
  BY <1>6 DEF ScreensInit, Resting
<1>7. CASE part = "search"
  BY <1>7 DEF ScreensInit, Resting
<1>8. CASE part = "callbreak"
  BY <1>8 DEF ScreensInit, Resting
<1>9. CASE part = "flush"
  BY <1>9 DEF ScreensInit, Resting
<1>10. CASE part = "marriage"
  BY <1>10 DEF ScreensInit, Resting
<1>11. CASE part \notin {"social", "chat", "lobby", "tables", "recent", "cards", "search", "callbreak", "flush", "marriage"}
  BY <1>11 DEF ScreensInit, Resting
<1>12. QED BY <1>1, <1>2, <1>3, <1>4, <1>5, <1>6, <1>7, <1>8, <1>9, <1>10, <1>11

\* And a step of the client is, for each part, a step of it or none.
LEMMA PartsStep ==
    [ScreensNext]_screenVars =>
        /\ [SocialNext]_socialVars /\ [ChatNext]_chatVars
        /\ [CallBreakNext]_callBreakVars /\ [FlushScreenNext]_flushViewVars /\ [MarriageNext]_marriageVars
        /\ [LobbyNext]_lobbyVars /\ [TablesNext]_tables
        /\ [RecentNext]_recent /\ [CardNext]_cards /\ [SearchNext]_search
BY DEF ScreensNext, Elsewise, screenVars

\* Whatever the client does and however its requests are answered, lost or out of order: the talk at a
\* table is whole where it is said to be, and both badges count what others said and nobody read.
THEOREM ChatsShown == ScreensSpec => []ChatsTrue
<1>1. ScreensSpec => SocialSpec /\ ChatSpec
  BY PartsBegin, PartsStep, PTL DEF ScreensSpec, SocialSpec, ChatSpec
<1>2. TalkComplete /\ UnreadIsMissed /\ RoomUnreadIsMissed => ChatsTrue
  BY DEF ChatsTrue
<1>3. QED BY <1>1, <1>2, ConversationWhole, BadgeCountsUnread, BadgeCountsMissed, PTL

\* The lobby asks for no seat that was not asked for, its lists are neither stale nor short, a card is
\* removed only when the membership has ended, and a search finds what was typed.
THEOREM LobbyShown == ScreensSpec => []LobbyTrue
<1>1. ScreensSpec => []LobbyInv
  BY PartsBegin, PartsStep, LobbyInitially, LobbyStep, PTL DEF ScreensSpec
<1>2. ScreensSpec => []TablesInv
  BY PartsBegin, PartsStep, TablesInitially, TablesStep, PTL DEF ScreensSpec
<1>3. ScreensSpec => []RecentInv
  BY PartsBegin, PartsStep, RecentInitially, RecentStep, PTL DEF ScreensSpec
<1>4. ScreensSpec => []CardInv
  BY PartsBegin, PartsStep, CardInitially, CardStep, PTL DEF ScreensSpec
<1>5. ScreensSpec => []SearchInv
  BY PartsBegin, PartsStep, SearchInitially, SearchStep, PTL DEF ScreensSpec
<1>6. LobbyInv /\ TablesInv /\ RecentInv /\ CardInv /\ SearchInv => LobbyTrue
  <2>1. CardInv => RemovedWhenLeft
    BY DEF CardInv
  <2>2. SearchInv => FoundAsTyped
    BY DEF SearchInv
  <2>3. QED BY <2>1, <2>2, LobbyAsksAsAsked, TablesAreCurrent, RecentIsKept DEF LobbyTrue
<1>7. QED BY <1>1, <1>2, <1>3, <1>4, <1>5, <1>6, PTL

\* The hand of a Call Break player opens when it is his turn; a Flush table shows its moves in their
\* order and starts with the rules its players pressed for; and a Marriage player is offered what was
\* worked out for the hand on his screen, with the sheet open for his decisions and every move told once.
THEOREM GameScreensHold == ScreensSpec => []GameScreensTrue
<1>1. ScreensSpec => []CallBreakInv
  BY PartsBegin, PartsStep, CallBreakInitially, CallBreakStep, PTL DEF ScreensSpec
<1>2. ScreensSpec => []FlushInv
  BY PartsBegin, PartsStep, FlushInitially, FlushStep, PTL DEF ScreensSpec
<1>3. ScreensSpec => []MarriageInv
  BY PartsBegin, PartsStep, MarriageInitially, MarriageStep, PTL DEF ScreensSpec
<1>4. CallBreakInv => HandOpensForTurn
  BY DEF CallBreakInv
<1>5. CallBreakInv /\ FlushInv /\ MarriageInv => GameScreensTrue
  BY <1>4, FlushInvHolds, MarriageInvHolds DEF GameScreensTrue
<1>6. QED BY <1>1, <1>2, <1>3, <1>5, PTL

===============================================================================
