----------------------------- MODULE ClientScreens -----------------------------
(***************************************************************************)
(* Parts of the client that share nothing, in one run: the session with    *)
(* its rooms, the chat of a table and of a room, phrases, friends, the     *)
(* screens of the three games, the advice to a Marriage player, the ways   *)
(* from the lobby to a table, the lists of the lobby, and the search for   *)
(* players.  `part' says which of them runs; the others stay as they began.*)
(***************************************************************************)
EXTENDS RoomSession, TableSocial, PhraseList, RoomChat, Friends, CallBreakScreen, FlushScreen, MarriageScreen,
        MarriageFinish, RoomsLobby, LobbyLists, PlayerSearch

VARIABLE part
screenVars == <<vars, socialVars, phraseVars, chatVars, friendVars, callBreakVars, flushViewVars, marriageVars,
                finishVars, lobbyVars, tables, recent, cards, search, part>>

\* One state in which each part can begin.
Resting(name) ==
    /\ name # "session" => Init /\ srv.place = [r \in Rooms |-> "outside"]
    /\ name # "social" => SocialInit
    /\ name # "phrases" => PhraseInit
    /\ name # "chat" => ChatInit /\ talk = [by |-> <<>>, paused |-> FALSE]
    /\ name # "friends" => FriendInit /\ people.relations = [p \in Players |-> "friend"]
    /\ name # "callbreak" => CallBreakInit /\ host.turn = "me"
    /\ name # "flush" => FlushScreenInit /\ match.rules = CHOOSE rules \in RuleSets : TRUE
    /\ name # "marriage" => MarriageInit
    /\ name # "finish" => HoldsFirst(CHOOSE hand \in SUBSET Deck : Cardinality(hand) = HandSize, {})
    /\ name # "lobby" => LobbyInit
    /\ name # "tables" => TablesInit
    /\ name # "recent" => RecentInit
    /\ name # "cards" => CardInit /\ ~cards.owner
    /\ name # "search" => SearchInit /\ search.form = "room"
ScreensInit ==
    /\ part \in {"session", "social", "phrases", "chat", "friends", "callbreak", "flush", "marriage",
                "finish", "lobby", "tables", "recent", "cards", "search"}
    /\ Resting(part)
    /\ CASE part = "session" -> Init [] part = "social" -> SocialInit [] part = "phrases" -> PhraseInit
         [] part = "chat" -> ChatInit [] part = "friends" -> FriendInit [] part = "callbreak" -> CallBreakInit
         [] part = "flush" -> FlushScreenInit [] part = "marriage" -> MarriageInit
         [] part = "finish" -> MarriageFinishInit [] part = "lobby" -> LobbyInit
         [] part = "tables" -> TablesInit [] part = "recent" -> RecentInit [] part = "cards" -> CardInit
         [] part = "search" -> SearchInit

Elsewise(name) ==
    /\ part = name /\ UNCHANGED part
    /\ name # "session" => UNCHANGED vars
    /\ name # "social" => UNCHANGED socialVars
    /\ name # "phrases" => UNCHANGED phraseVars
    /\ name # "chat" => UNCHANGED chatVars
    /\ name # "friends" => UNCHANGED friendVars
    /\ name # "callbreak" => UNCHANGED callBreakVars
    /\ name # "flush" => UNCHANGED flushViewVars
    /\ name # "marriage" => UNCHANGED marriageVars
    /\ name # "finish" => UNCHANGED finishVars
    /\ name # "lobby" => UNCHANGED lobbyVars
    /\ name # "tables" => UNCHANGED tables
    /\ name # "recent" => UNCHANGED recent
    /\ name # "cards" => UNCHANGED cards
    /\ name # "search" => UNCHANGED search
ScreensNext ==
    \/ Elsewise("session") /\ Next
    \/ Elsewise("social") /\ SocialNext
    \/ Elsewise("phrases") /\ PhraseNext
    \/ Elsewise("chat") /\ ChatNext
    \/ Elsewise("friends") /\ FriendNext
    \/ Elsewise("callbreak") /\ CallBreakNext
    \/ Elsewise("flush") /\ FlushScreenNext
    \/ Elsewise("marriage") /\ MarriageNext
    \/ Elsewise("finish") /\ MarriageFinishNext
    \/ Elsewise("lobby") /\ LobbyNext
    \/ Elsewise("tables") /\ TablesNext
    \/ Elsewise("recent") /\ RecentNext
    \/ Elsewise("cards") /\ CardNext
    \/ Elsewise("search") /\ SearchNext
ScreensSpec == ScreensInit /\ [][ScreensNext]_screenVars

\* The chat of a table lacks nothing that was said while it listened, and the badges of both chats
\* count what was missed.
ChatsTrue == TalkComplete /\ UnreadIsMissed /\ RoomUnreadIsMissed

\* The screens of the games show, offer and send what belongs to the match as it is shown.
GameScreensTrue ==
    /\ HandOpensForTurn                                             \* Call Break
    /\ RoundShownInOrder /\ StartedAsPressed                        \* Flush
    /\ ShownFromHand /\ SheetOpensForDecision /\ ToldOnce           \* Marriage

\* What the client tells a Marriage player of his own cards is what the server makes of them.
AdviceTrue == part = "finish" => AdviceHonoured

\* The lobby asks for no seat that was not asked for, its lists are neither stale nor short, and
\* its searches find what was typed.
LobbyTrue == SeatsAsAsked /\ TablesCurrent /\ RecentKept /\ RemovedWhenLeft /\ FoundAsTyped
===============================================================================
