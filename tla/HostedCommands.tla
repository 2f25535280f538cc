---------------------------- MODULE HostedCommands ----------------------------
(***************************************************************************)
(* Playing one started match through one server: the clients that retry an *)
(* action until it is answered (PendingGameAction), the command runtime    *)
(* that runs one action at a time under the match's lock and remembers its *)
(* answer (CommandRuntime.execute), and the commit of the engine's state   *)
(* to the durable store inside that action (_commit_durable_state).        *)
(*                                                                         *)
(* An engine state is the sequence of what happened in the match, so that  *)
(* its length is its revision. Deals are shuffled by a player's action and *)
(* prepared by the server (_apply_controllers). Requests, answers and the  *)
(* replies of the store may be lost.                                       *)
(***************************************************************************)
EXTENDS InOrder

CONSTANTS
    PlayerCount,
    DealLength, Deals,  \* actions in a deal, deals in a match
    Shuffles,           \* outcomes of a shuffle
    NoShuffle,
    RoundSummary,       \* is round_summary_seconds set: a creator starts the next deal
    MaxActions,         \* bound of the model: actions one player submits
    MaxFailures,        \* bound of the model: failing calls of the store
    ReceiptLimit,       \* receipt_limit of a match
    NoRequest, NoCall

ASSUME HostedAssumption ==
    /\ PlayerCount \in Nat \ {0} /\ DealLength \in Nat \ {0} /\ Deals \in Nat \ {0}
    /\ RoundSummary \in BOOLEAN
    /\ MaxActions \in Nat /\ MaxFailures \in Nat /\ ReceiptLimit \in Nat
    /\ NoShuffle \notin Shuffles

Players == 1..PlayerCount
Host == 0   \* the author of what the server does by itself

VARIABLES
    mem,        \* the engine state the server plays on
    receipts,   \* session.receipts
    ended,      \* game.ended
    call,       \* the action holding session.lock
    stored,     \* the engine state a recovery would replay
    kept,       \* the store's receipts
    lease,      \* is the lease in the store still running
    token,      \* does the server hold the lease's current token
    pending,    \* each client's unresolved request
    nextId,     \* each client's next command ID
    view,       \* the revision each client saw last
    requests,   \* requests under way to the server
    answers,    \* answers under way to the clients
    told,       \* what the clients were told
    failures    \* failed store calls so far

server == <<mem, receipts, ended, call>>
store == <<stored, kept, lease, token>>
clients == <<pending, nextId, view, told>>
network == <<requests, answers>>
vars == <<server, store, clients, network, failures>>

Effect == [by : Players \cup {Host}, id : Nat, shuffle : Shuffles \cup {NoShuffle}]
Request == [by : Players, id : 1..MaxActions, expected : Nat]
Result == {"accepted", "rejected"}

\* An action holding the lock: what it asks, the checkpoint, and how far it has come.
Call == [request : Request, before : Seq(Effect), stage : {"own", "execute", "deliver"}]

ASSUME CallAssumption == NoCall \notin Call

TypeOK ==
    /\ mem \in Seq(Effect) /\ stored \in Seq(Effect)
    /\ receipts \subseteq [request : Request, status : Result]
    /\ ended \in BOOLEAN
    /\ call \in Call \cup {NoCall}
    /\ kept \subseteq [request : Request, status : Result, state : Seq(Effect)]
    /\ lease \in BOOLEAN /\ token \in BOOLEAN
    /\ pending \in [Players -> Request \cup {NoRequest}]
    /\ nextId \in [Players -> 1..(MaxActions + 1)]
    /\ view \in [Players -> Nat]
    /\ requests \subseteq Request
    /\ answers \subseteq [request : Request, result : Result \cup {"refused", "failed"}, seen : Nat]
    /\ told \subseteq [by : Players, id : Nat, status : Result]
    /\ failures \in Nat

-------------------------------------------------------------------------------
(* The engine *)

Moves(m) == Cardinality({n \in 1..Len(m) : m[n].by # Host})
Prepared == [by |-> Host, id |-> 0, shuffle |-> NoShuffle]
DealComplete(m) == Moves(m) > 0 /\ Moves(m) % DealLength = 0 /\ m[Len(m)].by # Host
MatchComplete(m) == Moves(m) = Deals * DealLength
Turn(m) == (Moves(m) % PlayerCount) + 1
Legal(p, m) == ~MatchComplete(m) /\ ~DealComplete(m) /\ p = Turn(m)

\* _apply_controllers, called by every action: prepares the next deal unless the table
\* shows a round summary first.
Controlled(m) ==
    IF DealComplete(m) /\ ~MatchComplete(m) /\ ~RoundSummary THEN Append(m, Prepared) ELSE m

\* The states target.apply may leave. A deal's first action is its shuffle.
Applied(q, m) ==
    {Controlled(Append(m, [by |-> q.by, id |-> q.id, shuffle |-> s])) :
        s \in IF Moves(m) % DealLength = 0 THEN Shuffles ELSE {NoShuffle}}

Init ==
    /\ mem = <<Prepared>> /\ stored = mem
    /\ receipts = {} /\ kept = {}
    /\ ended = FALSE
    /\ call = NoCall
    /\ lease = TRUE /\ token = TRUE
    /\ pending = [p \in Players |-> NoRequest]
    /\ nextId = [p \in Players |-> 1]
    /\ view = [p \in Players |-> Len(mem)]
    /\ requests = {} /\ answers = {} /\ told = {}
    /\ failures = 0

-------------------------------------------------------------------------------
(* Clients: one unresolved action each, sent again until it is answered *)

Submit(p) ==
    /\ pending[p] = NoRequest
    /\ nextId[p] <= MaxActions
    /\ pending' = [pending EXCEPT ![p] = [by |-> p, id |-> nextId[p], expected |-> view[p]]]
    /\ nextId' = [nextId EXCEPT ![p] = @ + 1]
    /\ UNCHANGED <<server, store, view, told, network, failures>>

\* A snapshot, taken under the match's lock.
Refresh(p) ==
    /\ call = NoCall
    /\ pending[p] = NoRequest
    /\ view' = [view EXCEPT ![p] = Len(mem)]
    /\ UNCHANGED <<server, store, pending, nextId, told, network, failures>>

\* reconcile: the request, as it was first sent.
Send(p) ==
    /\ pending[p] # NoRequest
    /\ requests' = requests \cup {pending[p]}
    /\ UNCHANGED <<server, store, clients, answers, failures>>

\* Mutant of Take: a server error is shown as a rejection.
TakeGivesUp(a) ==
    LET p == a.request.by IN
    /\ answers' = answers \ {a}
    /\ pending[p] = a.request
    /\ pending' = [pending EXCEPT ![p] = NoRequest]
    /\ told' = told \cup {[by |-> p, id |-> a.request.id,
                          status |-> IF a.result = "accepted" THEN "accepted" ELSE "rejected"]}
    /\ UNCHANGED <<server, store, nextId, view, requests, failures>>

\* An acknowledgment or a refusal resolves the action it answers; a failure does not.
Take(a) ==
    LET p == a.request.by IN
    /\ answers' = answers \ {a}
    /\ IF pending[p] = a.request /\ a.result # "failed"
       THEN /\ pending' = [pending EXCEPT ![p] = NoRequest]
            /\ view' = IF a.result \in Result THEN [view EXCEPT ![p] = a.seen] ELSE view
            /\ told' = IF a.result \in Result
                       THEN told \cup {[by |-> p, id |-> a.request.id, status |-> a.result]}
                       ELSE told
       ELSE UNCHANGED <<pending, view, told>>
    /\ UNCHANGED <<server, store, nextId, requests, failures>>

Lose ==
    /\ \/ \E q \in requests : requests' = requests \ {q} /\ UNCHANGED answers
       \/ \E a \in answers : answers' = answers \ {a} /\ UNCHANGED requests
    /\ UNCHANGED <<server, store, clients, failures>>

-------------------------------------------------------------------------------
(* The command runtime *)

\* The answer to q carries a snapshot of the game at state m. A client waits for one
\* answer at a time: it has given up on those to its earlier sendings.
Answer(q, result, m) ==
    answers' = {a \in answers : a.request.by # q.by} \cup
               {[request |-> q, result |-> result, seen |-> Len(m)]}

Earlier(q) == {r \in receipts : r.request.by = q.by /\ r.request.id = q.id}

\* execute, up to the commit. The lock is free: an action that cannot go on is answered
\* at once, the others keep the lock.
Receive(q) ==
    /\ call = NoCall
    /\ requests' = requests \ {q}
    /\ \/ /\ ended                                          \* authorize
          /\ Answer(q, "refused", mem)
          /\ UNCHANGED <<mem, receipts, call>>
       \/ /\ ~ended
          /\ \E r \in Earlier(q) :
               Answer(q, IF r.request = q THEN r.status ELSE "refused", mem)
          /\ UNCHANGED <<mem, receipts, call>>
       \/ /\ ~ended /\ Earlier(q) = {}
          /\ Cardinality(receipts) >= ReceiptLimit
          /\ Answer(q, "refused", mem)
          /\ UNCHANGED <<mem, receipts, call>>
       \/ /\ ~ended /\ Earlier(q) = {} /\ Cardinality(receipts) < ReceiptLimit
          /\ q.expected # Len(mem) \/ ~Legal(q.by, mem)     \* stale, or the engine rejects it
          /\ receipts' = receipts \cup {[request |-> q, status |-> "rejected"]}
          /\ Answer(q, "rejected", mem)
          /\ UNCHANGED <<mem, call>>
       \/ /\ ~ended /\ Earlier(q) = {} /\ Cardinality(receipts) < ReceiptLimit
          /\ q.expected = Len(mem) /\ Legal(q.by, mem)
          /\ mem' \in Applied(q, mem)
          /\ call' = [request |-> q, before |-> mem, stage |-> "own"]
          /\ UNCHANGED <<receipts, answers>>
    /\ UNCHANGED <<ended, store, clients, failures>>

\* Mutant of RollBack: the checkpoint is not restored.
RollBackUnrestored ==
    /\ call' = NoCall
    /\ Answer(call.request, "failed", mem)
    /\ UNCHANGED <<mem, receipts, ended>>

\* The commit raised: the checkpoint is restored and no answer is remembered.
RollBack ==
    /\ mem' = call.before
    /\ call' = NoCall
    /\ Answer(call.request, "failed", call.before)
    /\ UNCHANGED <<receipts, ended>>

\* A call of the store may be carried out and its reply lost, or not be carried out.
Fails == failures < MaxFailures /\ failures' = failures + 1

\* Mutant of Own: a lease that has run out is never acquired again.
OwnWithoutTakeover ==
    /\ call # NoCall /\ call.stage = "own"
    /\ \/ /\ lease /\ token
          /\ call' = [call EXCEPT !.stage = "execute"]
          /\ UNCHANGED <<mem, receipts, ended, answers, failures>>
       \/ ~(lease /\ token) /\ RollBack /\ UNCHANGED failures
    /\ UNCHANGED <<store, clients, requests>>

\* _commit_durable_state: renew the lease, or acquire it again when it has run out. While
\* a lease runs whose token was lost with a reply, neither is possible.
Own ==
    /\ call # NoCall /\ call.stage = "own"
    /\ \/ /\ lease => token
          /\ lease' = TRUE /\ token' = TRUE
          /\ call' = [call EXCEPT !.stage = "execute"]
          /\ UNCHANGED <<mem, receipts, ended, answers, failures>>
       \/ /\ ~lease /\ Fails                    \* acquired, the reply was lost
          /\ lease' = TRUE /\ token' = FALSE
          /\ RollBack
       \/ /\ lease => token
          /\ Fails /\ RollBack
          /\ UNCHANGED <<lease, token>>
       \/ /\ lease /\ ~token
          /\ RollBack
          /\ UNCHANGED <<lease, token, failures>>
    /\ UNCHANGED <<stored, kept, clients, requests>>

\* Mutant of Accept: the answer is recorded when the delivery is over.
AcceptUnrecorded ==
    /\ call' = [call EXCEPT !.stage = "deliver"]
    /\ UNCHANGED <<mem, receipts, ended, answers>>

\* The acknowledgment is recorded before anything else can run.
Accept ==
    /\ receipts' = receipts \cup {[request |-> call.request, status |-> "accepted"]}
    /\ call' = [call EXCEPT !.stage = "deliver"]
    /\ UNCHANGED <<mem, ended, answers>>

Kept(q) == {k \in kept : k.request.by = q.by /\ k.request.id = q.id}

\* store.execute with the engine's new state as the payload: it answers from a receipt of
\* the same command and payload, refuses another payload, records a stale command as
\* rejected, or commits. Only an accepted receipt lets the action go on.
Execute ==
    /\ call # NoCall /\ call.stage = "execute"
    /\ LET q == call.request
           new(status) == [request |-> q, status |-> status, state |-> mem] IN
       \/ /\ \/ ~lease
             \/ \E k \in Kept(q) : k.request # q \/ k.state # mem \/ k.status = "rejected"
          /\ RollBack
          /\ UNCHANGED <<stored, kept, failures>>
       \/ /\ lease
          /\ \E k \in Kept(q) : k.request = q /\ k.state = mem /\ k.status = "accepted"
          /\ Accept
          /\ UNCHANGED <<stored, kept, failures>>
       \/ /\ lease /\ Kept(q) = {} /\ q.expected # Len(stored)
          /\ kept' = kept \cup {new("rejected")}
          /\ RollBack
          /\ UNCHANGED <<stored, failures>>
       \/ /\ lease /\ Kept(q) = {} /\ q.expected = Len(stored)
          /\ kept' = kept \cup {new("accepted")}
          /\ stored' = mem
          /\ \/ Accept /\ UNCHANGED failures
             \/ Fails /\ RollBack               \* committed, the reply was lost
       \/ /\ Fails /\ RollBack
          /\ UNCHANGED <<stored, kept>>
    /\ UNCHANGED <<lease, token, clients, requests>>

\* Events are delivered and the action is answered; a delivery may raise.
Deliver ==
    /\ call # NoCall /\ call.stage = "deliver"
    /\ call' = NoCall
    /\ \/ Answer(call.request, "accepted", mem) /\ UNCHANGED failures
       \/ Answer(call.request, "failed", mem) /\ Fails
    /\ UNCHANGED <<mem, receipts, ended, store, clients, requests>>

-------------------------------------------------------------------------------
(* The rest of the host *)

\* next_deal: the creator ends the round summary. Nothing is committed.
NextDeal ==
    /\ call = NoCall /\ ~ended
    /\ RoundSummary
    /\ DealComplete(mem) /\ ~MatchComplete(mem)
    /\ mem' = Append(mem, Prepared)
    /\ UNCHANGED <<receipts, ended, call, store, clients, network, failures>>

\* end: by the creator, before the match is complete.
End ==
    /\ call = NoCall /\ ~ended
    /\ ~MatchComplete(mem)
    /\ ended' = TRUE
    /\ UNCHANGED <<mem, receipts, call, store, clients, network, failures>>

\* The lease runs out while no action is being committed, or during one that hangs.
Expire ==
    /\ lease
    /\ lease' = FALSE
    /\ IF call # NoCall /\ call.stage = "execute" THEN Fails ELSE UNCHANGED failures
    /\ UNCHANGED <<server, stored, kept, token, clients, network>>

Next ==
    \/ \E p \in Players : Submit(p) \/ Refresh(p) \/ Send(p)
    \/ \E a \in answers : Take(a)
    \/ Lose
    \/ \E q \in requests : Receive(q)
    \/ Own \/ Execute \/ Deliver
    \/ NextDeal \/ End \/ Expire

Spec == Init /\ [][Next]_vars

\* Clients keep sending what is unanswered; a message sent for ever arrives in the end;
\* the lock is handed out in order of arrival; the server finishes what it began and the
\* store's clock runs. Nothing makes a player submit, or anyone end a game or a deal.
Fairness ==
    /\ \A p \in Players :
         /\ WF_vars(Send(p))
         /\ SF_vars(\E q \in requests : q.by = p /\ Receive(q))
         /\ SF_vars(\E a \in answers : a.request.by = p /\ Take(a))
    /\ WF_vars(Own) /\ WF_vars(Execute) /\ WF_vars(Deliver)
    /\ WF_vars(Expire /\ ~token)

FairSpec == Spec /\ Fairness

-------------------------------------------------------------------------------
(* Properties *)

Keys(m) == {<<m[n].by, m[n].id>> : n \in {i \in 1..Len(m) : m[i].by # Host}}

\* Whatever the players can see between two actions is durable: the state the server plays
\* on is the stored one, or one the store is ahead of because a reply was lost.
\* (docs/game-state-persistence.md: commit before replacing in-memory state)
MemoryIsDurable ==
    call = NoCall =>
      /\ Len(mem) <= Len(stored)
      /\ \A n \in 1..Len(mem) : mem[n] = stored[n]

\* A client told "accepted" finds its action in every later state, recovered or not;
\* one told "rejected" finds it in none. (ActionAcknowledgment)
AnswersTrue ==
    \A t \in told :
      IF t.status = "accepted" THEN <<t.by, t.id>> \in Keys(stored) \cap Keys(mem)
                               ELSE <<t.by, t.id>> \notin Keys(stored)

\* No two answers to the same action differ. (docs/reliable-game-actions.md: action_ack.status
\* is unchanged on retry)
AnswersAlike ==
    \A a \in answers, b \in answers :
      /\ a.request = b.request /\ {a.result, b.result} \subseteq Result => a.result = b.result
      /\ a.result \in Result =>
           \A t \in told : t.by = a.request.by /\ t.id = a.request.id => t.status = a.result

\* An answer stands: what it says of the match is so in every later state, and every retry
\* is answered the same.
AnswersHold == AnswersTrue /\ AnswersAlike

\* An action a player has submitted is eventually answered, over any losses: the client
\* does not show "Confirming your action..." for ever. (PendingGameAction.reconcile)
ActionsResolve == \A p \in Players : pending[p] # NoRequest ~> pending[p] = NoRequest

-------------------------------------------------------------------------------

\* What the players did in a match, by the key of the action that did it.
ByPlayer == [by : Players, id : Nat, shuffle : Shuffles \cup {NoShuffle}]
Actions(m) ==
    LET effects == Within(m, ByPlayer) IN [n \in 1..Len(effects) |-> <<effects[n].by, effects[n].id>>]

\* What was decided: by the server, or by the store in a call whose reply was lost.
Decision(r) == [game |-> Host, key |-> <<r.request.by, r.request.id>>, status |-> r.status]

Log == INSTANCE CommandLog WITH
    Games <- {Host}, Actors <- Players, CommandIds <- 1..MaxActions,
    log <- [g \in {Host} |-> Actions(stored)],
    decided <- {Decision(r) : r \in receipts} \cup {Decision(k) : k \in kept},
    told <- {[game |-> Host, key |-> <<t.by, t.id>>, status |-> t.status] : t \in told}

\* The host with its two layers of receipts, its rollbacks and its retrying clients still
\* decides each action once and tells its clients what was decided.
ImplementsCommandLog == Log!Spec
================================================================================
