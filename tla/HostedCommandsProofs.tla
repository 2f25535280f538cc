------------------------- MODULE HostedCommandsProofs -------------------------
(***************************************************************************)
(* What a client is told of its actions stays true, over lost replies,     *)
(* rollbacks and retries, and what the players can see is durable: for any *)
(* number of players, actions, deals, shuffles and failures.               *)
(***************************************************************************)
EXTENDS HostedCommands, DataLemmas

-------------------------------------------------------------------------------
(* The inductive invariant *)

Key(q) == <<q.by, q.id>>
Prefix(s, t) == Len(s) <= Len(t) /\ \A n \in 1..Len(s) : s[n] = t[n]

\* Is an action applied in memory and not yet decided?
Open == call # NoCall /\ call.stage \in {"own", "execute"}
\* The state that a rollback would leave.
Base == IF Open THEN call.before ELSE mem

\* Every request that has been made and is still known somewhere.
Made(q) ==
    \/ q \in requests
    \/ \E p \in Players : pending[p] # NoRequest /\ pending[p] = q
    \/ \E a \in answers : a.request = q
    \/ \E r \in receipts : r.request = q
    \/ \E k \in kept : k.request = q
    \/ call # NoCall /\ call.request = q

\* A command ID is used once: a retry is the request as it was first made.
IdsOnce ==
    /\ \A q \in Request : Made(q) => q.id < nextId[q.by]
    /\ \A q1, q2 \in Request : Made(q1) /\ Made(q2) /\ Key(q1) = Key(q2) => q1 = q2
    /\ \A p \in Players : pending[p] # NoRequest => pending[p].by = p

\* One decision each, in the server's receipts and in the store's.
DecidedOnce ==
    /\ \A r1, r2 \in receipts : Key(r1.request) = Key(r2.request) => r1 = r2
    /\ \A k1, k2 \in kept : Key(k1.request) = Key(k2.request) => k1 = k2

\* Whatever a client is told, or is about to be told, is what a receipt says.
ToldFromReceipts ==
    /\ \A t \in told : \E r \in receipts : Key(r.request) = <<t.by, t.id>> /\ r.status = t.status
    /\ \A a \in answers : a.result \in Result => [request |-> a.request, status |-> a.result] \in receipts

\* The action under way: undecided until it is accepted.
CallTrue ==
    /\ Open => /\ Earlier(call.request) = {}
               /\ call.request.expected = Len(call.before)
               /\ Legal(call.request.by, call.before)
               /\ mem \in Applied(call.request, call.before)
    /\ call # NoCall /\ call.stage = "deliver" =>
         [request |-> call.request, status |-> "accepted"] \in receipts

\* A receipt says what is in the match.
ReceiptsTrue ==
    /\ \A r \in receipts :
         IF r.status = "accepted" THEN Key(r.request) \in Keys(stored) \cap Keys(Base)
                                  ELSE Key(r.request) \notin Keys(stored)
    /\ \A key \in Keys(Base) : \E r \in receipts : r.status = "accepted" /\ Key(r.request) = key

\* What the store has accepted is part of what it holds.
KeptTrue ==
    \A k \in kept : k.status = "accepted" => Prefix(k.state, stored) /\ Key(k.request) \in Keys(k.state)

\* The store is ahead by the one action whose reply was lost, and which is still to be made.
Ahead(m) ==
    \E k \in kept : /\ k.status = "accepted" /\ k.state = stored
                    /\ k.request.expected = Len(m) /\ Legal(k.request.by, m)
                    /\ stored \in Applied(k.request, m)
\* The server plays on a deal that was never committed.
Beyond(m) == RoundSummary /\ Len(m) > Len(stored) /\ Keys(m) = Keys(stored)
Durable == Base = stored \/ Ahead(Base) \/ Beyond(Base)

IInv ==
    /\ TypeOK
    /\ IdsOnce /\ DecidedOnce /\ ToldFromReceipts
    /\ CallTrue /\ ReceiptsTrue /\ KeptTrue /\ Durable

-------------------------------------------------------------------------------
(* What a state of the engine holds *)

LEMMA KeysAppend ==
    ASSUME NEW m \in Seq(Effect), NEW e \in Effect
    PROVE  /\ Append(m, e) \in Seq(Effect) /\ Len(Append(m, e)) = Len(m) + 1
           /\ Prefix(m, Append(m, e))
           /\ e.by = Host => Keys(Append(m, e)) = Keys(m)
           /\ e.by # Host => Keys(Append(m, e)) = Keys(m) \cup {<<e.by, e.id>>}
<1> DEFINE l == Append(m, e)
<1>1. l \in Seq(Effect) /\ Len(l) = Len(m) + 1 /\ l[Len(m) + 1] = e /\ \A n \in 1..Len(m) : l[n] = m[n]
  OBVIOUS
<1>2. Len(m) \in Nat
  OBVIOUS
<1>3. Prefix(m, l)
  BY <1>1, <1>2 DEF Prefix
<1> HIDE DEF l
<1>4. ASSUME NEW key PROVE key \in Keys(l) <=> key \in Keys(m) \/ (e.by # Host /\ key = <<e.by, e.id>>)
  <2>1. key \in Keys(l) <=> \E n \in 1..Len(l) : l[n].by # Host /\ key = <<l[n].by, l[n].id>>
    BY DEF Keys
  <2>2. key \in Keys(m) <=> \E n \in 1..Len(m) : m[n].by # Host /\ key = <<m[n].by, m[n].id>>
    BY DEF Keys
  <2>3. 1..Len(l) = 1..Len(m) \cup {Len(m) + 1}
    BY <1>1, <1>2
  <2> QED BY <1>1, <2>1, <2>2, <2>3
<1> QED BY <1>1, <1>3, <1>4 DEF l

LEMMA KeysPrefix ==
    ASSUME NEW s \in Seq(Effect), NEW t \in Seq(Effect), Prefix(s, t)
    PROVE  Keys(s) \subseteq Keys(t)
<1>1. ASSUME NEW key \in Keys(s) PROVE key \in Keys(t)
  <2>1. PICK n \in 1..Len(s) : s[n].by # Host /\ key = <<s[n].by, s[n].id>>
    BY DEF Keys
  <2>2. n \in 1..Len(t) /\ t[n] = s[n]
    BY DEF Prefix
  <2> QED BY <2>1, <2>2 DEF Keys
<1> QED BY <1>1

LEMMA PrefixTransitive ==
    ASSUME NEW s \in Seq(Effect), NEW t \in Seq(Effect), NEW w \in Seq(Effect), Prefix(s, t), Prefix(t, w)
    PROVE  Prefix(s, w)
BY DEF Prefix

\* An action extends the state by itself, and perhaps by the deal that the server prepares.
LEMMA AppliedFacts ==
    ASSUME NEW m \in Seq(Effect), NEW q \in Request, NEW l \in Applied(q, m)
    PROVE  /\ l \in Seq(Effect) /\ Prefix(m, l) /\ Len(l) > Len(m)
           /\ Keys(l) = Keys(m) \cup {Key(q)}
<1>1. PICK s \in Shuffles \cup {NoShuffle} : l = Controlled(Append(m, [by |-> q.by, id |-> q.id, shuffle |-> s]))
  BY DEF Applied
<1> DEFINE e == [by |-> q.by, id |-> q.id, shuffle |-> s]
           l1 == Append(m, e)
<1>2. e \in Effect /\ e.by # Host /\ <<e.by, e.id>> = Key(q)
  BY HostedAssumption DEF Effect, Request, Players, Host, Key
<1>3. l1 \in Seq(Effect) /\ Len(l1) = Len(m) + 1 /\ Prefix(m, l1) /\ Keys(l1) = Keys(m) \cup {Key(q)}
  BY <1>2, KeysAppend
<1>4. CASE l = l1
  BY <1>3, <1>4
<1>5. CASE l = Append(l1, Prepared)
  <2>1. Prepared \in Effect /\ Prepared.by = Host
    BY DEF Prepared, Effect
  <2>2. l \in Seq(Effect) /\ Len(l) = Len(l1) + 1 /\ Prefix(l1, l) /\ Keys(l) = Keys(l1)
    BY <1>3, <1>5, <2>1, KeysAppend
  <2>3. Prefix(m, l)
    BY <1>3, <2>2, PrefixTransitive
  <2> QED BY <1>3, <2>2, <2>3
<1>6. l = l1 \/ l = Append(l1, Prepared)
  BY <1>1 DEF Controlled
<1> QED BY <1>4, <1>5, <1>6

-------------------------------------------------------------------------------
(* The invariant holds at first *)

LEMMA Initially == Init => IInv
<1> SUFFICES ASSUME Init PROVE IInv
  OBVIOUS
<1>1. Prepared \in Effect /\ Prepared.by = Host
  BY DEF Prepared, Effect
<1>2. mem \in Seq(Effect) /\ Len(mem) = 1 /\ mem[1] = Prepared /\ stored = mem
  BY <1>1 DEF Init
<1>3. Keys(mem) = {}
  BY <1>1, <1>2 DEF Keys
<1>4. TypeOK
  <2>1. nextId \in [Players -> 1..(MaxActions + 1)]
    BY HostedAssumption DEF Init
  <2> QED BY <1>2, <2>1 DEF Init, TypeOK
<1>5. ~Open /\ Base = mem
  BY DEF Init, Open, Base
<1>6. IdsOnce
  BY DEF Init, IdsOnce, Made
<1>7. DecidedOnce /\ ToldFromReceipts /\ KeptTrue
  BY DEF Init, DecidedOnce, ToldFromReceipts, KeptTrue
<1>8. CallTrue
  BY <1>5 DEF Init, CallTrue
<1>9. ReceiptsTrue /\ Durable
  BY <1>2, <1>3, <1>5 DEF Init, ReceiptsTrue, Durable
<1> QED BY <1>4, <1>6, <1>7, <1>8, <1>9 DEF IInv

-------------------------------------------------------------------------------
(* What a step leaves alone *)

Decisions == <<mem, receipts, call, stored, kept>>
About == DecidedOnce /\ CallTrue /\ ReceiptsTrue /\ KeptTrue /\ Durable

LEMMA SameDecisions ==
    ASSUME About, UNCHANGED Decisions PROVE About'
<1>1. DecidedOnce'
  BY DEF About, Decisions, DecidedOnce
<1>2. Open' = Open /\ Base' = Base
  BY DEF Decisions, Open, Base
<1>3. CallTrue'
  BY <1>2 DEF About, Decisions, CallTrue, Earlier
<1>4. ReceiptsTrue'
  BY <1>2 DEF About, Decisions, ReceiptsTrue
<1>5. KeptTrue'
  BY DEF About, Decisions, KeptTrue
<1>6. Durable'
  BY <1>2 DEF About, Decisions, Durable, Ahead, Beyond
<1> QED BY <1>1, <1>3, <1>4, <1>5, <1>6 DEF About

\* Requests only disappear, and a client only gives up its own.
LEMMA SameIds ==
    ASSUME IdsOnce, nextId' = nextId,
           \A q \in Request : Made(q)' => Made(q),
           \A p \in Players : pending'[p] = pending[p] \/ pending'[p] = NoRequest
    PROVE  IdsOnce'
<1>1. ASSUME NEW q \in Request, Made(q)' PROVE q.id < nextId'[q.by]
  BY <1>1 DEF IdsOnce
<1>2. ASSUME NEW q1 \in Request, NEW q2 \in Request, Made(q1)', Made(q2)', Key(q1) = Key(q2) PROVE q1 = q2
  BY <1>2 DEF IdsOnce
<1>3. ASSUME NEW p \in Players, pending'[p] # NoRequest PROVE pending'[p].by = p
  BY <1>3 DEF IdsOnce
<1> QED BY <1>1, <1>2, <1>3 DEF IdsOnce

\* An answer that carries no decision, or the decision of a receipt.
LEMMA ToldStays ==
    ASSUME ToldFromReceipts, told' = told, receipts \subseteq receipts',
           \A a \in answers' : a \in answers \/ (a.result \in Result =>
                                  [request |-> a.request, status |-> a.result] \in receipts')
    PROVE  ToldFromReceipts'
BY DEF ToldFromReceipts

LEMMA Undecided ==
    ASSUME NEW q, Earlier(q) = {} PROVE \A r \in receipts : Key(r.request) # Key(q)
BY DEF Earlier, Key

-------------------------------------------------------------------------------
(* The clients and the network *)

LEMMA SubmitKeeps == ASSUME IInv, NEW p \in Players, Submit(p) PROVE IInv'
<1> DEFINE new == [by |-> p, id |-> nextId[p], expected |-> view[p]]
<1>1. TypeOK
  BY DEF IInv
<1>2. new \in Request /\ nextId[p] \in Nat /\ nextId[p] \in 1..MaxActions
  BY <1>1, HostedAssumption DEF TypeOK, Request, Submit
<1>3. /\ pending' = [pending EXCEPT ![p] = new] /\ nextId' = [nextId EXCEPT ![p] = @ + 1]
      /\ UNCHANGED <<server, store, view, told, network, failures>>
  BY DEF Submit
<1>4. TypeOK'
  <2>1. nextId' \in [Players -> 1..(MaxActions + 1)]
    BY <1>1, <1>2, <1>3, HostedAssumption DEF TypeOK
  <2> QED BY <1>1, <1>2, <1>3, <2>1 DEF TypeOK, server, store, network
<1>5. ASSUME NEW q \in Request, Made(q)' PROVE Made(q) \/ q = new
  BY <1>1, <1>3, <1>5 DEF Made, TypeOK, server, store, network
<1>6. ASSUME NEW q \in Request, Made(q) PROVE q.id < nextId[q.by]
  BY <1>6 DEF IInv, IdsOnce
<1>7. IdsOnce'
  <2>1. ASSUME NEW q \in Request, Made(q)' PROVE q.id < nextId'[q.by]
    <3>1. nextId[q.by] \in Nat /\ q.id \in Nat /\ q.by \in Players
      BY <1>1 DEF TypeOK, Request
    <3>2. nextId'[q.by] = IF q.by = p THEN nextId[p] + 1 ELSE nextId[q.by]
      BY <1>1, <1>3, <3>1 DEF TypeOK
    <3>3. CASE Made(q)
      BY <1>2, <1>6, <3>1, <3>2, <3>3
    <3>4. CASE q = new
      BY <1>2, <3>2, <3>4
    <3> QED BY <1>5, <2>1, <3>3, <3>4
  <2>2. ASSUME NEW q1 \in Request, NEW q2 \in Request, Made(q1)', Made(q2)', Key(q1) = Key(q2) PROVE q1 = q2
    <3>1. q1.by = q2.by /\ q1.id = q2.id
      BY <2>2 DEF Key
    <3>2. CASE Made(q1) /\ Made(q2)
      BY <2>2, <3>2 DEF IInv, IdsOnce
    <3>3. CASE q1 = new /\ Made(q2)
      BY <1>2, <1>6, <3>1, <3>3
    <3>4. CASE q2 = new /\ Made(q1)
      BY <1>2, <1>6, <3>1, <3>4
    <3> QED BY <1>5, <2>2, <3>2, <3>3, <3>4
  <2>3. ASSUME NEW o \in Players, pending'[o] # NoRequest PROVE pending'[o].by = o
    BY <1>1, <1>3, <2>3 DEF IInv, IdsOnce, TypeOK
  <2> QED BY <2>1, <2>2, <2>3 DEF IdsOnce
<1>8. About'
  BY <1>3, SameDecisions DEF IInv, About, Decisions, server, store
<1>9. ToldFromReceipts'
  BY <1>3, ToldStays DEF IInv, server, network
<1> QED BY <1>4, <1>7, <1>8, <1>9 DEF IInv, About

LEMMA TakeKeeps == ASSUME IInv, NEW a \in answers, Take(a) PROVE IInv'
<1> DEFINE p == a.request.by
<1>1. TypeOK
  BY DEF IInv
<1>2. a \in [request : Request, result : Result \cup {"refused", "failed"}, seen : Nat] /\ p \in Players
  BY <1>1 DEF TypeOK, Request
<1>3. /\ answers' = answers \ {a}
      /\ UNCHANGED <<server, store, nextId, requests, failures>>
  BY DEF Take
<1>4. /\ pending' = pending \/ pending' = [pending EXCEPT ![p] = NoRequest]
      /\ view' = view \/ view' = [view EXCEPT ![p] = a.seen]
      /\ \/ told' = told
         \/ a.result \in Result /\ told' = told \cup {[by |-> p, id |-> a.request.id, status |-> a.result]}
  BY DEF Take
<1>5. told' \subseteq [by : Players, id : Nat, status : Result]
  BY <1>1, <1>2, <1>4 DEF TypeOK, Request
<1>6. TypeOK'
  <2>1. view' \in [Players -> Nat]
    BY <1>1, <1>2, <1>4 DEF TypeOK
  <2>2. pending' \in [Players -> Request \cup {NoRequest}]
    BY <1>1, <1>2, <1>4 DEF TypeOK
  <2> QED BY <1>1, <1>3, <1>5, <2>1, <2>2 DEF TypeOK, server, store
<1>7. IdsOnce'
  <2>1. \A q \in Request : Made(q)' => Made(q)
    BY <1>1, <1>3, <1>4 DEF Made, server, store, TypeOK
  <2>2. \A o \in Players : pending'[o] = pending[o] \/ pending'[o] = NoRequest
    BY <1>1, <1>4 DEF TypeOK
  <2> QED BY <1>3, <2>1, <2>2, SameIds DEF IInv
<1>8. About'
  BY <1>3, SameDecisions DEF IInv, About, Decisions, server, store
<1>9. ToldFromReceipts'
  <2>1. receipts' = receipts /\ ToldFromReceipts
    BY <1>3 DEF server, IInv
  <2>2. ASSUME NEW t \in told' PROVE \E r \in receipts : Key(r.request) = <<t.by, t.id>> /\ r.status = t.status
    <3>1. CASE t \in told
      BY <2>1, <3>1 DEF ToldFromReceipts
    <3>2. CASE a.result \in Result /\ t = [by |-> p, id |-> a.request.id, status |-> a.result]
      <4>1. [request |-> a.request, status |-> a.result] \in receipts
        BY <2>1, <3>2 DEF ToldFromReceipts
      <4> QED BY <3>2, <4>1 DEF Key
    <3> QED BY <1>4, <2>2, <3>1, <3>2
  <2>3. ASSUME NEW b \in answers', b.result \in Result PROVE [request |-> b.request, status |-> b.result] \in receipts
    BY <1>3, <2>1, <2>3 DEF ToldFromReceipts
  <2> QED BY <2>1, <2>2, <2>3 DEF ToldFromReceipts
<1> QED BY <1>6, <1>7, <1>8, <1>9 DEF IInv, About

\* A refresh, a sending, a loss, the end of the match or of the lease.
LEMMA OthersKeep ==
    ASSUME IInv, (\E p \in Players : Refresh(p) \/ Send(p)) \/ Lose \/ End \/ Expire \/ UNCHANGED vars
    PROVE  IInv'
<1>1. TypeOK
  BY DEF IInv
<1>2. /\ UNCHANGED Decisions /\ UNCHANGED <<pending, nextId, told>>
      /\ answers' \subseteq answers
      /\ requests' \subseteq requests \cup {pending[p] : p \in {o \in Players : pending[o] # NoRequest}}
      /\ view' \in [Players -> Nat] /\ ended' \in BOOLEAN /\ lease' \in BOOLEAN /\ token' \in BOOLEAN
      /\ failures' \in Nat
  <2>1. ASSUME NEW p \in Players, Refresh(p) PROVE <1>2
    <3>1. Len(mem) \in Nat
      BY <1>1 DEF TypeOK
    <3> QED BY <1>1, <2>1, <3>1 DEF Refresh, TypeOK, Decisions, server, store, network
  <2>2. ASSUME NEW p \in Players, Send(p) PROVE <1>2
    BY <1>1, <2>2 DEF Send, TypeOK, Decisions, server, store, clients
  <2>3. CASE Lose
    BY <1>1, <2>3 DEF Lose, TypeOK, Decisions, server, store, clients
  <2>4. CASE End
    BY <1>1, <2>4 DEF End, TypeOK, Decisions, store, clients, network
  <2>5. CASE Expire
    <3>1. lease' = FALSE /\ UNCHANGED <<server, stored, kept, token, clients, network>>
      BY <2>5 DEF Expire
    <3>2. failures' = failures + 1 \/ failures' = failures
      BY <2>5 DEF Expire, Fails
    <3>3. failures' \in Nat
      BY <1>1, <3>2 DEF TypeOK
    <3> QED BY <1>1, <3>1, <3>3 DEF TypeOK, Decisions, server, clients, network
  <2>6. CASE UNCHANGED vars
    BY <1>1, <2>6 DEF vars, TypeOK, Decisions, server, store, clients, network
  <2> QED BY <2>1, <2>2, <2>3, <2>4, <2>5, <2>6
<1>3. requests' \subseteq Request
  BY <1>1, <1>2 DEF TypeOK
<1>4. TypeOK'
  BY <1>1, <1>2, <1>3 DEF TypeOK, Decisions
<1>5. IdsOnce'
  <2>1. \A q \in Request : Made(q)' => Made(q)
    BY <1>2 DEF Made, Decisions
  <2> QED BY <1>2, <2>1, SameIds DEF IInv
<1>6. About'
  BY <1>2, SameDecisions DEF IInv, About
<1>7. ToldFromReceipts'
  BY <1>2, ToldStays DEF IInv, Decisions
<1> QED BY <1>4, <1>5, <1>6, <1>7 DEF IInv, About

-------------------------------------------------------------------------------
(* The lock and the receipts *)

\* Any answer given may carry only what a receipt says.
LEMMA AnswerFacts ==
    ASSUME TypeOK, NEW q \in Request, NEW result \in Result \cup {"refused", "failed"},
           NEW m \in Seq(Effect), Answer(q, result, m)
    PROVE  /\ answers' \subseteq answers \cup {[request |-> q, result |-> result, seen |-> Len(m)]}
           /\ answers' \subseteq [request : Request, result : Result \cup {"refused", "failed"}, seen : Nat]
<1>1. answers' = {a \in answers : a.request.by # q.by} \cup {[request |-> q, result |-> result, seen |-> Len(m)]}
  BY DEF Answer
<1>2. Len(m) \in Nat
  OBVIOUS
<1>3. [request |-> q, result |-> result, seen |-> Len(m)] \in
        [request : Request, result : Result \cup {"refused", "failed"}, seen : Nat]
  BY <1>2
<1> QED BY <1>1, <1>3 DEF TypeOK

\* A request of the past stays the one it was while nobody submits.
LEMMA SameMade ==
    ASSUME IdsOnce, UNCHANGED clients, NEW q \in Request, Made(q),
           requests' \subseteq requests,
           \A a \in answers' : a \in answers \/ a.request = q,
           \A r \in receipts' : r \in receipts \/ r.request = q,
           \A k \in kept' : k \in kept \/ k.request = q,
           call' # NoCall => call'.request = q
    PROVE  IdsOnce'
<1>1. pending' = pending /\ nextId' = nextId
  BY DEF clients
<1>2. \A o \in Request : Made(o)' => Made(o)
  BY <1>1 DEF Made
<1> QED BY <1>1, <1>2, SameIds

\* Between two actions: an action that the server has no receipt for and rejects is not in
\* the stored match either.
LEMMA RejectedIsNowhere ==
    ASSUME IInv, call = NoCall, NEW q \in Request, Made(q), Earlier(q) = {},
           q.expected # Len(mem) \/ ~Legal(q.by, mem)
    PROVE  Key(q) \notin Keys(stored)
<1> SUFFICES ASSUME Key(q) \in Keys(stored) PROVE FALSE
  OBVIOUS
<1>1. TypeOK /\ ReceiptsTrue /\ Durable /\ IdsOnce
  BY DEF IInv
<1>2. Base = mem
  BY DEF Base, Open
<1>3. Key(q) \notin Keys(mem)
  BY <1>1, <1>2, Undecided DEF ReceiptsTrue
<1>4. ASSUME Ahead(mem) PROVE FALSE
  <2>1. PICK k \in kept : /\ k.status = "accepted" /\ k.state = stored
                          /\ k.request.expected = Len(mem) /\ Legal(k.request.by, mem)
                          /\ stored \in Applied(k.request, mem)
    BY <1>4 DEF Ahead
  <2>2. k.request \in Request /\ mem \in Seq(Effect)
    BY <1>1 DEF TypeOK
  <2>3. Keys(stored) = Keys(mem) \cup {Key(k.request)}
    BY <2>1, <2>2, AppliedFacts
  <2>4. Key(k.request) = Key(q) /\ Made(k.request)
    BY <1>3, <2>3 DEF Made
  <2>5. k.request = q
    BY <1>1, <2>2, <2>4 DEF IdsOnce
  <2> QED BY <2>1, <2>5
<1> QED BY <1>1, <1>2, <1>3, <1>4 DEF Durable, Beyond

LEMMA ReceiveKeeps == ASSUME IInv, NEW q \in requests, Receive(q) PROVE IInv'
<1>1. TypeOK /\ call = NoCall /\ q \in Request /\ Made(q) /\ mem \in Seq(Effect)
  BY DEF IInv, TypeOK, Receive, Made
<1>2. requests' \subseteq requests /\ UNCHANGED <<ended, store, clients, failures>>
  BY DEF Receive
<1>3. ~Open /\ Base = mem
  BY <1>1 DEF Open, Base
<1>4. ASSUME UNCHANGED <<mem, receipts, call>>,
             NEW result \in Result \cup {"refused", "failed"}, Answer(q, result, mem),
             result \in Result => [request |-> q, status |-> result] \in receipts
      PROVE  IInv'
  <2>1. /\ answers' \subseteq answers \cup {[request |-> q, result |-> result, seen |-> Len(mem)]}
        /\ answers' \subseteq [request : Request, result : Result \cup {"refused", "failed"}, seen : Nat]
    BY <1>1, <1>4, AnswerFacts
  <2>2. TypeOK'
    BY <1>1, <1>2, <1>4, <2>1 DEF TypeOK, store, clients
  <2>3. IdsOnce'
    BY <1>1, <1>2, <1>4, <2>1, SameMade DEF IInv, store
  <2>4. About'
    BY <1>2, <1>4, SameDecisions DEF IInv, About, Decisions, store
  <2>5. ToldFromReceipts'
    BY <1>2, <1>4, <2>1, ToldStays DEF IInv, clients
  <2> QED BY <2>2, <2>3, <2>4, <2>5 DEF IInv, About
<1>5. CASE ended /\ Answer(q, "refused", mem) /\ UNCHANGED <<mem, receipts, call>>
  BY <1>4, <1>5 DEF Result
<1>6. CASE /\ ~ended
           /\ \E r \in Earlier(q) : Answer(q, IF r.request = q THEN r.status ELSE "refused", mem)
           /\ UNCHANGED <<mem, receipts, call>>
  <2>1. PICK r \in Earlier(q) : Answer(q, IF r.request = q THEN r.status ELSE "refused", mem)
    BY <1>6
  <2>2. r \in receipts /\ r \in [request : Request, status : Result]
    BY <1>1 DEF Earlier, TypeOK
  <2>3. CASE r.request = q
    <3>1. r = [request |-> q, status |-> r.status] /\ r.status \in Result
      BY <2>2, <2>3
    <3>2. Answer(q, r.status, mem)
      BY <2>1, <2>3
    <3> QED BY <1>4, <1>6, <2>2, <3>1, <3>2
  <2>4. CASE r.request # q
    BY <1>4, <1>6, <2>1, <2>4 DEF Result
  <2> QED BY <2>3, <2>4
<1>7. CASE /\ Answer(q, "refused", mem) /\ UNCHANGED <<mem, receipts, call>>
  BY <1>4, <1>7 DEF Result
<1>8. CASE /\ ~ended /\ Earlier(q) = {}
           /\ q.expected # Len(mem) \/ ~Legal(q.by, mem)
           /\ receipts' = receipts \cup {[request |-> q, status |-> "rejected"]}
           /\ Answer(q, "rejected", mem)
           /\ UNCHANGED <<mem, call>>
  <2> DEFINE new == [request |-> q, status |-> "rejected"]
  <2>1. new \in [request : Request, status : Result]
    BY <1>1 DEF Result
  <2>2. /\ answers' \subseteq answers \cup {[request |-> q, result |-> "rejected", seen |-> Len(mem)]}
        /\ answers' \subseteq [request : Request, result : Result \cup {"refused", "failed"}, seen : Nat]
    BY <1>1, <1>8, AnswerFacts DEF Result
  <2>3. UNCHANGED <<mem, call, stored, kept>> /\ receipts' = receipts \cup {new}
    BY <1>2, <1>8 DEF store
  <2>4. TypeOK'
    BY <1>1, <1>2, <1>8, <2>1, <2>2 DEF TypeOK, store, clients
  <2>5. IdsOnce'
    BY <1>1, <1>2, <2>2, <2>3, SameMade DEF IInv
  <2>6. \A r \in receipts : Key(r.request) # Key(q)
    BY <1>8, Undecided
  <2>7. DecidedOnce'
    BY <2>3, <2>6 DEF IInv, DecidedOnce
  <2>8. ToldFromReceipts'
    BY <1>2, <2>2, <2>3, ToldStays DEF IInv, clients
  <2>9. ~Open' /\ Base' = Base
    BY <1>1, <1>3, <2>3 DEF Open, Base
  <2>10. CallTrue' /\ KeptTrue'
    BY <1>1, <2>3, <2>9 DEF CallTrue, IInv, KeptTrue
  <2>11. ReceiptsTrue'
    <3>1. Key(q) \notin Keys(stored)
      BY <1>1, <1>8, RejectedIsNowhere
    <3> QED BY <2>3, <2>9, <3>1 DEF IInv, ReceiptsTrue
  <2>12. Durable'
    BY <2>3, <2>9 DEF IInv, Durable, Ahead, Beyond
  <2> QED BY <2>4, <2>5, <2>7, <2>8, <2>10, <2>11, <2>12 DEF IInv
<1>9. CASE /\ ~ended /\ Earlier(q) = {}
           /\ q.expected = Len(mem) /\ Legal(q.by, mem)
           /\ mem' \in Applied(q, mem)
           /\ call' = [request |-> q, before |-> mem, stage |-> "own"]
           /\ UNCHANGED <<receipts, answers>>
  <2>1. mem' \in Seq(Effect)
    BY <1>1, <1>9, AppliedFacts
  <2>2. call' \in Call /\ call' # NoCall
    BY <1>1, <1>9, CallAssumption DEF Call
  <2>3. UNCHANGED <<receipts, answers, stored, kept, clients>>
    BY <1>2, <1>9 DEF store
  <2>4. TypeOK'
    BY <1>1, <1>2, <2>1, <2>2, <2>3 DEF TypeOK, store, clients
  <2>5. IdsOnce'
    BY <1>1, <1>2, <1>9, <2>3, SameMade DEF IInv
  <2>6. Open' /\ Base' = Base
    BY <1>3, <1>9, <2>2 DEF Open, Base
  <2>7. CallTrue'
    BY <1>9, <2>3, <2>6 DEF CallTrue, Earlier
  <2>8. DecidedOnce' /\ ToldFromReceipts' /\ KeptTrue'
    BY <2>3 DEF IInv, DecidedOnce, ToldFromReceipts, KeptTrue, clients
  <2>9. ReceiptsTrue' /\ Durable'
    BY <2>3, <2>6 DEF IInv, ReceiptsTrue, Durable, Ahead, Beyond
  <2> QED BY <2>4, <2>5, <2>7, <2>8, <2>9 DEF IInv
<1> QED BY <1>5, <1>6, <1>7, <1>8, <1>9 DEF Receive

-------------------------------------------------------------------------------
(* The commit *)

\* The action under way, seen from the checkpoint.
LEMMA CallFacts ==
    ASSUME IInv, Open
    PROVE  /\ call \in Call /\ call.request \in Request /\ Made(call.request)
           /\ call.before \in Seq(Effect) /\ mem \in Seq(Effect) /\ Base = call.before
           /\ Prefix(call.before, mem) /\ Len(mem) > Len(call.before)
           /\ Keys(mem) = Keys(call.before) \cup {Key(call.request)}
           /\ \A r \in receipts : Key(r.request) # Key(call.request)
           /\ Key(call.request) \notin Keys(call.before)
<1>1. TypeOK /\ CallTrue /\ ReceiptsTrue /\ call # NoCall
  BY DEF IInv, Open
<1>2. call \in Call /\ mem \in Seq(Effect)
  BY <1>1 DEF TypeOK
<1>3. call.request \in Request /\ call.before \in Seq(Effect) /\ Made(call.request)
  BY <1>1, <1>2 DEF Call, Made
<1>4. Base = call.before
  BY DEF Base
<1>5. Prefix(call.before, mem) /\ Len(mem) > Len(call.before) /\ Keys(mem) = Keys(call.before) \cup {Key(call.request)}
  BY <1>1, <1>3, AppliedFacts DEF CallTrue
<1>6. \A r \in receipts : Key(r.request) # Key(call.request)
  BY <1>1, Undecided DEF CallTrue
<1> QED BY <1>1, <1>2, <1>3, <1>4, <1>5, <1>6 DEF ReceiptsTrue

\* Whatever the store did, the server goes back to the checkpoint.
LEMMA RollBackKeeps ==
    ASSUME IInv, Open, RollBack, UNCHANGED <<clients, requests>>,
           lease' \in BOOLEAN, token' \in BOOLEAN, failures' \in Nat,
           stored' \in Seq(Effect), kept' \subseteq [request : Request, status : Result, state : Seq(Effect)],
           \A k \in kept' : k \in kept \/ k.request = call.request,
           \A k1, k2 \in kept' : Key(k1.request) = Key(k2.request) => k1 = k2,
           KeptTrue', Base' = call.before => Durable',
           \A r \in receipts : Key(r.request) \in Keys(stored)' <=> Key(r.request) \in Keys(stored)
    PROVE  IInv'
<1> DEFINE q == call.request
<1>1. TypeOK /\ call \in Call /\ q \in Request /\ Made(q) /\ call.before \in Seq(Effect) /\ Base = call.before
  BY CallFacts DEF IInv
<1>2. /\ mem' = call.before /\ call' = NoCall /\ Answer(q, "failed", call.before)
      /\ UNCHANGED <<receipts, ended>>
  BY DEF RollBack
<1>3. /\ answers' \subseteq answers \cup {[request |-> q, result |-> "failed", seen |-> Len(call.before)]}
      /\ answers' \subseteq [request : Request, result : Result \cup {"refused", "failed"}, seen : Nat]
  BY <1>1, <1>2, AnswerFacts
<1>4. TypeOK'
  BY <1>1, <1>2, <1>3 DEF TypeOK, clients
<1>5. IdsOnce'
  BY <1>1, <1>2, <1>3, SameMade DEF IInv
<1>6. DecidedOnce'
  BY <1>2 DEF IInv, DecidedOnce
<1>7. ToldFromReceipts'
  BY <1>2, <1>3, ToldStays DEF IInv, clients, Result
<1>8. ~Open' /\ Base' = Base /\ CallTrue'
  BY <1>1, <1>2 DEF Open, Base, CallTrue
<1>9. ReceiptsTrue'
  BY <1>2, <1>8 DEF IInv, ReceiptsTrue
<1> QED BY <1>1, <1>4, <1>5, <1>6, <1>7, <1>8, <1>9 DEF IInv

\* The answer is remembered when the store holds what the server plays on.
LEMMA AcceptKeeps ==
    ASSUME IInv, Open, Accept, UNCHANGED <<clients, requests, lease, token>>,
           failures' \in Nat, stored' = mem,
           kept' \subseteq [request : Request, status : Result, state : Seq(Effect)],
           \A k \in kept' : k \in kept \/ k.request = call.request,
           \A k1, k2 \in kept' : Key(k1.request) = Key(k2.request) => k1 = k2,
           KeptTrue'
    PROVE  IInv'
<1> DEFINE q == call.request
           new == [request |-> q, status |-> "accepted"]
<1>1. /\ TypeOK /\ ReceiptsTrue /\ DecidedOnce /\ call \in Call /\ q \in Request /\ Made(q)
      /\ call.before \in Seq(Effect) /\ mem \in Seq(Effect)
      /\ Base = call.before
  BY CallFacts DEF IInv
<1>2. Keys(mem) = Keys(Base) \cup {Key(q)} /\ \A r \in receipts : Key(r.request) # Key(q)
  BY CallFacts
<1>3. receipts' = receipts \cup {new} /\ call' = [call EXCEPT !.stage = "deliver"] /\ UNCHANGED <<mem, ended, answers>>
  BY DEF Accept
<1>4. new \in [request : Request, status : Result]
  BY <1>1 DEF Result
<1>5. call' \in Call /\ call'.request = q /\ call'.stage = "deliver"
  BY <1>1, <1>3 DEF Call
<1>6. TypeOK'
  BY <1>1, <1>3, <1>4, <1>5 DEF TypeOK, clients
<1>7. IdsOnce'
  BY <1>1, <1>3, <1>5, SameMade DEF IInv
<1>8. DecidedOnce'
  BY <1>1, <1>2, <1>3 DEF DecidedOnce
<1>9. ToldFromReceipts'
  BY <1>3, ToldStays DEF IInv, clients
<1>10. ~Open' /\ Base' = mem
  BY <1>3, <1>5 DEF Open, Base
<1>11. CallTrue' /\ Durable'
  BY <1>3, <1>5, <1>10 DEF CallTrue, Durable
<1>12. ReceiptsTrue'
  <2>1. ASSUME NEW r \in receipts, r.status = "accepted" PROVE Key(r.request) \in Keys(mem)
    BY <1>1, <1>2, <2>1 DEF ReceiptsTrue
  <2>2. ASSUME NEW r \in receipts, r.status # "accepted" PROVE Key(r.request) \notin Keys(mem)
    BY <1>1, <1>2, <2>2 DEF ReceiptsTrue, DecidedOnce
  <2>3. \A key \in Keys(mem) : \E r \in receipts' : r.status = "accepted" /\ Key(r.request) = key
    BY <1>1, <1>2, <1>3 DEF ReceiptsTrue
  <2>4. \A r \in receipts' : IF r.status = "accepted" THEN Key(r.request) \in Keys(mem)
                                                      ELSE Key(r.request) \notin Keys(mem)
    BY <1>2, <1>3, <2>1, <2>2
  <2> QED BY <1>3, <1>10, <2>3, <2>4 DEF ReceiptsTrue
<1> QED BY <1>6, <1>7, <1>8, <1>9, <1>11, <1>12 DEF IInv

LEMMA OwnKeeps == ASSUME IInv, Own PROVE IInv'
<1>1. TypeOK /\ Open /\ UNCHANGED <<stored, kept, clients, requests>>
  BY DEF IInv, Own, Open
<1>2. ASSUME RollBack, lease' \in BOOLEAN, token' \in BOOLEAN, failures' \in Nat PROVE IInv'
  <2>1. stored' \in Seq(Effect) /\ kept' \subseteq [request : Request, status : Result, state : Seq(Effect)]
    BY <1>1 DEF TypeOK
  <2>2. \A k1, k2 \in kept' : Key(k1.request) = Key(k2.request) => k1 = k2
    BY <1>1 DEF IInv, DecidedOnce
  <2>3. KeptTrue'
    BY <1>1 DEF IInv, KeptTrue
  <2>4. Base' = call.before => Durable'
    BY <1>1, CallFacts DEF IInv, Durable, Ahead, Beyond
  <2> QED BY <1>1, <1>2, <2>1, <2>2, <2>3, <2>4, RollBackKeeps
<1>3. CASE /\ lease' = TRUE /\ token' = TRUE
           /\ call' = [call EXCEPT !.stage = "execute"]
           /\ UNCHANGED <<mem, receipts, ended, answers, failures>>
  <2>1. call \in Call /\ call # NoCall /\ Base = call.before /\ Made(call.request) /\ call.request \in Request
    BY <1>1, CallFacts DEF Open
  <2>2. call' \in Call /\ call'.request = call.request /\ call'.before = call.before /\ call'.stage = "execute"
    BY <1>3, <2>1 DEF Call
  <2>3. call' # NoCall
    BY <2>2, CallAssumption
  <2>4. TypeOK'
    BY <1>1, <1>3, <2>2 DEF TypeOK, clients
  <2>5. IdsOnce'
    BY <1>1, <1>3, <2>1, <2>2, SameMade DEF IInv
  <2>6. DecidedOnce' /\ ToldFromReceipts' /\ KeptTrue'
    BY <1>1, <1>3 DEF IInv, DecidedOnce, ToldFromReceipts, KeptTrue, clients
  <2>7. Open' /\ Base' = Base
    BY <2>1, <2>2, <2>3 DEF Open, Base
  <2>8. CallTrue'
    BY <1>1, <1>3, <2>2 DEF IInv, CallTrue, Earlier, Open
  <2>9. ReceiptsTrue' /\ Durable'
    BY <1>1, <1>3, <2>7 DEF IInv, ReceiptsTrue, Durable, Ahead, Beyond
  <2> QED BY <2>4, <2>5, <2>6, <2>8, <2>9 DEF IInv
<1>4. CASE Fails /\ lease' = TRUE /\ token' = FALSE /\ RollBack
  <2>1. failures' \in Nat
    BY <1>1, <1>4 DEF Fails, TypeOK
  <2> QED BY <1>2, <1>4, <2>1
<1>5. CASE Fails /\ RollBack /\ UNCHANGED <<lease, token>>
  BY <1>1, <1>2, <1>5 DEF Fails, TypeOK
<1>6. CASE RollBack /\ UNCHANGED <<lease, token, failures>>
  BY <1>1, <1>2, <1>6 DEF TypeOK
<1> QED BY <1>3, <1>4, <1>5, <1>6 DEF Own

\* The store answers from an accepted receipt of this very state: it is the state it holds.
LEMMA KeptIsStored ==
    ASSUME IInv, Open, NEW k \in kept, k.request = call.request, k.state = mem, k.status = "accepted"
    PROVE  stored = mem
<1> DEFINE q == call.request
           before == call.before
<1>1. /\ mem \in Seq(Effect) /\ before \in Seq(Effect) /\ Base = before /\ Len(mem) > Len(before)
      /\ Key(q) \notin Keys(before)
  BY CallFacts
<1>2. stored \in Seq(Effect) /\ TypeOK
  BY DEF IInv, TypeOK
<1>3. Prefix(mem, stored) /\ Key(q) \in Keys(mem)
  BY DEF IInv, KeptTrue
<1>4. Key(q) \in Keys(stored)
  BY <1>1, <1>2, <1>3, KeysPrefix
<1>5. ~(before = stored) /\ ~Beyond(before)
  BY <1>1, <1>2, <1>3 DEF Prefix, Beyond
<1>6. Ahead(before)
  BY <1>1, <1>5 DEF IInv, Durable
<1>7. PICK o \in kept : o.status = "accepted" /\ o.state = stored /\ stored \in Applied(o.request, before)
  BY <1>6 DEF Ahead
<1>8. o.request \in Request
  BY <1>2, <1>7 DEF TypeOK
<1>9. Keys(stored) = Keys(before) \cup {Key(o.request)}
  BY <1>1, <1>7, <1>8, AppliedFacts
<1>10. Key(o.request) = Key(k.request)
  BY <1>1, <1>4, <1>9
<1>11. o = k
  BY <1>10 DEF IInv, DecidedOnce
<1> QED BY <1>7, <1>11

\* The store commits an action only to the state the server took as the checkpoint.
LEMMA StoredIsBase ==
    ASSUME IInv, Open, call.request.expected = Len(stored)
    PROVE  stored = call.before
<1> DEFINE before == call.before
<1>1. /\ before \in Seq(Effect) /\ Base = before /\ stored \in Seq(Effect)
      /\ call.request.expected = Len(before) /\ Durable /\ TypeOK
  BY CallFacts DEF IInv, TypeOK, CallTrue
<1>2. ASSUME Ahead(before) PROVE FALSE
  <2>1. PICK k \in kept : stored \in Applied(k.request, before)
    BY <1>2 DEF Ahead
  <2>2. k.request \in Request
    BY <1>1 DEF TypeOK
  <2>3. Len(stored) > Len(before)
    BY <1>1, <2>1, <2>2, AppliedFacts
  <2>4. Len(stored) = Len(before) /\ Len(before) \in Nat
    BY <1>1
  <2> QED BY <2>3, <2>4
<1>3. ~Beyond(before)
  BY <1>1 DEF Beyond
<1> QED BY <1>1, <1>2, <1>3 DEF Durable

LEMMA ExecuteKeeps == ASSUME IInv, Execute PROVE IInv'
<1> DEFINE q == call.request
           before == call.before
           new(status) == [request |-> q, status |-> status, state |-> mem]
<1>1. TypeOK /\ Open /\ UNCHANGED <<lease, token, clients, requests>>
  BY DEF IInv, Execute, Open
<1>2. /\ q \in Request /\ mem \in Seq(Effect) /\ before \in Seq(Effect) /\ Base = before
      /\ Prefix(before, mem) /\ Len(mem) > Len(before) /\ Keys(mem) = Keys(before) \cup {Key(q)}
      /\ \A r \in receipts : Key(r.request) # Key(q)
  BY <1>1, CallFacts
<1>3. DecidedOnce /\ KeptTrue /\ Durable /\ CallTrue /\ stored \in Seq(Effect) /\ failures \in Nat
  BY DEF IInv, TypeOK
<1>4. ASSUME RollBack, UNCHANGED <<stored, kept>>, failures' \in Nat PROVE IInv'
  <2>1. stored' \in Seq(Effect) /\ kept' \subseteq [request : Request, status : Result, state : Seq(Effect)]
    BY <1>1, <1>4 DEF TypeOK
  <2>2. \A k1, k2 \in kept' : Key(k1.request) = Key(k2.request) => k1 = k2
    BY <1>3, <1>4 DEF DecidedOnce
  <2>3. KeptTrue'
    BY <1>3, <1>4 DEF KeptTrue
  <2>4. Base' = before => Durable'
    BY <1>2, <1>3, <1>4 DEF Durable, Ahead, Beyond
  <2> QED BY <1>1, <1>4, <2>1, <2>2, <2>3, <2>4, RollBackKeeps DEF TypeOK
<1>5. CASE RollBack /\ UNCHANGED <<stored, kept, failures>>
  BY <1>3, <1>4, <1>5
<1>6. CASE /\ \E k \in Kept(q) : k.request = q /\ k.state = mem /\ k.status = "accepted"
           /\ Accept
           /\ UNCHANGED <<stored, kept, failures>>
  <2>1. stored' = mem
    BY <1>1, <1>6, KeptIsStored DEF Kept
  <2>2. kept' \subseteq [request : Request, status : Result, state : Seq(Effect)] /\ failures' \in Nat
    BY <1>1, <1>6 DEF TypeOK
  <2>3. \A k1, k2 \in kept' : Key(k1.request) = Key(k2.request) => k1 = k2
    BY <1>3, <1>6 DEF DecidedOnce
  <2>4. KeptTrue'
    BY <1>3, <1>6 DEF KeptTrue
  <2> QED BY <1>1, <1>6, <2>1, <2>2, <2>3, <2>4, AcceptKeeps
<1>7. ASSUME Kept(q) = {}, NEW status \in Result, kept' = kept \cup {new(status)}
      PROVE  /\ kept' \subseteq [request : Request, status : Result, state : Seq(Effect)]
             /\ \A k \in kept' : k \in kept \/ k.request = q
             /\ \A k1, k2 \in kept' : Key(k1.request) = Key(k2.request) => k1 = k2
  <2>1. new(status) \in [request : Request, status : Result, state : Seq(Effect)]
    BY <1>2
  <2>2. \A k \in kept : Key(k.request) # Key(q)
    BY <1>7 DEF Kept, Key
  <2> QED BY <1>1, <1>3, <1>7, <2>1, <2>2 DEF TypeOK, DecidedOnce
<1>8. CASE /\ Kept(q) = {}
           /\ kept' = kept \cup {new("rejected")}
           /\ RollBack
           /\ UNCHANGED <<stored, failures>>
  <2>1. "rejected" \in Result /\ "rejected" # "accepted"
    BY DEF Result
  <2>2. KeptTrue'
    BY <1>3, <1>8, <2>1 DEF KeptTrue
  <2>3. Base' = before => Durable'
    BY <1>2, <1>3, <1>8 DEF Durable, Ahead, Beyond
  <2>4. /\ kept' \subseteq [request : Request, status : Result, state : Seq(Effect)]
        /\ \A k \in kept' : k \in kept \/ k.request = q
        /\ \A k1, k2 \in kept' : Key(k1.request) = Key(k2.request) => k1 = k2
    BY <1>7, <1>8, <2>1
  <2> QED BY <1>1, <1>3, <1>8, <2>2, <2>3, <2>4, RollBackKeeps DEF TypeOK
<1>9. CASE /\ Kept(q) = {} /\ q.expected = Len(stored)
           /\ kept' = kept \cup {new("accepted")}
           /\ stored' = mem
           /\ \/ Accept /\ UNCHANGED failures
              \/ Fails /\ RollBack
  <2>1. q.expected = Len(before) /\ Legal(q.by, before) /\ mem \in Applied(q, before)
    BY <1>1, <1>3 DEF CallTrue
  <2>2. stored = before
    BY <1>1, <1>9, StoredIsBase
  <2>3. KeptTrue'
    <3>1. ASSUME NEW k \in kept', k.status = "accepted" PROVE Prefix(k.state, mem) /\ Key(k.request) \in Keys(k.state)
      <4>1. CASE k \in kept
        <5>1. Prefix(k.state, before) /\ Key(k.request) \in Keys(k.state) /\ k.state \in Seq(Effect)
          BY <1>1, <1>3, <2>2, <3>1, <4>1 DEF KeptTrue, TypeOK
        <5> QED BY <1>2, <5>1, PrefixTransitive
      <4>2. CASE k = new("accepted")
        BY <1>2, <4>2 DEF Prefix
      <4> QED BY <1>9, <3>1, <4>1, <4>2
    <3> QED BY <1>9, <3>1 DEF KeptTrue
  <2>4. /\ kept' \subseteq [request : Request, status : Result, state : Seq(Effect)]
        /\ \A k \in kept' : k \in kept \/ k.request = q
        /\ \A k1, k2 \in kept' : Key(k1.request) = Key(k2.request) => k1 = k2
    BY <1>7, <1>9 DEF Result
  <2>5. CASE Accept /\ UNCHANGED failures
    BY <1>1, <1>3, <1>9, <2>3, <2>4, <2>5, AcceptKeeps
  <2>6. CASE Fails /\ RollBack
    <3>1. failures' \in Nat
      BY <1>3, <2>6 DEF Fails
    <3>2. stored' \in Seq(Effect)
      BY <1>2, <1>9
    <3>3. Base' = before => Durable'
      <4>1. new("accepted") \in kept' /\ new("accepted").request = q
        BY <1>9
      <4>2. \E k \in kept' : /\ k.status = "accepted" /\ k.state = stored'
                             /\ k.request.expected = Len(before) /\ Legal(k.request.by, before)
                             /\ stored' \in Applied(k.request, before)
        BY <1>9, <2>1, <4>1
      <4> QED BY <4>2 DEF Durable, Ahead
    <3>4. \A r \in receipts : Key(r.request) \in Keys(stored)' <=> Key(r.request) \in Keys(stored)
      BY <1>2, <1>9, <2>2
    <3> QED BY <1>1, <2>3, <2>4, <2>6, <3>1, <3>2, <3>3, <3>4, RollBackKeeps DEF TypeOK
  <2> QED BY <1>9, <2>5, <2>6
<1>10. CASE Fails /\ RollBack /\ UNCHANGED <<stored, kept>>
  BY <1>3, <1>4, <1>10 DEF Fails
<1> QED BY <1>5, <1>6, <1>8, <1>9, <1>10 DEF Execute

LEMMA DeliverKeeps == ASSUME IInv, Deliver PROVE IInv'
<1> DEFINE q == call.request
<1>1. /\ TypeOK /\ CallTrue /\ call # NoCall /\ call.stage = "deliver" /\ call' = NoCall
      /\ UNCHANGED <<mem, receipts, ended, store, clients, requests>>
  BY DEF IInv, Deliver
<1>2. q \in Request /\ mem \in Seq(Effect) /\ Made(q)
  BY <1>1 DEF TypeOK, Call, Made
<1>3. [request |-> q, status |-> "accepted"] \in receipts
  BY <1>1 DEF CallTrue
<1>4. ASSUME NEW result \in {"accepted", "failed"}, Answer(q, result, mem), failures' \in Nat PROVE IInv'
  <2>1. /\ answers' \subseteq answers \cup {[request |-> q, result |-> result, seen |-> Len(mem)]}
        /\ answers' \subseteq [request : Request, result : Result \cup {"refused", "failed"}, seen : Nat]
    BY <1>1, <1>2, <1>4, AnswerFacts DEF Result
  <2>2. TypeOK'
    BY <1>1, <1>4, <2>1 DEF TypeOK, store, clients
  <2>3. IdsOnce'
    BY <1>1, <1>2, <2>1, SameMade DEF IInv, store
  <2>4. ToldFromReceipts'
    BY <1>1, <1>3, <2>1, ToldStays DEF IInv, clients, Result
  <2>5. DecidedOnce' /\ KeptTrue'
    BY <1>1 DEF IInv, DecidedOnce, KeptTrue, store
  <2>6. ~Open' /\ Base' = mem /\ Base = mem /\ CallTrue'
    BY <1>1 DEF Open, Base, CallTrue
  <2>7. ReceiptsTrue' /\ Durable'
    BY <1>1, <2>6 DEF IInv, ReceiptsTrue, Durable, Ahead, Beyond, store
  <2> QED BY <2>2, <2>3, <2>4, <2>5, <2>6, <2>7 DEF IInv
<1>5. CASE Answer(q, "accepted", mem) /\ UNCHANGED failures
  BY <1>1, <1>4, <1>5 DEF TypeOK
<1>6. CASE Answer(q, "failed", mem) /\ Fails
  BY <1>1, <1>4, <1>6 DEF TypeOK, Fails
<1> QED BY <1>5, <1>6 DEF Deliver

\* A prepared deal holds no action of a player: it may be ahead of the store.
LEMMA NextDealKeeps == ASSUME IInv, NextDeal PROVE IInv'
<1>1. /\ TypeOK /\ call = NoCall /\ RoundSummary /\ DealComplete(mem) /\ mem' = Append(mem, Prepared)
      /\ UNCHANGED <<receipts, ended, call, store, clients, network, failures>>
  BY DEF IInv, NextDeal
<1>2. Prepared \in Effect /\ Prepared.by = Host
  BY DEF Prepared, Effect
<1>3. mem \in Seq(Effect) /\ mem' \in Seq(Effect) /\ Len(mem') = Len(mem) + 1 /\ Keys(mem') = Keys(mem)
  BY <1>1, <1>2, KeysAppend DEF TypeOK
<1>4. TypeOK'
  BY <1>1, <1>3 DEF TypeOK, store, clients, network
<1>5. IdsOnce'
  <2>1. \A q \in Request : Made(q)' => Made(q)
    BY <1>1 DEF Made, store, clients, network
  <2> QED BY <1>1, <2>1, SameIds DEF IInv, clients
<1>6. DecidedOnce' /\ ToldFromReceipts' /\ KeptTrue'
  BY <1>1 DEF IInv, DecidedOnce, ToldFromReceipts, KeptTrue, store, clients, network
<1>7. ~Open' /\ Base' = mem' /\ Base = mem /\ CallTrue'
  BY <1>1 DEF Open, Base, CallTrue
<1>8. Keys(Base)' = Keys(Base)
  BY <1>3, <1>7
<1>9. ReceiptsTrue'
  BY <1>1, <1>8 DEF IInv, ReceiptsTrue, store
<1>10. Durable'
  <2>1. ~Ahead(mem)
    BY <1>1 DEF Ahead, Legal
  <2>2. mem = stored \/ Beyond(mem)
    BY <1>7, <2>1 DEF IInv, Durable
  <2>3. stored' = stored /\ stored \in Seq(Effect)
    BY <1>1 DEF store, TypeOK
  <2>4. Len(mem') > Len(stored') /\ Keys(mem') = Keys(stored')
    BY <1>3, <2>2, <2>3 DEF Beyond
  <2>5. Beyond(mem)'
    BY <1>1, <2>4 DEF Beyond
  <2> QED BY <1>7, <2>5 DEF Durable
<1> QED BY <1>4, <1>5, <1>6, <1>7, <1>9, <1>10 DEF IInv

-------------------------------------------------------------------------------
(* The results *)

LEMMA StepKeeps == ASSUME IInv, [Next]_vars PROVE IInv'
<1>1. ASSUME NEW p \in Players, Submit(p) PROVE IInv'
  BY <1>1, SubmitKeeps
<1>2. ASSUME NEW a \in answers, Take(a) PROVE IInv'
  BY <1>2, TakeKeeps
<1>3. ASSUME NEW q \in requests, Receive(q) PROVE IInv'
  BY <1>3, ReceiveKeeps
<1>4. ASSUME (\E p \in Players : Refresh(p) \/ Send(p)) \/ Lose \/ End \/ Expire \/ UNCHANGED vars PROVE IInv'
  BY <1>4, OthersKeep
<1> QED BY <1>1, <1>2, <1>3, <1>4, OwnKeeps, ExecuteKeeps, DeliverKeeps, NextDealKeeps DEF Next

\* Every state of a match satisfies the inductive invariant: the server's state, the store's
\* and the receipts of both agree, up to one action whose reply was lost and up to deals
\* prepared and never committed.
THEOREM Invariance == Spec => []IInv
<1>1. IInv /\ [Next]_vars => IInv'
  BY StepKeeps
<1> QED BY Initially, <1>1, PTL DEF Spec

\* Every variable of the host, the store, the clients and the network keeps its type.
THEOREM HostTyped == Spec => []TypeOK
<1>1. IInv => TypeOK
  BY DEF IInv
<1> QED BY Invariance, <1>1, PTL

\* A client told "accepted" finds its action in the match the server plays and in the stored
\* one for ever, one told "rejected" never does, and every retry is answered the same
\* (execute, _commit_durable_state).
THEOREM AnswersStand == Spec => []AnswersHold
<1>1. ASSUME IInv PROVE AnswersHold
  <2>1. Keys(Base) \subseteq Keys(mem)
    BY <1>1, CallFacts DEF Base
  <2>2. AnswersTrue
    <3> SUFFICES ASSUME NEW t \in told
                 PROVE  IF t.status = "accepted" THEN <<t.by, t.id>> \in Keys(stored) \cap Keys(mem)
                                                 ELSE <<t.by, t.id>> \notin Keys(stored)
      BY DEF AnswersTrue
    <3>1. PICK r \in receipts : Key(r.request) = <<t.by, t.id>> /\ r.status = t.status
      BY <1>1 DEF IInv, ToldFromReceipts
    <3> QED BY <1>1, <2>1, <3>1 DEF IInv, ReceiptsTrue
  <2>3. ASSUME NEW a \in answers, a.result \in Result
        PROVE  [request |-> a.request, status |-> a.result] \in receipts
    BY <1>1, <2>3 DEF IInv, ToldFromReceipts
  <2>4. ASSUME NEW a \in answers, NEW b \in answers, a.request = b.request, {a.result, b.result} \subseteq Result
        PROVE  a.result = b.result
    <3>1. /\ [request |-> a.request, status |-> a.result] \in receipts
          /\ [request |-> b.request, status |-> b.result] \in receipts
      BY <2>3, <2>4
    <3>2. [request |-> a.request, status |-> a.result] = [request |-> b.request, status |-> b.result]
      BY <1>1, <2>4, <3>1 DEF IInv, DecidedOnce
    <3> QED BY <3>2
  <2>5. ASSUME NEW a \in answers, a.result \in Result,
               NEW t \in told, t.by = a.request.by, t.id = a.request.id
        PROVE  t.status = a.result
    <3>1. [request |-> a.request, status |-> a.result] \in receipts
      BY <2>3, <2>5
    <3>2. PICK r \in receipts : Key(r.request) = <<t.by, t.id>> /\ r.status = t.status
      BY <1>1 DEF IInv, ToldFromReceipts
    <3>3. r = [request |-> a.request, status |-> a.result]
      BY <1>1, <2>5, <3>1, <3>2 DEF IInv, DecidedOnce, Key
    <3> QED BY <3>2, <3>3
  <2> QED BY <2>2, <2>4, <2>5 DEF AnswersHold, AnswersAlike
<1> QED BY Invariance, <1>1, PTL

\* Where no deal waits for the creator, whatever the players see between two actions is what
\* a recovery would replay, or a beginning of it (_commit_durable_state).
THEOREM SeenIsDurable == ASSUME ~RoundSummary PROVE Spec => []MemoryIsDurable
<1>1. ASSUME IInv PROVE MemoryIsDurable
  <2> SUFFICES ASSUME call = NoCall PROVE Prefix(mem, stored)
    BY DEF MemoryIsDurable, Prefix
  <2>1. Base = mem /\ Durable /\ ~Beyond(mem) /\ mem \in Seq(Effect)
    BY <1>1 DEF Base, Open, IInv, Beyond, TypeOK
  <2>2. CASE mem = stored
    BY <2>1, <2>2 DEF Prefix
  <2>3. CASE Ahead(mem)
    <3>1. PICK k \in kept : stored \in Applied(k.request, mem)
      BY <2>3 DEF Ahead
    <3>2. k.request \in Request
      BY <1>1 DEF IInv, TypeOK
    <3> QED BY <2>1, <3>1, <3>2, AppliedFacts
  <2> QED BY <2>1, <2>2, <2>3 DEF Durable
<1> QED BY Invariance, <1>1, PTL

\* With or without a round summary, every player's action that can be seen between two
\* actions is in the store.
THEOREM EveryActionDurable == Spec => [](call = NoCall => Keys(mem) \subseteq Keys(stored))
<1>1. ASSUME IInv, call = NoCall PROVE Keys(mem) \subseteq Keys(stored)
  BY <1>1 DEF IInv, ReceiptsTrue, Base, Open
<1>2. IInv => (call = NoCall => Keys(mem) \subseteq Keys(stored))
  BY <1>1
<1> QED BY Invariance, <1>2, PTL

-------------------------------------------------------------------------------
(* The host implements CommandLog *)

\* The abstract variables, as the mapping of Log gives them.
LogOf == [g \in {Host} |-> Actions(stored)]
DecidedOf == {Decision(r) : r \in receipts} \cup {Decision(k) : k \in kept}
Telling(t) == [game |-> Host, key |-> <<t.by, t.id>>, status |-> t.status]
ToldOf == {Telling(t) : t \in told}

LEMMA ActionsAppend ==
    ASSUME NEW m \in Seq(Effect), NEW e \in Effect
    PROVE  Actions(Append(m, e)) =
               IF e \in ByPlayer THEN Append(Actions(m), <<e.by, e.id>>) ELSE Actions(m)
<1> DEFINE w == Within(m, ByPlayer)
           v == Within(Append(m, e), ByPlayer)
<1>1. w \in Seq(Effect) /\ Len(w) \in Nat
  BY WithinFacts
<1>2. v = IF e \in ByPlayer THEN Append(w, e) ELSE w
  BY WithinAppend
<1>3. /\ Actions(m) = [n \in 1..Len(w) |-> <<w[n].by, w[n].id>>]
      /\ Actions(Append(m, e)) = [n \in 1..Len(v) |-> <<v[n].by, v[n].id>>]
  BY DEF Actions
<1> HIDE DEF w, v
<1>4. CASE e \notin ByPlayer
  BY <1>2, <1>3, <1>4
<1>5. CASE e \in ByPlayer
  <2> DEFINE a == [n \in 1..Len(w) |-> <<w[n].by, w[n].id>>]
             b == [n \in 1..Len(v) |-> <<v[n].by, v[n].id>>]
             key == <<e.by, e.id>>
  <2>1. /\ Len(v) = Len(w) + 1 /\ v[Len(w) + 1] = e
        /\ \A n \in 1..Len(w) : v[n] = w[n]
    BY <1>1, <1>2, <1>5
  <2>2. /\ Len(a) = Len(w) /\ DOMAIN Append(a, key) = 1..(Len(w) + 1)
        /\ \A n \in 1..Len(w) : Append(a, key)[n] = <<w[n].by, w[n].id>>
        /\ Append(a, key)[Len(w) + 1] = key
    BY <1>1
  <2>3. \A n \in 1..(Len(w) + 1) : b[n] = Append(a, key)[n]
    BY <1>1, <2>1, <2>2
  <2>4. b = Append(a, key)
    BY <1>1, <2>1, <2>2, <2>3
  <2> QED BY <1>3, <1>5, <2>4
<1> QED BY <1>4, <1>5

\* An action adds itself to the log, and the prepared deal adds nothing.
LEMMA ActionsApplied ==
    ASSUME NEW m \in Seq(Effect), NEW q \in Request, NEW l \in Applied(q, m)
    PROVE  Actions(l) = Append(Actions(m), Key(q))
<1>1. PICK s \in Shuffles \cup {NoShuffle} : l = Controlled(Append(m, [by |-> q.by, id |-> q.id, shuffle |-> s]))
  BY DEF Applied
<1> DEFINE e == [by |-> q.by, id |-> q.id, shuffle |-> s]
           l1 == Append(m, e)
<1>2. e \in ByPlayer /\ e \in Effect /\ <<e.by, e.id>> = Key(q)
  BY HostedAssumption DEF ByPlayer, Effect, Request, Players, Host, Key
<1>3. l1 \in Seq(Effect) /\ Actions(l1) = Append(Actions(m), Key(q))
  BY <1>2, ActionsAppend
<1>4. Prepared \in Effect /\ Prepared \notin ByPlayer
  BY DEF Prepared, Effect, ByPlayer, Players, Host
<1>5. Actions(Append(l1, Prepared)) = Actions(l1)
  BY <1>3, <1>4, ActionsAppend
<1>6. l = l1 \/ l = Append(l1, Prepared)
  BY <1>1 DEF Controlled
<1> QED BY <1>3, <1>5, <1>6

LEMMA NothingLogged == ASSUME Init PROVE Log!Init
<1>1. Prepared \in Effect /\ Prepared \notin ByPlayer
  BY DEF Prepared, Effect, ByPlayer, Players, Host
<1>2. << >> \in Seq(Effect) /\ stored = Append(<< >>, Prepared)
  BY DEF Init
<1>3. Actions(stored) = Actions(<< >>)
  BY <1>1, <1>2, ActionsAppend
<1>4. Actions(<< >>) = << >>
  <2> DEFINE w == Within(<< >>, ByPlayer)
  <2>1. Len(w) \in Nat /\ Len(w) <= Len(<< >>)
    BY <1>2, WithinFacts
  <2>2. Len(w) = 0 /\ Actions(<< >>) = [n \in 1..Len(w) |-> <<w[n].by, w[n].id>>]
    BY <2>1 DEF Actions
  <2> HIDE DEF w
  <2> QED BY <2>2
<1>5. LogOf = [g \in {Host} |-> << >>]
  BY <1>3, <1>4 DEF LogOf
<1>6. DecidedOf = {} /\ ToldOf = {}
  BY DEF Init, DecidedOf, ToldOf
<1> QED BY <1>5, <1>6 DEF Log!Init, LogOf, DecidedOf, ToldOf, Telling

\* A step of this host that decides and tells nothing new is not seen in the log.
LEMMA LogStutters ==
    ASSUME LogOf' = LogOf, DecidedOf' = DecidedOf, ToldOf' = ToldOf
    PROVE  UNCHANGED Log!logVars
BY DEF Log!logVars, LogOf, DecidedOf, ToldOf, Telling

LEMMA SameLog ==
    ASSUME UNCHANGED <<stored, receipts, kept, told>>
    PROVE  UNCHANGED Log!logVars
<1>1. LogOf' = LogOf
  BY DEF LogOf
<1>2. DecidedOf' = DecidedOf /\ ToldOf' = ToldOf
  BY DEF DecidedOf, Decision, ToldOf, Telling
<1> QED BY <1>1, <1>2, LogStutters

\* What was decided of a key, by whichever of the two.
LEMMA DecidedFacts ==
    ASSUME NEW x
    PROVE  x \in DecidedOf <=> (\E r \in receipts : x = Decision(r)) \/ (\E k \in kept : x = Decision(k))
BY DEF DecidedOf

\* An answer tells what a receipt says.
LEMMA TakeTells == ASSUME IInv, NEW a \in answers, Take(a) PROVE [Log!Next]_(Log!logVars)
<1> DEFINE t == [by |-> a.request.by, id |-> a.request.id, status |-> a.result]
           receipt == [request |-> a.request, status |-> a.result]
<1>1. UNCHANGED <<stored, receipts, kept>>
  BY DEF Take, server, store
<1>2. LogOf' = LogOf /\ DecidedOf' = DecidedOf
  BY <1>1 DEF LogOf, DecidedOf, Decision
<1>3. CASE told' = told
  BY <1>1, <1>3, SameLog
<1>4. CASE a.result \in Result /\ told' = told \cup {t}
  <2>1. receipt \in receipts
    BY <1>4 DEF IInv, ToldFromReceipts
  <2>2. Telling(t) = Decision(receipt)
    BY DEF Telling, Decision
  <2> HIDE DEF t, receipt
  <2>3. Decision(receipt) \in DecidedOf
    BY <2>1, DecidedFacts
  <2>4. ToldOf' = ToldOf \cup {Telling(t)}
    BY <1>4 DEF ToldOf, Telling
  <2>5. Log!Tell(Telling(t))
    BY <1>2, <2>4 DEF Log!Tell, ToldOf, LogOf, DecidedOf, Telling
  <2>6. \E d \in DecidedOf : Log!Tell(d)
    BY <2>2, <2>3, <2>5
  <2> QED BY <2>6 DEF Log!Next, DecidedOf
<1> QED BY <1>3, <1>4 DEF Take

\* A key that neither has decided.
LEMMA NotDecided ==
    ASSUME NEW q, \A r \in receipts : Key(r.request) # Key(q), \A k \in kept : Key(k.request) # Key(q)
    PROVE  Log!Undecided(Host, Key(q))
<1>1. ASSUME NEW x \in DecidedOf PROVE x.key # Key(q)
  <2>1. CASE \E r \in receipts : x = Decision(r)
    BY <2>1 DEF Decision, Key
  <2>2. CASE \E k \in kept : x = Decision(k)
    BY <2>2 DEF Decision, Key
  <2> QED BY <2>1, <2>2, DecidedFacts
<1> QED BY <1>1 DEF Log!Undecided, DecidedOf

\* A decision is new to the log, or the store had taken it and its reply was lost.
LEMMA RejectLogs ==
    ASSUME NEW q \in Request, Log!Undecided(Host, Key(q)), UNCHANGED <<stored, told>>,
           DecidedOf' = DecidedOf \cup {Decision([request |-> q, status |-> "rejected"])}
    PROVE  Log!Next
<1>1. Key(q) \in Log!Keys
  BY DEF Key, Request, Log!Keys
<1>2. Decision([request |-> q, status |-> "rejected"]) = [game |-> Host, key |-> Key(q), status |-> "rejected"]
  BY DEF Decision, Key
<1>3. LogOf' = LogOf /\ ToldOf' = ToldOf
  BY DEF LogOf, ToldOf, Telling
<1>4. Log!Reject(Host, Key(q))
  BY <1>2, <1>3 DEF Log!Reject, LogOf, DecidedOf, ToldOf, Telling
<1> QED BY <1>1, <1>4 DEF Log!Next

LEMMA ReceiveLogs == ASSUME IInv, NEW q \in requests, Receive(q) PROVE [Log!Next]_(Log!logVars)
<1> DEFINE new == [request |-> q, status |-> "rejected"]
<1>1. TypeOK /\ call = NoCall /\ q \in Request /\ Made(q) /\ IdsOnce /\ KeptTrue
  BY DEF IInv, TypeOK, Receive, Made
<1>2. UNCHANGED <<stored, kept, told>>
  BY DEF Receive, store, clients
<1>3. CASE receipts' = receipts
  BY <1>2, <1>3, SameLog
<1>4. CASE /\ Earlier(q) = {}
           /\ q.expected # Len(mem) \/ ~Legal(q.by, mem)
           /\ receipts' = receipts \cup {new}
  <2>1. \A r \in receipts : Key(r.request) # Key(q)
    BY <1>4, Undecided
  <2>2. DecidedOf' = DecidedOf \cup {Decision(new)}
    BY <1>2, <1>4 DEF DecidedOf, Decision
  <2>3. CASE \A k \in kept : Key(k.request) # Key(q)
    <3>1. Log!Undecided(Host, Key(q))
      BY <2>1, <2>3, NotDecided
    <3> QED BY <1>1, <1>2, <2>2, <3>1, RejectLogs
  <2>4. CASE \E k \in kept : Key(k.request) = Key(q)
    <3>1. PICK k \in kept : Key(k.request) = Key(q)
      BY <2>4
    <3>2. k.request \in Request /\ k.status \in Result /\ k.state \in Seq(Effect) /\ stored \in Seq(Effect)
      BY <1>1 DEF TypeOK
    <3>3. k.request = q
      BY <1>1, <3>1, <3>2 DEF IdsOnce, Made
    <3>4. Key(q) \notin Keys(stored)
      BY <1>1, <1>4, RejectedIsNowhere
    <3>5. k.status # "accepted"
      BY <1>1, <3>1, <3>2, <3>4, KeysPrefix DEF KeptTrue
    <3>6. Decision(k) = Decision(new)
      BY <3>2, <3>3, <3>5 DEF Decision, Result
    <3>7. Decision(new) \in DecidedOf
      BY <3>6, DecidedFacts
    <3>8. LogOf' = LogOf /\ ToldOf' = ToldOf /\ DecidedOf' = DecidedOf
      BY <1>2, <2>2, <3>7 DEF LogOf, ToldOf, Telling
    <3> QED BY <3>8, LogStutters
  <2> QED BY <2>3, <2>4
<1> QED BY <1>3, <1>4 DEF Receive

LEMMA ExecuteLogs == ASSUME IInv, Execute PROVE [Log!Next]_(Log!logVars)
<1> DEFINE q == call.request
           new(status) == [request |-> q, status |-> status, state |-> mem]
           receipt(status) == [request |-> q, status |-> status]
<1>1. TypeOK /\ Open /\ told' = told
  BY DEF IInv, Execute, Open, clients
<1>2. q \in Request /\ call.before \in Seq(Effect) /\ \A r \in receipts : Key(r.request) # Key(q)
  BY <1>1, CallFacts
<1>3. \A status : Decision(new(status)) = Decision(receipt(status))
  BY DEF Decision
<1>4. \A k \in kept : k \notin Kept(q) => Key(k.request) # Key(q)
  BY DEF Kept, Key
<1>5. RollBack => receipts' = receipts
  BY DEF RollBack
<1>6. Accept => receipts' = receipts \cup {receipt("accepted")}
  BY DEF Accept
<1>7. CASE RollBack /\ UNCHANGED <<stored, kept>>
  BY <1>1, <1>5, <1>7, SameLog
<1>8. CASE /\ \E k \in Kept(q) : k.request = q /\ k.state = mem /\ k.status = "accepted"
           /\ Accept
           /\ UNCHANGED <<stored, kept>>
  <2>1. PICK k \in Kept(q) : k.request = q /\ k.status = "accepted"
    BY <1>8
  <2>2. k \in kept /\ Decision(k) = Decision(receipt("accepted"))
    BY <2>1 DEF Kept, Decision
  <2>3. Decision(receipt("accepted")) \in DecidedOf
    BY <2>2, DecidedFacts
  <2>4. DecidedOf' = DecidedOf \cup {Decision(receipt("accepted"))}
    BY <1>6, <1>8 DEF DecidedOf, Decision
  <2>5. LogOf' = LogOf /\ ToldOf' = ToldOf /\ DecidedOf' = DecidedOf
    BY <1>1, <1>8, <2>3, <2>4 DEF LogOf, ToldOf, Telling
  <2> QED BY <2>5, LogStutters
<1>9. CASE Kept(q) = {} /\ kept' = kept \cup {new("rejected")} /\ RollBack /\ stored' = stored
  <2>1. Log!Undecided(Host, Key(q))
    BY <1>2, <1>4, <1>9, NotDecided
  <2>2. DecidedOf' = DecidedOf \cup {Decision(new("rejected"))}
    BY <1>5, <1>9 DEF DecidedOf, Decision
  <2> QED BY <1>1, <1>2, <1>3, <1>9, <2>1, <2>2, RejectLogs
<1>10. CASE /\ Kept(q) = {} /\ q.expected = Len(stored)
            /\ kept' = kept \cup {new("accepted")} /\ stored' = mem
            /\ Accept \/ RollBack
  <2> DEFINE decision == Decision(new("accepted"))
  <2>1. Log!Undecided(Host, Key(q))
    BY <1>2, <1>4, <1>10, NotDecided
  <2>2. DecidedOf' = DecidedOf \cup {decision}
    <3>1. CASE Accept
      <4> DEFINE row == new("accepted")
                 answer == receipt("accepted")
      <4>1. Decision(row) = Decision(answer)
        BY <1>3
      <4>2. receipts' = receipts \cup {answer} /\ kept' = kept \cup {row}
        BY <1>6, <1>10, <3>1
      <4>3. \A x : x \in DecidedOf' <=>
                     (\E r \in receipts' : x = Decision(r)) \/ (\E k \in kept' : x = Decision(k))
        BY DEF DecidedOf, Decision
      <4> HIDE DEF row, answer
      <4>4. \A x : x \in DecidedOf' <=> x \in DecidedOf \/ x = Decision(row)
        BY <4>1, <4>2, <4>3, DecidedFacts
      <4> QED BY <4>4 DEF row
    <3>2. CASE RollBack
      BY <1>5, <1>10, <3>2 DEF DecidedOf, Decision
    <3> QED BY <1>10, <3>1, <3>2
  <2>3. decision = [game |-> Host, key |-> Key(q), status |-> "accepted"]
    BY DEF Decision, Key
  <2>4. stored = call.before /\ mem \in Applied(q, call.before)
    BY <1>1, <1>10, StoredIsBase DEF IInv, CallTrue
  <2>5. Actions(stored)' = Append(Actions(stored), Key(q))
    BY <1>2, <1>10, <2>4, ActionsApplied
  <2>6. Log!Extends(Actions(stored), Actions(stored)', Key(q))
    <3> DEFINE w == Within(stored, ByPlayer)
               s == Actions(stored)
    <3>1. Len(w) \in Nat /\ s = [n \in 1..Len(w) |-> <<w[n].by, w[n].id>>]
      BY <1>2, <2>4, WithinFacts DEF Actions
    <3> HIDE DEF w, s
    <3>2. /\ Len(s) \in Nat /\ Len(Append(s, Key(q))) = Len(s) + 1
          /\ \A n \in 1..Len(s) : Append(s, Key(q))[n] = s[n]
          /\ Append(s, Key(q))[Len(s) + 1] = Key(q)
      BY <3>1
    <3>3. Log!Extends(s, Append(s, Key(q)), Key(q))
      BY <3>2 DEF Log!Extends
    <3> QED BY <2>5, <3>3 DEF s
  <2>7. LogOf[Host] = Actions(stored) /\ LogOf'[Host] = Actions(stored)' /\ ToldOf' = ToldOf
    BY <1>1 DEF LogOf, ToldOf, Telling
  <2>8. Log!Accept(Host, Key(q))
    BY <2>1, <2>2, <2>3, <2>6, <2>7 DEF Log!Accept, LogOf, DecidedOf, ToldOf, Telling
  <2>9. Key(q) \in Log!Keys
    BY <1>2 DEF Key, Request, Log!Keys
  <2> QED BY <2>8, <2>9 DEF Log!Next
<1> QED BY <1>7, <1>8, <1>9, <1>10 DEF Execute

\* The host with its two layers of receipts, its rollbacks and its retrying clients decides each
\* action once, adds an accepted one to the match in one step and tells its clients what was
\* decided: it implements CommandLog. (execute, _commit_durable_state, PostgresGameStore.execute)
THEOREM HostImplementsLog == Spec => ImplementsCommandLog
<1>1. Init => Log!Init
  BY NothingLogged
<1>2. ASSUME IInv, [Next]_vars PROVE [Log!Next]_(Log!logVars)
  <2>1. ASSUME NEW a \in answers, Take(a) PROVE [Log!Next]_(Log!logVars)
    BY <1>2, <2>1, TakeTells
  <2>2. ASSUME NEW q \in requests, Receive(q) PROVE [Log!Next]_(Log!logVars)
    BY <1>2, <2>2, ReceiveLogs
  <2>3. CASE Execute
    BY <1>2, <2>3, ExecuteLogs
  <2>4. ASSUME \/ \E p \in Players : Submit(p) \/ Refresh(p) \/ Send(p)
               \/ Lose \/ NextDeal \/ End \/ Expire \/ UNCHANGED vars
        PROVE  UNCHANGED <<stored, receipts, kept, told>>
    BY <2>4 DEF Submit, Refresh, Send, Lose, NextDeal, End, Expire, vars, server, store, clients
  <2>5. ASSUME Own \/ Deliver PROVE UNCHANGED <<stored, receipts, kept, told>>
    BY <2>5 DEF Own, Deliver, RollBack, store, clients
  <2> QED BY <1>2, <2>1, <2>2, <2>3, <2>4, <2>5, SameLog DEF Next
<1> QED BY <1>1, <1>2, Invariance, PTL DEF Spec, ImplementsCommandLog, Log!Spec
===============================================================================
