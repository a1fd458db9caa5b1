----------------------------- MODULE RpcProofs -----------------------------
(***************************************************************************)
(* Proofs about calls between services, for any number of services, calls, *)
(* posts, tasks and wake-ups.  The inductive invariant says where the      *)
(* executor of a service can stand (Control); how tasks, sessions and wake *)
(* signals belong together (TaskBooks, SessionBooks, Signals, Results);    *)
(* that whatever mentions a call means the same session (Book); that the   *)
(* first answer to a call is the one its caller will find (Firsts); that   *)
(* an unanswered request is with somebody (Pending); and in which order    *)
(* requests wait (Order).                                                  *)
(***************************************************************************)
EXTENDS Rpc, FiniteSetTheorems, SequenceTheorems, TLAPS

Kinds    == Requests \cup Answers \cup {"none"}
Messages == {m \in [kind : Kinds, from : Services \cup {Outside}, session : Nat, call : Nat,
                    seq : Nat] : m.kind = "call" => m.from \in Services}
Tasks    == [id : Nat, msg : Messages, owed : BOOLEAN, replied : BOOLEAN, wait : Nat]
Sessions == [session : Nat, result : Answers \cup {"none"}, call : Nat]
Tokens   == [from : Services, session : Nat, call : Nat]
Elems(q) == {q[i] : i \in DOMAIN q}
PollPC   == {"poll", "user", "push", "exit", "return"}
CleanPC  == {"fail", "refuse"}

LifeTyped ==
    /\ table \subseteq Services /\ dead \subseteq Services /\ destroyed \subseteq Services
    /\ selfExit \subseteq Services
    /\ life \in [Services -> {"INITIALIZING", "RUNNING", "FAILED"}]
BoxTyped ==
    /\ inbox \in [Services -> Seq(Messages)] /\ kept \in [Services -> Seq(Messages)]
    /\ ready \in [Services -> Seq(Nat)]
SetTyped ==
    /\ tasks \in [Services -> SUBSET Tasks] /\ slots \in [Services -> SUBSET Sessions]
    /\ signal \in [Services -> SUBSET Nat]
    /\ generation \in [Services -> Nat] /\ next \in [Services -> Nat]
ExecTyped ==
    /\ pc \in [Services -> PollPC \cup CleanPC \cup {"free"}] /\ run \in [Services -> Nat]
    /\ out \in [Services -> [to : Services \cup {Outside}, msg : Messages]]
    /\ tokens \subseteq Tokens /\ waking \subseteq Services \X Nat
CountTyped ==
    /\ calls \in Nat /\ others \in Nat /\ calls + others <= MaxEvents
    /\ first \in [1..MaxEvents -> Answers \cup {"none"}]
    /\ sent \in [Services -> Nat] /\ last \in [Services -> Nat]
Types == LifeTyped /\ BoxTyped /\ SetTyped /\ ExecTyped /\ CountTyped

(* A service is polled only while one of its tasks is in hand, and cleaned *)
(* only when it is dead; a destroyed one has nothing left but what has     *)
(* come since.                                                             *)
Control ==
    /\ dead \cap table = {} /\ destroyed \subseteq dead /\ selfExit \subseteq dead
    /\ \A s \in Services :
         /\ pc[s] \in PollPC <=> run[s] # 0
         /\ run[s] # 0 => \E k \in tasks[s] : k.id = run[s]
         /\ pc[s] \in CleanPC \cup {"exit"} => s \in dead
         /\ pc[s] = "push" => out[s].to \in Services /\ out[s].msg.kind \in Requests
         /\ pc[s] # "push" => out[s] = Nothing
         /\ pc[s] = "refuse" \/ s \in destroyed => tasks[s] = {}
         /\ s \in destroyed /\ pc[s] # "refuse" => kept[s] = <<>>

(* Tasks differ in their generation and in the session they wait for.      *)
TaskBooks ==
    \A s \in Services :
      /\ \A k \in tasks[s] : k.id \in 1..generation[s] /\ k.wait <= next[s]
      /\ \A k \in tasks[s] : k.owed => k.msg.kind = "call"
      /\ \A j, k \in tasks[s] : j.id = k.id => j = k
      /\ \A j, k \in tasks[s] : j.wait = k.wait /\ j.wait # 0 => j = k

SessionBooks == \A s \in Services : \A j, k \in slots[s] : j.session = k.session => j = k

(* A task has one entry in the ready queue, or one waker about to queue    *)
(* it, exactly while its signal is set.                                    *)
Entry(s, id) == id \in Elems(ready[s])
Once(q, x)   == \A i, j \in DOMAIN q : q[i] = x /\ q[j] = x => i = j
SignalsOf(s) ==
    /\ \A id \in Elems(ready[s]) : id \in 1..generation[s]
    /\ \A id \in signal[s] : id \in 1..generation[s]
    /\ \A id \in Nat : <<s, id>> \in waking => id \in 1..generation[s]
    /\ \A k \in tasks[s] :
         /\ Once(ready[s], k.id)
         /\ k.id \in signal[s] <=> (Entry(s, k.id) \/ <<s, k.id>> \in waking)
         /\ ~(Entry(s, k.id) /\ <<s, k.id>> \in waking)
Signals == \A s \in Services : SignalsOf(s)

Results ==
    \A s \in Services : \A k \in slots[s], j \in tasks[s] :
        k.result # "none" /\ j.wait = k.session
          => Entry(s, j.id) \/ <<s, j.id>> \in waking \/ run[s] = j.id

(* Wherever call c is mentioned, it is session n of service f, and no      *)
(* other call is.                                                          *)
AsksFor(m, f, n, c) == m.kind = "call" /\ m.from = f /\ m.session = n /\ m.call = c
Names(f, n, c) ==
    \/ \E k \in slots[f] : k.session = n /\ k.call = c
    \/ \E t \in tokens : t.from = f /\ t.session = n /\ t.call = c
    \/ \E m \in Elems(inbox[f]) : m.kind \in Answers /\ m.session = n /\ m.call = c
    \/ \E s \in Services :
         \/ AsksFor(out[s].msg, f, n, c)
         \/ \E m \in Elems(inbox[s]) \cup Elems(kept[s]) : AsksFor(m, f, n, c)
         \/ \E k \in tasks[s] : AsksFor(k.msg, f, n, c)
Book ==
    /\ \A f \in Services : \A n, c \in Nat : Names(f, n, c) => n \in 1..next[f] /\ c \in 1..calls
    /\ \A f, g \in Services : \A m, n, b, c \in Nat :
         Names(f, m, b) /\ Names(g, n, c) => (b = c <=> f = g /\ m = n)
    /\ \A s \in Services : out[s].msg.kind = "call" => out[s].msg.from = s

(* The first answer sent to a call is the first its caller finds, and it   *)
(* is there unless the caller has ended.                                   *)
AnswersTo(m, c) == m.kind \in Answers /\ m.call = c
Has(q, c)      == \E m \in Elems(q) : AnswersTo(m, c)
Leads(q, c, a) == \A i \in DOMAIN q :
    /\ AnswersTo(q[i], c)
    /\ \A j \in DOMAIN q : j < i => ~AnswersTo(q[j], c)
    => q[i].kind = a
FirstOf(s, k) ==
    /\ k.result \in {"none", first[k.call]}
    /\ k.result = "none" =>
         /\ s \in table /\ first[k.call] # "none" => Has(inbox[s], k.call)
         /\ Leads(inbox[s], k.call, first[k.call])
Firsts ==
    /\ \A c \in 1..MaxEvents : c > calls => first[c] = "none"
    /\ \A s \in Services : \A m \in Elems(inbox[s]) :
         m.kind \in Answers => first[m.call] # "none"
    /\ \A s \in Services : \A k \in slots[s] : FirstOf(s, k)

(* An unanswered request is with somebody, or was forgotten.               *)
With(d, c) == \/ \E m \in Elems(inbox[d]) \cup Elems(kept[d]) : m.kind = "call" /\ m.call = c
              \/ \E k \in tasks[d] : k.owed /\ k.msg.call = c
Cared(s, c) == \/ c \in forgotten
               \/ \E t \in tokens : t.call = c
               \/ out[s].msg.kind = "call" /\ out[s].msg.call = c
               \/ \E d \in Services : With(d, c)
Pending == \A s \in Services : \A k \in slots[s] : first[k.call] = "none" => Cared(s, k.call)

(* What waits was queued later than what was dispatched, and in order: the *)
(* requests kept during init before those in the inbox.                    *)
IsRequest(m)    == m.kind \in Requests
Within(q, a, b) == \A m \in Elems(q) : IsRequest(m) => a < m.seq /\ m.seq <= b
Before(p, q)    == \A m \in Elems(p), n \in Elems(q) : IsRequest(m) /\ IsRequest(n) => m.seq < n.seq
Rises(q)        == \A i, j \in DOMAIN q :
                     i < j /\ IsRequest(q[i]) /\ IsRequest(q[j]) => q[i].seq < q[j].seq
OrderOf(s) ==
    /\ last[s] <= sent[s]
    /\ \A m \in Elems(kept[s]) : IsRequest(m)
    /\ Within(kept[s], last[s], sent[s]) /\ Within(inbox[s], last[s], sent[s])
    /\ Rises(kept[s]) /\ Rises(inbox[s]) /\ Before(kept[s], inbox[s])
Order == \A s \in Services \ dead : OrderOf(s)

RpcInv == /\ Types /\ Control /\ TaskBooks /\ SessionBooks /\ Signals /\ Results
          /\ Book /\ Firsts /\ Pending /\ Order

-----------------------------------------------------------------------------
(* What Append, Tail and concatenation do to a queue.                      *)
LEMMA Appended ==
    ASSUME NEW S, NEW q \in Seq(S), NEW x \in S
    PROVE  /\ Append(q, x) \in Seq(S) /\ Len(q) \in Nat /\ DOMAIN q = 1..Len(q)
           /\ DOMAIN Append(q, x) = 1..(Len(q) + 1)
           /\ \A i \in 1..Len(q) : Append(q, x)[i] = q[i]
           /\ Append(q, x)[Len(q) + 1] = x
  <1>1. Len(q) \in Nat /\ DOMAIN q = 1..Len(q)
    BY LenProperties
  <1>2. QED
    BY <1>1, AppendProperties

(* Tail takes the first element away. *)
LEMMA Shortened ==
    ASSUME NEW S, NEW q \in Seq(S), q # <<>>
    PROVE  /\ Tail(q) \in Seq(S) /\ Head(q) \in S /\ Head(q) = q[1] /\ 1 \in DOMAIN q
           /\ Len(q) \in Nat \ {0} /\ DOMAIN q = 1..Len(q) /\ DOMAIN Tail(q) = 1..(Len(q) - 1)
           /\ \A i \in 1..(Len(q) - 1) : i + 1 \in DOMAIN q /\ Tail(q)[i] = q[i + 1]
  <1>1. Len(q) \in Nat \ {0} /\ DOMAIN q = 1..Len(q)
    BY LenProperties, EmptySeq
  <1>2. QED
    BY <1>1, HeadTailProperties, LenProperties

(* Two queues joined. *)
LEMMA Joined ==
    ASSUME NEW S, NEW p \in Seq(S), NEW q \in Seq(S)
    PROVE  /\ p \o q \in Seq(S) /\ DOMAIN p = 1..Len(p) /\ DOMAIN q = 1..Len(q)
           /\ Len(p) \in Nat /\ Len(q) \in Nat /\ DOMAIN (p \o q) = 1..(Len(p) + Len(q))
           /\ \A i \in 1..(Len(p) + Len(q)) : (p \o q)[i] = IF i <= Len(p) THEN p[i] ELSE q[i - Len(p)]
  <1>1. Len(p) \in Nat /\ DOMAIN p = 1..Len(p) /\ Len(q) \in Nat /\ DOMAIN q = 1..Len(q)
    BY LenProperties
  <1>2. QED
    BY <1>1, ConcatProperties, LenProperties

(* What is in a queue after these operations. *)
LEMMA AppendElems ==
    ASSUME NEW S, NEW q \in Seq(S), NEW x \in S
    PROVE  Elems(Append(q, x)) = Elems(q) \cup {x}
  <1> DEFINE r == Append(q, x)
  <1>1. /\ Len(q) \in Nat /\ DOMAIN q = 1..Len(q) /\ DOMAIN r = 1..(Len(q) + 1)
        /\ \A i \in 1..Len(q) : r[i] = q[i]
        /\ r[Len(q) + 1] = x
    BY Appended
  <1> HIDE DEF r
  <1>2. Elems(r) = Elems(q) \cup {x}
    BY <1>1 DEF Elems
  <1>3. QED
    BY <1>2 DEF r

(* The elements of a queue are its head and those of its tail. *)
LEMMA TailElems ==
    ASSUME NEW S, NEW q \in Seq(S), q # <<>>
    PROVE  Elems(q) = Elems(Tail(q)) \cup {Head(q)}
  <1> DEFINE r == Tail(q)
  <1>1. /\ Head(q) = q[1] /\ Len(q) \in Nat \ {0} /\ DOMAIN q = 1..Len(q)
        /\ DOMAIN r = 1..(Len(q) - 1)
        /\ \A i \in 1..(Len(q) - 1) : r[i] = q[i + 1]
    BY Shortened
  <1> HIDE DEF r
  <1>2. ASSUME NEW i \in 1..Len(q), q[i] # Head(q)
        PROVE  q[i] \in Elems(r)
    <2>1. i # 1 /\ i - 1 \in 1..(Len(q) - 1) /\ r[i - 1] = q[i]
      BY <1>1, <1>2
    <2>2. QED
      BY <1>1, <2>1 DEF Elems
  <1>3. Elems(r) \subseteq Elems(q) /\ Head(q) \in Elems(q)
    BY <1>1 DEF Elems
  <1>4. Elems(q) \subseteq Elems(r) \cup {Head(q)}
    BY <1>1, <1>2 DEF Elems
  <1>5. QED
    BY <1>3, <1>4 DEF r

(* Joining queues joins their elements. *)
LEMMA ConcatElems ==
    ASSUME NEW S, NEW p \in Seq(S), NEW q \in Seq(S)
    PROVE  Elems(p \o q) = Elems(p) \cup Elems(q)
  <1> DEFINE r == p \o q
  <1>1. /\ DOMAIN p = 1..Len(p) /\ DOMAIN q = 1..Len(q) /\ Len(p) \in Nat /\ Len(q) \in Nat
        /\ DOMAIN r = 1..(Len(p) + Len(q))
        /\ \A i \in 1..(Len(p) + Len(q)) : r[i] = IF i <= Len(p) THEN p[i] ELSE q[i - Len(p)]
    BY Joined
  <1> HIDE DEF r
  <1>2. ASSUME NEW i \in 1..(Len(p) + Len(q))
        PROVE  r[i] \in Elems(p) \cup Elems(q)
    <2>1. CASE i <= Len(p)
      BY <1>1, <2>1 DEF Elems
    <2>2. CASE ~(i <= Len(p))
      <3>1. i - Len(p) \in 1..Len(q) /\ q[i - Len(p)] = r[i]
        BY <1>1, <2>2
      <3>2. QED
        BY <1>1, <3>1 DEF Elems
    <2>3. QED
      BY <2>1, <2>2
  <1>3. Elems(p) \subseteq Elems(r)
    BY <1>1 DEF Elems
  <1>4. ASSUME NEW i \in 1..Len(q)
        PROVE  q[i] \in Elems(r)
    <2>1. i + Len(p) \in 1..(Len(p) + Len(q)) /\ ~(i + Len(p) <= Len(p))
          /\ (i + Len(p)) - Len(p) = i
      BY <1>1
    <2>2. r[i + Len(p)] = q[i]
      BY <1>1, <2>1
    <2>3. QED
      BY <1>1, <2>1, <2>2 DEF Elems
  <1>5. Elems(r) \subseteq Elems(p) \cup Elems(q)
    BY <1>1, <1>2 DEF Elems
  <1>6. Elems(q) \subseteq Elems(r)
    BY <1>1, <1>4 DEF Elems
  <1>7. QED
    BY <1>3, <1>5, <1>6 DEF r

(* An empty queue has no elements. *)
LEMMA NoElems == Elems(<<>>) = {}
  BY DEF Elems

(* Queues of messages and of task ids, with the types of the module. *)
LEMMA EmptyTyped == <<>> \in Seq(Messages) /\ <<>> \in Seq(Nat)
  OBVIOUS

-----------------------------------------------------------------------------
(* The task with a given generation, and the one being polled.             *)
LEMMA TaskIs ==
    ASSUME TaskBooks, NEW s \in Services, NEW id, \E k \in tasks[s] : k.id = id
    PROVE  /\ Task(s, id) \in tasks[s] /\ Task(s, id).id = id
           /\ \A k \in tasks[s] : k.id = id => k = Task(s, id)
  BY DEF TaskBooks, Task

(* The task in hand is a task of the service, and the only one with its id. *)
LEMMA CurrentIs ==
    ASSUME Types, Control, TaskBooks, NEW s \in Services, pc[s] \in PollPC
    PROVE  /\ Current(s) \in tasks[s] /\ Current(s).id = run[s] /\ Current(s) \in Tasks
           /\ run[s] \in Nat \ {0}
           /\ \A k \in tasks[s] : k.id = run[s] => k = Current(s)
  <1>1. run[s] # 0 /\ \E k \in tasks[s] : k.id = run[s]
    BY DEF Control
  <1>2. QED
    BY <1>1, TaskIs DEF Current, Types, SetTyped, ExecTyped

(* Update replaces one task. *)
LEMMA UpdateIs ==
    ASSUME Types, NEW s \in Services, NEW id, NEW k, tasks' = Update(s, id, k)
    PROVE  /\ tasks'[s] = {j \in tasks[s] : j.id # id} \cup {k}
           /\ \A u \in Services \ {s} : tasks'[u] = tasks[u]
           /\ k \in Tasks => tasks' \in [Services -> SUBSET Tasks]
  BY DEF Types, SetTyped, Update

(* The session with a given number. *)
LEMMA SlotIs ==
    ASSUME SessionBooks, NEW s \in Services, NEW n, HasSlot(s, n)
    PROVE  /\ TheSlot(s, n) \in slots[s] /\ TheSlot(s, n).session = n
           /\ \A k \in slots[s] : k.session = n => k = TheSlot(s, n)
  BY DEF SessionBooks, TheSlot, HasSlot, Slot

(* The message of tasks without one, and the empty hand of an executor. *)
LEMMA RecordsTyped ==
    NoMessage \in Messages /\ Nothing \in [to : Services \cup {Outside}, msg : Messages]
  BY DEF NoMessage, Nothing, Messages, Kinds, Requests, Answers

(* What a request names: a session of its sender. *)
Asked(m) == m.from \in Services /\ m.session \in Nat /\ m.call \in 1..calls
            /\ Names(m.from, m.session, m.call)

(* A request that waits, is worked on or is being sent names a call. *)
LEMMA AskedMessage ==
    ASSUME Types, Book, NEW s \in Services, NEW m \in Messages, m.kind = "call",
           \/ m \in Elems(inbox[s]) \cup Elems(kept[s])
           \/ \E k \in tasks[s] : k.msg = m
           \/ m = out[s].msg
    PROVE  Asked(m)
  <1>1. m.from \in Services /\ m.session \in Nat /\ m.call \in Nat
    BY DEF Messages
  <1>2. Names(m.from, m.session, m.call)
    BY <1>1 DEF Names, AsksFor
  <1>3. QED
    BY <1>1, <1>2 DEF Book, Asked

(* So does a token. *)
LEMMA AskedToken ==
    ASSUME Types, Book, NEW t \in tokens
    PROVE  Asked(t) /\ t \in Tokens
  <1>1. t \in Tokens /\ t.from \in Services /\ t.session \in Nat /\ t.call \in Nat
    BY DEF Types, ExecTyped, Tokens
  <1>2. Names(t.from, t.session, t.call)
    BY <1>1 DEF Names
  <1>3. QED
    BY <1>1, <1>2 DEF Book, Asked

(* Sending an answer. *)
LEMMA Replies ==
    ASSUME Types, NEW kind \in Answers, NEW m, Asked(m), SendReply(kind, m)
    PROVE  /\ Reply(kind, m) \in Messages /\ Reply(kind, m).kind = kind
           /\ Reply(kind, m).session = m.session /\ Reply(kind, m).call = m.call
           /\ inbox' = IF m.from \in table
                         THEN [inbox EXCEPT ![m.from] = Append(@, Reply(kind, m))] ELSE inbox
           /\ inbox' \in [Services -> Seq(Messages)]
           /\ \A u \in Services : u # m.from \/ u \notin table => inbox'[u] = inbox[u]
           /\ m.from \in table => inbox'[m.from] = Append(inbox[m.from], Reply(kind, m))
           /\ m.from \in table =>
                Elems(inbox'[m.from]) = Elems(inbox[m.from]) \cup {Reply(kind, m)}
           /\ first' \in [1..MaxEvents -> Answers \cup {"none"}]
           /\ \A c \in 1..MaxEvents :
                first'[c] = IF c = m.call /\ first[c] = "none" THEN kind ELSE first[c]
  <1> DEFINE a == Reply(kind, m)
  <1>1. a \in Messages /\ a.kind = kind /\ a.session = m.session /\ a.call = m.call
    BY RpcAssumption DEF Reply, Messages, Kinds, Answers, Asked, Types, CountTyped
  <1>2. m.from \in Services /\ m.call \in 1..MaxEvents
    BY RpcAssumption DEF Asked, Types, CountTyped
  <1>3. inbox' = IF m.from \in table THEN [inbox EXCEPT ![m.from] = Append(@, a)] ELSE inbox
    BY DEF SendReply, Deliver
  <1> HIDE DEF a
  <1>4. inbox[m.from] \in Seq(Messages)
    BY <1>2 DEF Types, BoxTyped
  <1>5. Append(inbox[m.from], a) \in Seq(Messages)
    BY <1>1, <1>4, Appended
  <1>6. Elems(Append(inbox[m.from], a)) = Elems(inbox[m.from]) \cup {a}
    BY <1>1, <1>4, AppendElems
  <1>7. /\ inbox' \in [Services -> Seq(Messages)]
        /\ \A u \in Services : u # m.from \/ u \notin table => inbox'[u] = inbox[u]
        /\ m.from \in table => inbox'[m.from] = Append(inbox[m.from], a)
    BY <1>2, <1>3, <1>5 DEF Types, BoxTyped
  <1>8. /\ first' \in [1..MaxEvents -> Answers \cup {"none"}]
        /\ \A c \in 1..MaxEvents :
             first'[c] = IF c = m.call /\ first[c] = "none" THEN kind ELSE first[c]
    BY <1>2 DEF SendReply, Answered, Types, CountTyped
  <1>9. QED
    BY <1>1, <1>3, <1>6, <1>7, <1>8 DEF a

-----------------------------------------------------------------------------

(* Every step keeps the types: of the flags of services, *)
LEMMA LifeStep ==
    ASSUME Types, Control, TaskBooks, SessionBooks, Book, [Next]_vars
    PROVE  LifeTyped'
  <1>1. ASSUME NEW s \in Services, ForeignWake(s) PROVE LifeTyped'
    <2>1. UNCHANGED <<dead, destroyed, life, selfExit, table>>
      BY <1>1 DEF ForeignWake, OtherEvent, lives, boxes, sets, execs, count, hist
    <2>2. QED
      BY <2>1 DEF LifeTyped, Types
  <1>2. ASSUME NEW s \in Services, ForeignPush(s) PROVE LifeTyped'
    <2>1. UNCHANGED <<dead, destroyed, life, selfExit, table>>
      BY <1>2 DEF ForeignPush, lives, boxes, sets, execs, count, hist
    <2>2. QED
      BY <2>1 DEF LifeTyped, Types
  <1>3. ASSUME NEW t \in tokens, NEW kind \in Answers, ExternalReply(t, kind) PROVE LifeTyped'
    <2>1. UNCHANGED <<dead, destroyed, life, selfExit, table>>
      BY <1>3 DEF ExternalReply, lives, boxes, sets, execs, count, hist
    <2>2. QED
      BY <2>1 DEF LifeTyped, Types
  <1>4. ASSUME NEW s \in Services, Kill(s) PROVE LifeTyped'
    BY <1>4 DEF Kill, LifeTyped, Types, Retired, lives
  <1>5. ASSUME NEW s \in Services, MarkDead(s) PROVE LifeTyped'
    BY <1>5 DEF MarkDead, LifeTyped, Types, Retired, lives
  <1>6. ASSUME NEW s \in Services, TakeMessage(s) PROVE LifeTyped'
    <2>1. UNCHANGED <<dead, destroyed, life, selfExit, table>>
      BY <1>6 DEF TakeMessage, lives, boxes, sets, execs, count, hist
    <2>2. QED
      BY <2>1 DEF LifeTyped, Types
  <1>7. ASSUME NEW s \in Services, TakePending(s) PROVE LifeTyped'
    <2>1. UNCHANGED <<dead, destroyed, life, selfExit, table>>
      BY <1>7 DEF TakePending, lives, boxes, sets, execs, count, hist
    <2>2. QED
      BY <2>1 DEF LifeTyped, Types
  <1>8. ASSUME NEW s \in Services, TakeReady(s) PROVE LifeTyped'
    <2>1. UNCHANGED <<dead, destroyed, life, selfExit, table>>
      BY <1>8 DEF TakeReady, lives, boxes, sets, execs, count, hist
    <2>2. QED
      BY <2>1 DEF LifeTyped, Types
  <1>9. ASSUME NEW s \in Services, PollCall(s) PROVE LifeTyped'
    <2>1. UNCHANGED <<dead, destroyed, life, selfExit, table>>
      BY <1>9 DEF PollCall, lives, boxes, sets, execs, count, hist
    <2>2. QED
      BY <2>1 DEF LifeTyped, Types
  <1>10. ASSUME NEW s \in Services, Abandon(s) PROVE LifeTyped'
    <2>1. UNCHANGED <<dead, destroyed, life, selfExit, table>>
      BY <1>10 DEF Abandon, lives, boxes, sets, execs, count, hist
    <2>2. QED
      BY <2>1 DEF LifeTyped, Types
  <1>11. ASSUME NEW s \in Services, NEW d \in Services, Call(s, d) PROVE LifeTyped'
    <2>1. UNCHANGED <<dead, destroyed, life, selfExit, table>>
      BY <1>11 DEF Call, NewCall, lives, boxes, sets, execs, count, hist
    <2>2. QED
      BY <2>1 DEF LifeTyped, Types
  <1>12. ASSUME NEW s \in Services, NEW d \in Services, Post(s, d) PROVE LifeTyped'
    <2>1. UNCHANGED <<dead, destroyed, life, selfExit, table>>
      BY <1>12 DEF Post, OtherEvent, lives, boxes, sets, execs, count, hist
    <2>2. QED
      BY <2>1 DEF LifeTyped, Types
  <1>13. ASSUME NEW s \in Services, Push(s) PROVE LifeTyped'
    <2>1. UNCHANGED <<dead, destroyed, life, selfExit, table>>
      BY <1>13 DEF Push, lives, boxes, sets, execs, count, hist
    <2>2. QED
      BY <2>1 DEF LifeTyped, Types
  <1>14. ASSUME NEW s \in Services, CallExternal(s) PROVE LifeTyped'
    <2>1. UNCHANGED <<dead, destroyed, life, selfExit, table>>
      BY <1>14 DEF CallExternal, NewCall, lives, boxes, sets, execs, count, hist
    <2>2. QED
      BY <2>1 DEF LifeTyped, Types
  <1>15. ASSUME NEW s \in Services, NEW kind \in Answers, UserReply(s, kind) PROVE LifeTyped'
    <2>1. UNCHANGED <<dead, destroyed, life, selfExit, table>>
      BY <1>15 DEF UserReply, lives, boxes, sets, execs, count, hist
    <2>2. QED
      BY <2>1 DEF LifeTyped, Types
  <1>16. ASSUME NEW s \in Services, Spawn(s) PROVE LifeTyped'
    <2>1. UNCHANGED <<dead, destroyed, life, selfExit, table>>
      BY <1>16 DEF Spawn, OtherEvent, lives, boxes, sets, execs, count, hist
    <2>2. QED
      BY <2>1 DEF LifeTyped, Types
  <1>17. ASSUME NEW s \in Services, Exit(s) PROVE LifeTyped'
    BY <1>17 DEF Exit, LifeTyped, Types, Retired, lives
  <1>18. ASSUME NEW s \in Services, FailOne(s) PROVE LifeTyped'
    <2>1. UNCHANGED <<dead, destroyed, life, selfExit, table>>
      BY <1>18 DEF FailOne, lives, boxes, sets, execs, count, hist
    <2>2. QED
      BY <2>1 DEF LifeTyped, Types
  <1>19. ASSUME NEW s \in Services, ExitFails(s), ~FailOne(s) PROVE LifeTyped'
    <2>1. UNCHANGED <<dead, destroyed, life, selfExit, table>>
      BY <1>19 DEF ExitFails, lives, boxes, sets, execs, count, hist
    <2>2. QED
      BY <2>1 DEF LifeTyped, Types
  <1>20. ASSUME NEW s \in Services, InitFails(s) PROVE LifeTyped'
    BY <1>20 DEF InitFails, LifeTyped, Types, Retired, lives
  <1>21. ASSUME NEW s \in Services, Return(s) PROVE LifeTyped'
    BY <1>21 DEF Return, LifeTyped, Types, Retired, lives
  <1>22. ASSUME NEW s \in Services, Cleanup(s) PROVE LifeTyped'
    <2>1. UNCHANGED <<dead, destroyed, life, selfExit, table>>
      BY <1>22 DEF Cleanup, lives, boxes, sets, execs, count, hist
    <2>2. QED
      BY <2>1 DEF LifeTyped, Types
  <1>23. ASSUME NEW s \in Services, CleanDrops(s) PROVE LifeTyped'
    <2>1. UNCHANGED <<dead, destroyed, life, selfExit, table>>
      BY <1>23 DEF CleanDrops, DropAll, lives, boxes, sets, execs, count, hist
    <2>2. QED
      BY <2>1 DEF LifeTyped, Types
  <1>24. ASSUME NEW s \in Services, CleanRefuses(s) PROVE LifeTyped'
    <2>1. UNCHANGED <<dead, destroyed, life, selfExit, table>>
      BY <1>24 DEF CleanRefuses, lives, boxes, sets, execs, count, hist
    <2>2. QED
      BY <2>1 DEF LifeTyped, Types
  <1>25. ASSUME NEW s \in Services, CleanReleases(s) PROVE LifeTyped'
    BY <1>25 DEF CleanReleases, LifeTyped, Types, Retired, lives
  <1>26. ASSUME UNCHANGED vars PROVE LifeTyped'
    <2>1. UNCHANGED <<dead, destroyed, life, selfExit, table>>
      BY <1>26 DEF vars, lives, boxes, sets, execs, count, hist
    <2>2. QED
      BY <2>1 DEF LifeTyped, Types
  <1>27. QED
    BY <1>1, <1>2, <1>3, <1>4, <1>5, <1>6, <1>7, <1>8, <1>9, <1>10, <1>11, <1>12, <1>13,
       <1>14, <1>15, <1>16, <1>17, <1>18, <1>19, <1>20, <1>21, <1>22, <1>23, <1>24, <1>25,
       <1>26
    DEF Next, Environment, Execute, User, CleanFails, ExitFails

(* of the queues, *)
LEMMA BoxStep ==
    ASSUME Types, Control, TaskBooks, SessionBooks, Book, [Next]_vars
    PROVE  BoxTyped'
  <1>1. ASSUME NEW s \in Services, ForeignWake(s) PROVE BoxTyped'
    <2>1. UNCHANGED <<inbox, kept, ready>>
      BY <1>1 DEF ForeignWake, OtherEvent, lives, boxes, sets, execs, count, hist
    <2>2. QED
      BY <2>1 DEF BoxTyped, Types
  <1>2. ASSUME NEW s \in Services, ForeignPush(s) PROVE BoxTyped'
    <2>1. ready[s] \in Seq(Nat) /\ inbox[s] \in Seq(Messages) /\ kept[s] \in Seq(Messages)
          /\ generation[s] \in Nat
      BY DEF Types, BoxTyped, SetTyped
    <2>2. PICK id \in 1..generation[s] : ready' = [ready EXCEPT ![s] = Append(@, id)]
      BY <1>2 DEF ForeignPush
    <2>3. Append(ready[s], id) \in Seq(Nat)
      BY <2>1, Appended
    <2>4. UNCHANGED <<inbox, kept>>
      BY <1>2 DEF ForeignPush
    <2>5. QED
      BY <2>2, <2>3, <2>4 DEF BoxTyped, Types
  <1>3. ASSUME NEW t \in tokens, NEW kind \in Answers, ExternalReply(t, kind) PROVE BoxTyped'
    <2>1. Asked(t)
      BY AskedToken
    <2>2. SendReply(kind, t) /\ UNCHANGED <<ready, kept>>
      BY <1>3 DEF ExternalReply
    <2>3. QED
      BY <2>1, <2>2, Replies DEF BoxTyped, Types
  <1>4. ASSUME NEW s \in Services, Kill(s) PROVE BoxTyped'
    <2>1. UNCHANGED <<inbox, kept, ready>>
      BY <1>4 DEF Kill, lives, boxes, sets, execs, count, hist
    <2>2. QED
      BY <2>1 DEF BoxTyped, Types
  <1>5. ASSUME NEW s \in Services, MarkDead(s) PROVE BoxTyped'
    <2>1. UNCHANGED <<inbox, kept, ready>>
      BY <1>5 DEF MarkDead, lives, boxes, sets, execs, count, hist
    <2>2. QED
      BY <2>1 DEF BoxTyped, Types
  <1>6. ASSUME NEW s \in Services, TakeMessage(s) PROVE BoxTyped'
    <2>1. ready[s] \in Seq(Nat) /\ inbox[s] \in Seq(Messages) /\ kept[s] \in Seq(Messages)
          /\ generation[s] \in Nat
      BY DEF Types, BoxTyped, SetTyped
    <2>2. inbox[s] # <<>> /\ inbox' = [inbox EXCEPT ![s] = Tail(@)]
      BY <1>6 DEF TakeMessage
    <2>3. Tail(inbox[s]) \in Seq(Messages) /\ Head(inbox[s]) \in Messages
      BY <2>1, <2>2, Shortened
    <2>4. inbox' \in [Services -> Seq(Messages)]
      BY <2>2, <2>3 DEF BoxTyped, Types
    <2>5. kept' = kept \/ kept' = [kept EXCEPT ![s] = Append(@, Head(inbox[s]))]
      BY <1>6 DEF TakeMessage
    <2>6. kept' \in [Services -> Seq(Messages)]
      <3>1. Append(kept[s], Head(inbox[s])) \in Seq(Messages)
        BY <2>1, <2>3, Appended
      <3>2. QED
        BY <2>5, <3>1 DEF BoxTyped, Types
    <2>7. ready' = ready \/ \E id \in Nat : ready' = [ready EXCEPT ![s] = Append(@, id)]
      <3>1. CASE UNCHANGED ready
        BY <3>1
      <3>2. CASE Complete(s, Head(inbox[s]))
        BY <3>2 DEF Complete, Settle, WakeTask, Types, SetTyped, Tasks
      <3>3. CASE Dispatch(s, Head(inbox[s]))
        <4>1. ready' = [ready EXCEPT ![s] = Append(@, generation[s] + 1)]
          BY <3>3 DEF Dispatch, InstallTask
        <4>2. generation[s] + 1 \in Nat
          BY <2>1
        <4>3. QED
          BY <4>1, <4>2, Zenon
      <3>4. QED
        BY <1>6, <3>1, <3>2, <3>3 DEF TakeMessage
    <2>8. ready' \in [Services -> Seq(Nat)]
      <3>1. \A id \in Nat : Append(ready[s], id) \in Seq(Nat)
        BY <2>1, Appended
      <3>2. QED
        BY <2>7, <3>1 DEF BoxTyped, Types
    <2>9. QED
      BY <2>4, <2>6, <2>8 DEF BoxTyped
  <1>7. ASSUME NEW s \in Services, TakePending(s) PROVE BoxTyped'
    <2>1. ready[s] \in Seq(Nat) /\ inbox[s] \in Seq(Messages) /\ kept[s] \in Seq(Messages)
          /\ generation[s] \in Nat
      BY DEF Types, BoxTyped, SetTyped
    <2>2. kept[s] # <<>> /\ kept' = [kept EXCEPT ![s] = Tail(@)] /\ UNCHANGED inbox
      BY <1>7 DEF TakePending, KeptFirst
    <2>3. Tail(kept[s]) \in Seq(Messages)
      BY <2>1, <2>2, Shortened
    <2>4. ready' = [ready EXCEPT ![s] = Append(@, generation[s] + 1)]
      BY <1>7 DEF TakePending, Dispatch, InstallTask
    <2>5. Append(ready[s], generation[s] + 1) \in Seq(Nat)
      BY <2>1, Appended
    <2>6. QED
      BY <2>2, <2>3, <2>4, <2>5 DEF BoxTyped, Types
  <1>8. ASSUME NEW s \in Services, TakeReady(s) PROVE BoxTyped'
    <2>1. ready[s] \in Seq(Nat) /\ inbox[s] \in Seq(Messages) /\ kept[s] \in Seq(Messages)
          /\ generation[s] \in Nat
      BY DEF Types, BoxTyped, SetTyped
    <2>2. ready[s] # <<>> /\ ready' = [ready EXCEPT ![s] = Tail(@)] /\ UNCHANGED <<inbox, kept>>
      BY <1>8 DEF TakeReady
    <2>3. Tail(ready[s]) \in Seq(Nat)
      BY <2>1, <2>2, Shortened
    <2>4. QED
      BY <2>2, <2>3 DEF BoxTyped, Types
  <1>9. ASSUME NEW s \in Services, PollCall(s) PROVE BoxTyped'
    <2>1. UNCHANGED <<inbox, kept, ready>>
      BY <1>9 DEF PollCall, lives, boxes, sets, execs, count, hist
    <2>2. QED
      BY <2>1 DEF BoxTyped, Types
  <1>10. ASSUME NEW s \in Services, Abandon(s) PROVE BoxTyped'
    <2>1. UNCHANGED <<inbox, kept, ready>>
      BY <1>10 DEF Abandon, lives, boxes, sets, execs, count, hist
    <2>2. QED
      BY <2>1 DEF BoxTyped, Types
  <1>11. ASSUME NEW s \in Services, NEW d \in Services, Call(s, d) PROVE BoxTyped'
    <2>1. UNCHANGED <<inbox, kept, ready>>
      BY <1>11 DEF Call, NewCall, lives, boxes, sets, execs, count, hist
    <2>2. QED
      BY <2>1 DEF BoxTyped, Types
  <1>12. ASSUME NEW s \in Services, NEW d \in Services, Post(s, d) PROVE BoxTyped'
    <2>1. UNCHANGED <<inbox, kept, ready>>
      BY <1>12 DEF Post, OtherEvent, lives, boxes, sets, execs, count, hist
    <2>2. QED
      BY <2>1 DEF BoxTyped, Types
  <1>13. ASSUME NEW s \in Services, Push(s) PROVE BoxTyped'
    <2>1. ready[s] \in Seq(Nat) /\ inbox[s] \in Seq(Messages) /\ kept[s] \in Seq(Messages)
          /\ generation[s] \in Nat
      BY DEF Types, BoxTyped, SetTyped
    <2>2. pc[s] = "push" /\ out[s].to \in Services
      BY <1>13 DEF Push, Goto, Control
    <2>3. inbox' = [inbox EXCEPT ![out[s].to] =
                      Append(@, [out[s].msg EXCEPT !.seq = sent[out[s].to] + 1])]
          /\ UNCHANGED <<ready, kept>>
      BY <1>13 DEF Push
    <2>4. [out[s].msg EXCEPT !.seq = sent[out[s].to] + 1] \in Messages
      <3>1. out[s].msg \in Messages /\ sent[out[s].to] + 1 \in Nat
        BY <2>2 DEF Types, ExecTyped, CountTyped
      <3>2. QED
        BY <3>1 DEF Messages
    <2>5. inbox[out[s].to] \in Seq(Messages)
      BY <2>2 DEF BoxTyped, Types
    <2>6. Append(inbox[out[s].to], [out[s].msg EXCEPT !.seq = sent[out[s].to] + 1]) \in Seq(Messages)
      BY <2>4, <2>5, Appended
    <2>7. QED
      BY <2>2, <2>3, <2>6 DEF BoxTyped, Types
  <1>14. ASSUME NEW s \in Services, CallExternal(s) PROVE BoxTyped'
    <2>1. UNCHANGED <<inbox, kept, ready>>
      BY <1>14 DEF CallExternal, NewCall, lives, boxes, sets, execs, count, hist
    <2>2. QED
      BY <2>1 DEF BoxTyped, Types
  <1>15. ASSUME NEW s \in Services, NEW kind \in Answers, UserReply(s, kind) PROVE BoxTyped'
    <2>1. pc[s] = "user" /\ Current(s).msg.kind = "call" /\ SendReply(kind, Current(s).msg)
          /\ UNCHANGED <<ready, kept>>
      BY <1>15 DEF UserReply
    <2>2. Current(s) \in tasks[s] /\ Current(s).msg \in Messages
      BY <2>1, CurrentIs DEF PollPC, Tasks
    <2>3. Asked(Current(s).msg)
      BY <2>1, <2>2, AskedMessage
    <2>4. QED
      BY <2>1, <2>3, Replies DEF BoxTyped, Types
  <1>16. ASSUME NEW s \in Services, Spawn(s) PROVE BoxTyped'
    <2>1. ready[s] \in Seq(Nat) /\ inbox[s] \in Seq(Messages) /\ kept[s] \in Seq(Messages)
          /\ generation[s] \in Nat
      BY DEF Types, BoxTyped, SetTyped
    <2>2. ready' = [ready EXCEPT ![s] = Append(@, generation[s] + 1)] /\ UNCHANGED <<inbox, kept>>
      BY <1>16 DEF Spawn, InstallTask
    <2>3. Append(ready[s], generation[s] + 1) \in Seq(Nat)
      BY <2>1, Appended
    <2>4. QED
      BY <2>2, <2>3 DEF BoxTyped, Types
  <1>17. ASSUME NEW s \in Services, Exit(s) PROVE BoxTyped'
    <2>1. UNCHANGED <<inbox, kept, ready>>
      BY <1>17 DEF Exit, lives, boxes, sets, execs, count, hist
    <2>2. QED
      BY <2>1 DEF BoxTyped, Types
  <1>18. ASSUME NEW s \in Services, FailOne(s) PROVE BoxTyped'
    <2>1. PICK k \in tasks[s] : k.owed /\ SendReply("ERROR", k.msg)
                                 /\ tasks' = Update(s, k.id, [k EXCEPT !.owed = FALSE])
      BY <1>18 DEF FailOne
    <2>2. k \in Tasks /\ k.msg \in Messages /\ k.msg.kind = "call" /\ "ERROR" \in Answers
      BY <2>1 DEF Types, SetTyped, Tasks, TaskBooks, Answers
    <2>3. Asked(k.msg)
      BY <2>1, <2>2, AskedMessage
    <2>4. UNCHANGED <<ready, kept>>
      BY <1>18 DEF FailOne
    <2>5. QED
      BY <2>1, <2>2, <2>3, <2>4, Replies DEF BoxTyped, Types
  <1>19. ASSUME NEW s \in Services, ExitFails(s), ~FailOne(s) PROVE BoxTyped'
    <2>1. UNCHANGED <<inbox, kept, ready>>
      BY <1>19 DEF ExitFails, lives, boxes, sets, execs, count, hist
    <2>2. QED
      BY <2>1 DEF BoxTyped, Types
  <1>20. ASSUME NEW s \in Services, InitFails(s) PROVE BoxTyped'
    <2>1. UNCHANGED <<inbox, kept, ready>>
      BY <1>20 DEF InitFails, lives, boxes, sets, execs, count, hist
    <2>2. QED
      BY <2>1 DEF BoxTyped, Types
  <1>21. ASSUME NEW s \in Services, Return(s) PROVE BoxTyped'
    <2>1. UNCHANGED <<inbox, kept, ready>>
      BY <1>21 DEF Return, lives, boxes, sets, execs, count, hist
    <2>2. QED
      BY <2>1 DEF BoxTyped, Types
  <1>22. ASSUME NEW s \in Services, Cleanup(s) PROVE BoxTyped'
    <2>1. UNCHANGED <<inbox, kept, ready>>
      BY <1>22 DEF Cleanup, lives, boxes, sets, execs, count, hist
    <2>2. QED
      BY <2>1 DEF BoxTyped, Types
  <1>23. ASSUME NEW s \in Services, CleanDrops(s) PROVE BoxTyped'
    <2>1. ready[s] \in Seq(Nat) /\ inbox[s] \in Seq(Messages) /\ kept[s] \in Seq(Messages)
          /\ generation[s] \in Nat
      BY DEF Types, BoxTyped, SetTyped
    <2>2. inbox[s] \o kept[s] \in Seq(Messages)
      BY <2>1, Joined
    <2>3. QED
      BY <1>23, <2>2, EmptyTyped DEF CleanDrops, DropAll, BoxTyped, Types
  <1>24. ASSUME NEW s \in Services, CleanRefuses(s) PROVE BoxTyped'
    <2>1. ready[s] \in Seq(Nat) /\ inbox[s] \in Seq(Messages) /\ kept[s] \in Seq(Messages)
          /\ generation[s] \in Nat
      BY DEF Types, BoxTyped, SetTyped
    <2>2. kept[s] # <<>> /\ kept' = [kept EXCEPT ![s] = Tail(@)]
      BY <1>24 DEF CleanRefuses
    <2>3. /\ Tail(kept[s]) \in Seq(Messages) /\ Head(kept[s]) \in Messages
          /\ Elems(kept[s]) = Elems(Tail(kept[s])) \cup {Head(kept[s])}
      BY <2>1, <2>2, Shortened, TailElems
    <2>4. CASE Head(kept[s]).kind = "call"
      <3>1. SendReply("ERROR", Head(kept[s])) /\ "ERROR" \in Answers
        BY <1>24, <2>4 DEF CleanRefuses, Answers
      <3>2. Asked(Head(kept[s]))
        BY <2>3, <2>4, AskedMessage
      <3>3. UNCHANGED ready
        BY <1>24 DEF CleanRefuses
      <3>4. inbox' \in [Services -> Seq(Messages)]
        BY <3>1, <3>2, Replies
      <3>5. QED
        BY <2>2, <2>3, <3>3, <3>4 DEF BoxTyped, Types
    <2>5. CASE Head(kept[s]).kind # "call"
      BY <1>24, <2>2, <2>3, <2>5 DEF CleanRefuses, BoxTyped, Types
    <2>6. QED
      BY <2>4, <2>5
  <1>25. ASSUME NEW s \in Services, CleanReleases(s) PROVE BoxTyped'
    <2>1. UNCHANGED <<inbox, kept, ready>>
      BY <1>25 DEF CleanReleases, lives, boxes, sets, execs, count, hist
    <2>2. QED
      BY <2>1 DEF BoxTyped, Types
  <1>26. ASSUME UNCHANGED vars PROVE BoxTyped'
    <2>1. UNCHANGED <<inbox, kept, ready>>
      BY <1>26 DEF vars, lives, boxes, sets, execs, count, hist
    <2>2. QED
      BY <2>1 DEF BoxTyped, Types
  <1>27. QED
    BY <1>1, <1>2, <1>3, <1>4, <1>5, <1>6, <1>7, <1>8, <1>9, <1>10, <1>11, <1>12, <1>13,
       <1>14, <1>15, <1>16, <1>17, <1>18, <1>19, <1>20, <1>21, <1>22, <1>23, <1>24, <1>25,
       <1>26
    DEF Next, Environment, Execute, User, CleanFails, ExitFails

(* of the sets of tasks and sessions, *)
LEMMA SetStep ==
    ASSUME Types, Control, TaskBooks, SessionBooks, Book, [Next]_vars
    PROVE  SetTyped'
  <1>1. ASSUME NEW s \in Services, ForeignWake(s) PROVE SetTyped'
    <2>1. PICK id \in 1..generation[s] : signal' = [signal EXCEPT ![s] = @ \cup {id}]
      BY <1>1 DEF ForeignWake
    <2>2. id \in Nat
      BY <2>1 DEF Types, SetTyped
    <2>3. UNCHANGED <<tasks, generation, slots, next>>
      BY <1>1 DEF ForeignWake
    <2>4. QED
      BY <2>1, <2>2, <2>3 DEF SetTyped, Types
  <1>2. ASSUME NEW s \in Services, ForeignPush(s) PROVE SetTyped'
    <2>1. UNCHANGED <<generation, next, signal, slots, tasks>>
      BY <1>2 DEF ForeignPush, lives, boxes, sets, execs, count, hist
    <2>2. QED
      BY <2>1 DEF SetTyped, Types
  <1>3. ASSUME NEW t \in tokens, NEW kind \in Answers, ExternalReply(t, kind) PROVE SetTyped'
    <2>1. UNCHANGED <<generation, next, signal, slots, tasks>>
      BY <1>3 DEF ExternalReply, lives, boxes, sets, execs, count, hist
    <2>2. QED
      BY <2>1 DEF SetTyped, Types
  <1>4. ASSUME NEW s \in Services, Kill(s) PROVE SetTyped'
    <2>1. UNCHANGED <<generation, next, signal, slots, tasks>>
      BY <1>4 DEF Kill, lives, boxes, sets, execs, count, hist
    <2>2. QED
      BY <2>1 DEF SetTyped, Types
  <1>5. ASSUME NEW s \in Services, MarkDead(s) PROVE SetTyped'
    <2>1. UNCHANGED <<generation, next, signal, slots, tasks>>
      BY <1>5 DEF MarkDead, lives, boxes, sets, execs, count, hist
    <2>2. QED
      BY <2>1 DEF SetTyped, Types
  <1>6. ASSUME NEW s \in Services, TakeMessage(s) PROVE SetTyped'
    <2> DEFINE m == Head(inbox[s])
    <2>1. m \in Messages
      <3>1. inbox[s] \in Seq(Messages) /\ inbox[s] # <<>>
        BY <1>6 DEF Types, BoxTyped, TakeMessage
      <3>2. QED
        BY <3>1, Shortened
    <2>2. UNCHANGED next
      BY <1>6 DEF TakeMessage
    <2>3. CASE Complete(s, m) /\ m.kind \in Answers /\ UNCHANGED <<tasks, generation>>
      <3>1. slots' \in [Services -> SUBSET Sessions]
        <4>1. CASE UNCHANGED slots
          BY <4>1 DEF Types, SetTyped
        <4>2. CASE Settle(s, m)
          <5>1. \A k \in slots[s] : [k EXCEPT !.result = m.kind] \in Sessions
            BY <2>3 DEF Types, SetTyped, Sessions
          <5>2. QED
            BY <4>2, <5>1 DEF Settle, Slot, Types, SetTyped
        <4>3. QED
          BY <2>3, <4>1, <4>2 DEF Complete
      <3>2. signal' \in [Services -> SUBSET Nat]
        <4>1. signal' = signal \/ \E k \in tasks[s] : signal' = [signal EXCEPT ![s] = @ \cup {k.id}]
          BY <2>3 DEF Complete, Settle, WakeTask
        <4>2. \A k \in tasks[s] : k.id \in Nat
          BY DEF Types, SetTyped, Tasks
        <4>3. QED
          BY <4>1, <4>2 DEF Types, SetTyped
      <3>3. QED
        BY <2>2, <2>3, <3>1, <3>2 DEF Types, SetTyped
    <2>4. CASE UNCHANGED <<tasks, signal, generation, slots>>
      BY <2>2, <2>4 DEF Types, SetTyped
    <2>5. CASE Dispatch(s, m) /\ UNCHANGED slots
      <3>1. InstallTask(s, m)
        BY <2>5 DEF Dispatch
      <3>2. generation[s] + 1 \in Nat /\ tasks[s] \subseteq Tasks /\ signal[s] \subseteq Nat
        BY DEF Types, SetTyped
      <3>3. [id |-> generation[s] + 1, msg |-> m, owed |-> m.kind = "call", replied |-> FALSE,
             wait |-> 0] \in Tasks
        BY <2>1, <3>2 DEF Tasks
      <3>4. QED
        BY <2>2, <2>5, <3>1, <3>2, <3>3 DEF InstallTask, Types, SetTyped
    <2>6. QED
      BY <1>6, <2>3, <2>4, <2>5 DEF TakeMessage
  <1>7. ASSUME NEW s \in Services, TakePending(s) PROVE SetTyped'
    <2>1. PICK m \in Messages : InstallTask(s, m) /\ UNCHANGED <<slots, next>>
      <3>1. kept[s] \in Seq(Messages) /\ kept[s] # <<>>
        BY <1>7 DEF Types, BoxTyped, TakePending, KeptFirst
      <3>2. Head(kept[s]) \in Messages
        BY <3>1, Shortened
      <3>3. QED
        BY <1>7, <3>2 DEF TakePending, Dispatch
    <2>2. generation[s] + 1 \in Nat /\ tasks[s] \subseteq Tasks /\ signal[s] \subseteq Nat
      BY DEF Types, SetTyped
    <2>3. [id |-> generation[s] + 1, msg |-> m, owed |-> m.kind = "call", replied |-> FALSE,
           wait |-> 0] \in Tasks
      BY <2>2 DEF Tasks
    <2>4. QED
      BY <2>1, <2>2, <2>3 DEF InstallTask, Types, SetTyped
  <1>8. ASSUME NEW s \in Services, TakeReady(s) PROVE SetTyped'
    BY <1>8 DEF TakeReady, Types, SetTyped
  <1>9. ASSUME NEW s \in Services, PollCall(s) PROVE SetTyped'
    <2>1. pc[s] \in PollPC
      BY <1>9 DEF PollCall, PollPC
    <2>2. Current(s) \in Tasks
      BY <2>1, CurrentIs
    <2>3. [Current(s) EXCEPT !.wait = 0] \in Tasks
      BY <2>2 DEF Tasks
    <2>4. tasks' = tasks \/ tasks' = Update(s, run[s], [Current(s) EXCEPT !.wait = 0])
      BY <1>9 DEF PollCall
    <2>5. tasks' \in [Services -> SUBSET Tasks]
      BY <2>3, <2>4, UpdateIs DEF Types, SetTyped
    <2>6. QED
      BY <1>9, <2>5 DEF PollCall, Types, SetTyped
  <1>10. ASSUME NEW s \in Services, Abandon(s) PROVE SetTyped'
    <2>1. pc[s] \in PollPC
      BY <1>10 DEF Abandon, Goto, PollPC
    <2>2. Current(s) \in Tasks
      BY <2>1, CurrentIs
    <2>3. [Current(s) EXCEPT !.wait = 0] \in Tasks
      BY <2>2 DEF Tasks
    <2>4. tasks' = Update(s, run[s], [Current(s) EXCEPT !.wait = 0])
      BY <1>10 DEF Abandon
    <2>5. tasks' \in [Services -> SUBSET Tasks]
      BY <2>3, <2>4, UpdateIs DEF Types, SetTyped
    <2>6. QED
      BY <1>10, <2>5 DEF Abandon, Types, SetTyped
  <1>11. ASSUME NEW s \in Services, NEW d \in Services, Call(s, d) PROVE SetTyped'
    <2>1. pc[s] \in PollPC
      BY <1>11 DEF Call, Goto, PollPC
    <2>2. Current(s) \in Tasks /\ next[s] + 1 \in Nat /\ calls + 1 \in Nat
      <3>1. Current(s) \in Tasks
        BY <2>1, CurrentIs
      <3>2. QED
        BY <3>1 DEF Types, SetTyped, CountTyped
    <2>3. [Current(s) EXCEPT !.wait = next[s] + 1] \in Tasks
      BY <2>2 DEF Tasks
    <2>4. calls' = calls + 1 /\ next' = [next EXCEPT ![s] = next[s] + 1]
          /\ UNCHANGED <<signal, generation>>
      BY <1>11 DEF Call, NewCall, Alloc
    <2>5. CASE Waiting(s)
      <3>1. tasks' = Update(s, run[s], [Current(s) EXCEPT !.wait = next[s] + 1])
        BY <2>5 DEF Waiting, Alloc
      <3>2. tasks' \in [Services -> SUBSET Tasks]
        BY <2>3, <3>1, UpdateIs DEF Types, SetTyped
      <3>3. [session |-> next[s] + 1, result |-> "none", call |-> calls + 1] \in Sessions
        BY <2>2 DEF Sessions
      <3>4. slots' = [slots EXCEPT ![s] = @ \cup
                        {[session |-> next[s] + 1, result |-> "none", call |-> calls + 1]}]
        BY <2>4, <2>5 DEF Waiting, Alloc
      <3>5. slots' \in [Services -> SUBSET Sessions]
        BY <3>3, <3>4 DEF Types, SetTyped
      <3>6. QED
        BY <2>2, <2>4, <3>2, <3>5 DEF Types, SetTyped
    <2>6. CASE UNCHANGED <<slots, tasks>>
      BY <2>2, <2>4, <2>6 DEF Types, SetTyped
    <2>7. QED
      BY <1>11, <2>5, <2>6 DEF Call
  <1>12. ASSUME NEW s \in Services, NEW d \in Services, Post(s, d) PROVE SetTyped'
    <2>1. UNCHANGED <<generation, next, signal, slots, tasks>>
      BY <1>12 DEF Post, OtherEvent, lives, boxes, sets, execs, count, hist
    <2>2. QED
      BY <2>1 DEF SetTyped, Types
  <1>13. ASSUME NEW s \in Services, Push(s) PROVE SetTyped'
    <2>1. UNCHANGED <<generation, next, signal, slots, tasks>>
      BY <1>13 DEF Push, lives, boxes, sets, execs, count, hist
    <2>2. QED
      BY <2>1 DEF SetTyped, Types
  <1>14. ASSUME NEW s \in Services, CallExternal(s) PROVE SetTyped'
    <2>1. pc[s] \in PollPC
      BY <1>14 DEF CallExternal, Goto, PollPC
    <2>2. Current(s) \in Tasks /\ next[s] + 1 \in Nat /\ calls + 1 \in Nat
      <3>1. Current(s) \in Tasks
        BY <2>1, CurrentIs
      <3>2. QED
        BY <3>1 DEF Types, SetTyped, CountTyped
    <2>3. [Current(s) EXCEPT !.wait = next[s] + 1] \in Tasks
      BY <2>2 DEF Tasks
    <2>4. calls' = calls + 1 /\ next' = [next EXCEPT ![s] = next[s] + 1]
          /\ UNCHANGED <<signal, generation>>
      BY <1>14 DEF CallExternal, NewCall, Alloc
    <2>5. CASE Waiting(s)
      <3>1. tasks' = Update(s, run[s], [Current(s) EXCEPT !.wait = next[s] + 1])
        BY <2>5 DEF Waiting, Alloc
      <3>2. tasks' \in [Services -> SUBSET Tasks]
        BY <2>3, <3>1, UpdateIs DEF Types, SetTyped
      <3>3. [session |-> next[s] + 1, result |-> "none", call |-> calls + 1] \in Sessions
        BY <2>2 DEF Sessions
      <3>4. slots' = [slots EXCEPT ![s] = @ \cup
                        {[session |-> next[s] + 1, result |-> "none", call |-> calls + 1]}]
        BY <2>4, <2>5 DEF Waiting, Alloc
      <3>5. slots' \in [Services -> SUBSET Sessions]
        BY <3>3, <3>4 DEF Types, SetTyped
      <3>6. QED
        BY <2>2, <2>4, <3>2, <3>5 DEF Types, SetTyped
    <2>6. CASE UNCHANGED <<slots, tasks>>
      BY <2>2, <2>4, <2>6 DEF Types, SetTyped
    <2>7. QED
      BY <1>14, <2>5, <2>6 DEF CallExternal
  <1>15. ASSUME NEW s \in Services, NEW kind \in Answers, UserReply(s, kind) PROVE SetTyped'
    <2>1. pc[s] \in PollPC
      BY <1>15 DEF UserReply, PollPC
    <2>2. Current(s) \in Tasks
      BY <2>1, CurrentIs
    <2>3. [Current(s) EXCEPT !.replied = TRUE] \in Tasks
      BY <2>2 DEF Tasks
    <2>4. tasks' = Update(s, run[s], [Current(s) EXCEPT !.replied = TRUE])
          /\ UNCHANGED <<signal, generation, slots, next>>
      BY <1>15 DEF UserReply
    <2>5. QED
      BY <2>3, <2>4, UpdateIs DEF Types, SetTyped
  <1>16. ASSUME NEW s \in Services, Spawn(s) PROVE SetTyped'
    <2>1. PICK m \in Messages : InstallTask(s, m) /\ UNCHANGED <<slots, next>>
      BY <1>16, RecordsTyped DEF Spawn
    <2>2. generation[s] + 1 \in Nat /\ tasks[s] \subseteq Tasks /\ signal[s] \subseteq Nat
      BY DEF Types, SetTyped
    <2>3. [id |-> generation[s] + 1, msg |-> m, owed |-> m.kind = "call", replied |-> FALSE,
           wait |-> 0] \in Tasks
      BY <2>2 DEF Tasks
    <2>4. QED
      BY <2>1, <2>2, <2>3 DEF InstallTask, Types, SetTyped
  <1>17. ASSUME NEW s \in Services, Exit(s) PROVE SetTyped'
    <2>1. UNCHANGED <<generation, next, signal, slots, tasks>>
      BY <1>17 DEF Exit, lives, boxes, sets, execs, count, hist
    <2>2. QED
      BY <2>1 DEF SetTyped, Types
  <1>18. ASSUME NEW s \in Services, FailOne(s) PROVE SetTyped'
    <2>1. PICK k \in tasks[s] : k.owed /\ SendReply("ERROR", k.msg)
                                 /\ tasks' = Update(s, k.id, [k EXCEPT !.owed = FALSE])
      BY <1>18 DEF FailOne
    <2>2. k \in Tasks /\ k.msg \in Messages /\ k.msg.kind = "call" /\ "ERROR" \in Answers
      BY <2>1 DEF Types, SetTyped, Tasks, TaskBooks, Answers
    <2>3. Asked(k.msg)
      BY <2>1, <2>2, AskedMessage
    <2>4. [k EXCEPT !.owed = FALSE] \in Tasks
      BY <2>2 DEF Tasks
    <2>5. UNCHANGED <<signal, generation, slots, next>>
      BY <1>18 DEF FailOne
    <2>6. QED
      BY <2>1, <2>4, <2>5, UpdateIs DEF Types, SetTyped
  <1>19. ASSUME NEW s \in Services, ExitFails(s), ~FailOne(s) PROVE SetTyped'
    <2>1. UNCHANGED <<generation, next, signal, slots, tasks>>
      BY <1>19 DEF ExitFails, lives, boxes, sets, execs, count, hist
    <2>2. QED
      BY <2>1 DEF SetTyped, Types
  <1>20. ASSUME NEW s \in Services, InitFails(s) PROVE SetTyped'
    <2>1. UNCHANGED <<generation, next, signal, slots, tasks>>
      BY <1>20 DEF InitFails, lives, boxes, sets, execs, count, hist
    <2>2. QED
      BY <2>1 DEF SetTyped, Types
  <1>21. ASSUME NEW s \in Services, Return(s) PROVE SetTyped'
    BY <1>21 DEF Return, Types, SetTyped
  <1>22. ASSUME NEW s \in Services, Cleanup(s) PROVE SetTyped'
    <2>1. UNCHANGED <<generation, next, signal, slots, tasks>>
      BY <1>22 DEF Cleanup, lives, boxes, sets, execs, count, hist
    <2>2. QED
      BY <2>1 DEF SetTyped, Types
  <1>23. ASSUME NEW s \in Services, CleanDrops(s) PROVE SetTyped'
    BY <1>23 DEF CleanDrops, DropAll, Types, SetTyped
  <1>24. ASSUME NEW s \in Services, CleanRefuses(s) PROVE SetTyped'
    <2>1. UNCHANGED <<generation, next, signal, slots, tasks>>
      BY <1>24 DEF CleanRefuses, lives, boxes, sets, execs, count, hist
    <2>2. QED
      BY <2>1 DEF SetTyped, Types
  <1>25. ASSUME NEW s \in Services, CleanReleases(s) PROVE SetTyped'
    <2>1. UNCHANGED <<generation, next, signal, slots, tasks>>
      BY <1>25 DEF CleanReleases, lives, boxes, sets, execs, count, hist
    <2>2. QED
      BY <2>1 DEF SetTyped, Types
  <1>26. ASSUME UNCHANGED vars PROVE SetTyped'
    <2>1. UNCHANGED <<generation, next, signal, slots, tasks>>
      BY <1>26 DEF vars, lives, boxes, sets, execs, count, hist
    <2>2. QED
      BY <2>1 DEF SetTyped, Types
  <1>27. QED
    BY <1>1, <1>2, <1>3, <1>4, <1>5, <1>6, <1>7, <1>8, <1>9, <1>10, <1>11, <1>12, <1>13,
       <1>14, <1>15, <1>16, <1>17, <1>18, <1>19, <1>20, <1>21, <1>22, <1>23, <1>24, <1>25,
       <1>26
    DEF Next, Environment, Execute, User, CleanFails, ExitFails

(* of the places of the executors, *)
LEMMA ExecStep ==
    ASSUME Types, Control, TaskBooks, SessionBooks, Book, [Next]_vars
    PROVE  ExecTyped'
  <1>1. ASSUME NEW s \in Services, ForeignWake(s) PROVE ExecTyped'
    <2>1. PICK id \in 1..generation[s] : waking' = waking \cup {<<s, id>>}
      BY <1>1 DEF ForeignWake
    <2>2. generation[s] \in Nat /\ <<s, id>> \in Services \X Nat
      BY <2>1 DEF Types, SetTyped
    <2>3. UNCHANGED <<pc, run, out, tokens>>
      BY <1>1 DEF ForeignWake
    <2>4. QED
      BY <2>1, <2>2, <2>3 DEF ExecTyped, Types
  <1>2. ASSUME NEW s \in Services, ForeignPush(s) PROVE ExecTyped'
    BY <1>2 DEF ForeignPush, ExecTyped, Types
  <1>3. ASSUME NEW t \in tokens, NEW kind \in Answers, ExternalReply(t, kind) PROVE ExecTyped'
    BY <1>3 DEF ExternalReply, ExecTyped, Types, PollPC, CleanPC, Goto, lives
  <1>4. ASSUME NEW s \in Services, Kill(s) PROVE ExecTyped'
    <2>1. UNCHANGED <<out, pc, run, tokens, waking>>
      BY <1>4 DEF Kill, lives, boxes, sets, execs, count, hist
    <2>2. QED
      BY <2>1 DEF ExecTyped, Types
  <1>5. ASSUME NEW s \in Services, MarkDead(s) PROVE ExecTyped'
    <2>1. UNCHANGED <<out, pc, run, tokens, waking>>
      BY <1>5 DEF MarkDead, lives, boxes, sets, execs, count, hist
    <2>2. QED
      BY <2>1 DEF ExecTyped, Types
  <1>6. ASSUME NEW s \in Services, TakeMessage(s) PROVE ExecTyped'
    <2>1. UNCHANGED <<out, pc, run, tokens, waking>>
      BY <1>6 DEF TakeMessage, lives, boxes, sets, execs, count, hist
    <2>2. QED
      BY <2>1 DEF ExecTyped, Types
  <1>7. ASSUME NEW s \in Services, TakePending(s) PROVE ExecTyped'
    <2>1. UNCHANGED <<out, pc, run, tokens, waking>>
      BY <1>7 DEF TakePending, lives, boxes, sets, execs, count, hist
    <2>2. QED
      BY <2>1 DEF ExecTyped, Types
  <1>8. ASSUME NEW s \in Services, TakeReady(s) PROVE ExecTyped'
    <2>1. ready[s] \in Seq(Nat) /\ ready[s] # <<>>
      BY <1>8 DEF TakeReady, Types, BoxTyped
    <2>2. Head(ready[s]) \in Nat
      BY <2>1, Shortened
    <2>3. QED
      BY <1>8, <2>2 DEF TakeReady, PollFrom, ExecTyped, Types, PollPC, CleanPC, Goto
  <1>9. ASSUME NEW s \in Services, PollCall(s) PROVE ExecTyped'
    BY <1>9 DEF PollCall, ExecTyped, Types, PollPC, CleanPC, Goto, lives
  <1>10. ASSUME NEW s \in Services, Abandon(s) PROVE ExecTyped'
    BY <1>10 DEF Abandon, ExecTyped, Types, PollPC, CleanPC, Goto, lives
  <1>11. ASSUME NEW s \in Services, NEW d \in Services, Call(s, d) PROVE ExecTyped'
    <2>1. next[s] + 1 \in Nat /\ calls + 1 \in Nat /\ 0 \in Nat
      BY DEF Types, SetTyped, CountTyped
    <2>2. [kind |-> "call", from |-> s, session |-> next[s] + 1, call |-> calls + 1, seq |-> 0]
            \in Messages
      BY <2>1 DEF Messages, Kinds, Requests
    <2>3. \/ UNCHANGED <<out, pc>>
          \/ /\ out' = [out EXCEPT ![s] = [to |-> d, msg |-> [kind |-> "call", from |-> s,
                               session |-> next[s] + 1, call |-> calls + 1, seq |-> 0]]]
             /\ pc' = [pc EXCEPT ![s] = "push"]
      BY <1>11 DEF Call, Alloc, NewCall
    <2>4. UNCHANGED <<run, tokens, waking>>
      BY <1>11 DEF Call
    <2>5. QED
      BY <2>2, <2>3, <2>4 DEF ExecTyped, Types, PollPC
  <1>12. ASSUME NEW s \in Services, NEW d \in Services, Post(s, d) PROVE ExecTyped'
    <2>1. [NoMessage EXCEPT !.kind = "post"] \in Messages
      BY DEF NoMessage, Messages, Kinds, Requests
    <2>2. QED
      BY <1>12, <2>1 DEF Post, ExecTyped, Types, PollPC, CleanPC, Goto
  <1>13. ASSUME NEW s \in Services, Push(s) PROVE ExecTyped'
    BY <1>13, RecordsTyped DEF Push, ExecTyped, Types, PollPC, CleanPC, Goto
  <1>14. ASSUME NEW s \in Services, CallExternal(s) PROVE ExecTyped'
    <2>1. next[s] + 1 \in Nat /\ calls + 1 \in Nat
      BY DEF Types, SetTyped, CountTyped
    <2>2. [from |-> s, session |-> next[s] + 1, call |-> calls + 1] \in Tokens
      BY <2>1 DEF Tokens
    <2>3. tokens' = tokens \cup {[from |-> s, session |-> next[s] + 1, call |-> calls + 1]}
      BY <1>14 DEF CallExternal, NewCall, Alloc
    <2>4. QED
      BY <1>14, <2>2, <2>3 DEF CallExternal, ExecTyped, Types, PollPC, CleanPC, Goto
  <1>15. ASSUME NEW s \in Services, NEW kind \in Answers, UserReply(s, kind) PROVE ExecTyped'
    <2>1. UNCHANGED <<out, pc, run, tokens, waking>>
      BY <1>15 DEF UserReply, lives, boxes, sets, execs, count, hist
    <2>2. QED
      BY <2>1 DEF ExecTyped, Types
  <1>16. ASSUME NEW s \in Services, Spawn(s) PROVE ExecTyped'
    <2>1. UNCHANGED <<out, pc, run, tokens, waking>>
      BY <1>16 DEF Spawn, OtherEvent, lives, boxes, sets, execs, count, hist
    <2>2. QED
      BY <2>1 DEF ExecTyped, Types
  <1>17. ASSUME NEW s \in Services, Exit(s) PROVE ExecTyped'
    BY <1>17 DEF Exit, ExecTyped, Types, PollPC, CleanPC, Goto, lives
  <1>18. ASSUME NEW s \in Services, FailOne(s) PROVE ExecTyped'
    <2>1. UNCHANGED <<out, pc, run, tokens, waking>>
      BY <1>18 DEF FailOne, lives, boxes, sets, execs, count, hist
    <2>2. QED
      BY <2>1 DEF ExecTyped, Types
  <1>19. ASSUME NEW s \in Services, ExitFails(s), ~FailOne(s) PROVE ExecTyped'
    BY <1>19 DEF ExitFails, ExecTyped, Types, PollPC, CleanPC, Goto, lives
  <1>20. ASSUME NEW s \in Services, InitFails(s) PROVE ExecTyped'
    BY <1>20 DEF InitFails, ExecTyped, Types, PollPC, CleanPC, Goto, lives
  <1>21. ASSUME NEW s \in Services, Return(s) PROVE ExecTyped'
    BY <1>21 DEF Return, ExecTyped, Types, PollPC, CleanPC, Goto, lives
  <1>22. ASSUME NEW s \in Services, Cleanup(s) PROVE ExecTyped'
    BY <1>22 DEF Cleanup, ExecTyped, Types, PollPC, CleanPC, Goto, lives
  <1>23. ASSUME NEW s \in Services, CleanDrops(s) PROVE ExecTyped'
    BY <1>23 DEF CleanDrops, ExecTyped, Types, PollPC, CleanPC, Goto, lives, DropAll
  <1>24. ASSUME NEW s \in Services, CleanRefuses(s) PROVE ExecTyped'
    <2>1. UNCHANGED <<out, pc, run, tokens, waking>>
      BY <1>24 DEF CleanRefuses, lives, boxes, sets, execs, count, hist
    <2>2. QED
      BY <2>1 DEF ExecTyped, Types
  <1>25. ASSUME NEW s \in Services, CleanReleases(s) PROVE ExecTyped'
    BY <1>25 DEF CleanReleases, ExecTyped, Types, PollPC, CleanPC, Goto, lives
  <1>26. ASSUME UNCHANGED vars PROVE ExecTyped'
    <2>1. UNCHANGED <<out, pc, run, tokens, waking>>
      BY <1>26 DEF vars, lives, boxes, sets, execs, count, hist
    <2>2. QED
      BY <2>1 DEF ExecTyped, Types
  <1>27. QED
    BY <1>1, <1>2, <1>3, <1>4, <1>5, <1>6, <1>7, <1>8, <1>9, <1>10, <1>11, <1>12, <1>13,
       <1>14, <1>15, <1>16, <1>17, <1>18, <1>19, <1>20, <1>21, <1>22, <1>23, <1>24, <1>25,
       <1>26
    DEF Next, Environment, Execute, User, CleanFails, ExitFails

(* of the counters and the history. *)
LEMMA CountStep ==
    ASSUME Types, Control, TaskBooks, SessionBooks, Book, [Next]_vars
    PROVE  CountTyped'
  <1>1. ASSUME NEW s \in Services, ForeignWake(s) PROVE CountTyped'
    BY <1>1, RpcAssumption DEF ForeignWake, OtherEvent, CountTyped, Types, hist
  <1>2. ASSUME NEW s \in Services, ForeignPush(s) PROVE CountTyped'
    <2>1. UNCHANGED <<calls, first, last, others, sent>>
      BY <1>2 DEF ForeignPush, lives, boxes, sets, execs, count, hist
    <2>2. QED
      BY <2>1 DEF CountTyped, Types
  <1>3. ASSUME NEW t \in tokens, NEW kind \in Answers, ExternalReply(t, kind) PROVE CountTyped'
    <2>1. Asked(t)
      BY AskedToken
    <2>2. SendReply(kind, t) /\ UNCHANGED <<calls, others, sent, last>>
      BY <1>3 DEF ExternalReply, count
    <2>3. QED
      BY <2>1, <2>2, Replies DEF CountTyped, Types
  <1>4. ASSUME NEW s \in Services, Kill(s) PROVE CountTyped'
    <2>1. UNCHANGED <<calls, first, last, others, sent>>
      BY <1>4 DEF Kill, lives, boxes, sets, execs, count, hist
    <2>2. QED
      BY <2>1 DEF CountTyped, Types
  <1>5. ASSUME NEW s \in Services, MarkDead(s) PROVE CountTyped'
    <2>1. UNCHANGED <<calls, first, last, others, sent>>
      BY <1>5 DEF MarkDead, lives, boxes, sets, execs, count, hist
    <2>2. QED
      BY <2>1 DEF CountTyped, Types
  <1>6. ASSUME NEW s \in Services, TakeMessage(s) PROVE CountTyped'
    <2>1. Head(inbox[s]).seq \in Nat
      <3>1. inbox[s] \in Seq(Messages) /\ inbox[s] # <<>>
        BY <1>6 DEF Types, BoxTyped, TakeMessage, KeptFirst
      <3>2. Head(inbox[s]) \in Messages
        BY <3>1, Shortened
      <3>3. QED
        BY <3>2 DEF Messages
    <2>2. QED
      BY <1>6, <2>1 DEF TakeMessage, Dispatch, CountTyped, Types, count
  <1>7. ASSUME NEW s \in Services, TakePending(s) PROVE CountTyped'
    <2>1. Head(kept[s]).seq \in Nat
      <3>1. kept[s] \in Seq(Messages) /\ kept[s] # <<>>
        BY <1>7 DEF Types, BoxTyped, TakePending, KeptFirst
      <3>2. Head(kept[s]) \in Messages
        BY <3>1, Shortened
      <3>3. QED
        BY <3>2 DEF Messages
    <2>2. QED
      BY <1>7, <2>1 DEF TakePending, Dispatch, CountTyped, Types, count
  <1>8. ASSUME NEW s \in Services, TakeReady(s) PROVE CountTyped'
    <2>1. UNCHANGED <<calls, first, last, others, sent>>
      BY <1>8 DEF TakeReady, lives, boxes, sets, execs, count, hist
    <2>2. QED
      BY <2>1 DEF CountTyped, Types
  <1>9. ASSUME NEW s \in Services, PollCall(s) PROVE CountTyped'
    <2>1. UNCHANGED <<calls, first, last, others, sent>>
      BY <1>9 DEF PollCall, lives, boxes, sets, execs, count, hist
    <2>2. QED
      BY <2>1 DEF CountTyped, Types
  <1>10. ASSUME NEW s \in Services, Abandon(s) PROVE CountTyped'
    <2>1. UNCHANGED <<calls, first, last, others, sent>>
      BY <1>10 DEF Abandon, lives, boxes, sets, execs, count, hist
    <2>2. QED
      BY <2>1 DEF CountTyped, Types
  <1>11. ASSUME NEW s \in Services, NEW d \in Services, Call(s, d) PROVE CountTyped'
    BY <1>11, RpcAssumption DEF Call, NewCall, CountTyped, Types, hist
  <1>12. ASSUME NEW s \in Services, NEW d \in Services, Post(s, d) PROVE CountTyped'
    BY <1>12, RpcAssumption DEF Post, OtherEvent, CountTyped, Types, hist
  <1>13. ASSUME NEW s \in Services, Push(s) PROVE CountTyped'
    <2>1. out[s].to \in Services
      BY <1>13 DEF Push, Goto, Control
    <2>2. QED
      BY <1>13, <2>1 DEF Push, CountTyped, Types, count
  <1>14. ASSUME NEW s \in Services, CallExternal(s) PROVE CountTyped'
    BY <1>14, RpcAssumption DEF CallExternal, NewCall, CountTyped, Types, hist
  <1>15. ASSUME NEW s \in Services, NEW kind \in Answers, UserReply(s, kind) PROVE CountTyped'
    <2>1. pc[s] = "user" /\ Current(s).msg.kind = "call" /\ SendReply(kind, Current(s).msg)
          /\ UNCHANGED <<calls, others, sent, last>>
      BY <1>15 DEF UserReply, count
    <2>2. Current(s) \in tasks[s] /\ Current(s).msg \in Messages
      BY <2>1, CurrentIs DEF PollPC, Tasks
    <2>3. Asked(Current(s).msg)
      BY <2>1, <2>2, AskedMessage
    <2>4. QED
      BY <2>1, <2>3, Replies DEF CountTyped, Types
  <1>16. ASSUME NEW s \in Services, Spawn(s) PROVE CountTyped'
    BY <1>16, RpcAssumption DEF Spawn, OtherEvent, CountTyped, Types, hist
  <1>17. ASSUME NEW s \in Services, Exit(s) PROVE CountTyped'
    <2>1. UNCHANGED <<calls, first, last, others, sent>>
      BY <1>17 DEF Exit, lives, boxes, sets, execs, count, hist
    <2>2. QED
      BY <2>1 DEF CountTyped, Types
  <1>18. ASSUME NEW s \in Services, FailOne(s) PROVE CountTyped'
    <2>1. PICK k \in tasks[s] : k.owed /\ SendReply("ERROR", k.msg)
                                 /\ tasks' = Update(s, k.id, [k EXCEPT !.owed = FALSE])
      BY <1>18 DEF FailOne
    <2>2. k \in Tasks /\ k.msg \in Messages /\ k.msg.kind = "call" /\ "ERROR" \in Answers
      BY <2>1 DEF Types, SetTyped, Tasks, TaskBooks, Answers
    <2>3. Asked(k.msg)
      BY <2>1, <2>2, AskedMessage
    <2>4. UNCHANGED <<calls, others, sent, last>>
      BY <1>18 DEF FailOne, count
    <2>5. QED
      BY <2>1, <2>2, <2>3, <2>4, Replies DEF CountTyped, Types
  <1>19. ASSUME NEW s \in Services, ExitFails(s), ~FailOne(s) PROVE CountTyped'
    <2>1. UNCHANGED <<calls, first, last, others, sent>>
      BY <1>19 DEF ExitFails, lives, boxes, sets, execs, count, hist
    <2>2. QED
      BY <2>1 DEF CountTyped, Types
  <1>20. ASSUME NEW s \in Services, InitFails(s) PROVE CountTyped'
    <2>1. UNCHANGED <<calls, first, last, others, sent>>
      BY <1>20 DEF InitFails, lives, boxes, sets, execs, count, hist
    <2>2. QED
      BY <2>1 DEF CountTyped, Types
  <1>21. ASSUME NEW s \in Services, Return(s) PROVE CountTyped'
    <2>1. UNCHANGED <<calls, first, last, others, sent>>
      BY <1>21 DEF Return, lives, boxes, sets, execs, count, hist
    <2>2. QED
      BY <2>1 DEF CountTyped, Types
  <1>22. ASSUME NEW s \in Services, Cleanup(s) PROVE CountTyped'
    <2>1. UNCHANGED <<calls, first, last, others, sent>>
      BY <1>22 DEF Cleanup, lives, boxes, sets, execs, count, hist
    <2>2. QED
      BY <2>1 DEF CountTyped, Types
  <1>23. ASSUME NEW s \in Services, CleanDrops(s) PROVE CountTyped'
    <2>1. UNCHANGED <<calls, first, last, others, sent>>
      BY <1>23 DEF CleanDrops, DropAll, lives, boxes, sets, execs, count, hist
    <2>2. QED
      BY <2>1 DEF CountTyped, Types
  <1>24. ASSUME NEW s \in Services, CleanRefuses(s) PROVE CountTyped'
    <2>1. ready[s] \in Seq(Nat) /\ inbox[s] \in Seq(Messages) /\ kept[s] \in Seq(Messages)
          /\ generation[s] \in Nat
      BY DEF Types, BoxTyped, SetTyped
    <2>2. kept[s] # <<>> /\ kept' = [kept EXCEPT ![s] = Tail(@)]
      BY <1>24 DEF CleanRefuses
    <2>3. /\ Tail(kept[s]) \in Seq(Messages) /\ Head(kept[s]) \in Messages
          /\ Elems(kept[s]) = Elems(Tail(kept[s])) \cup {Head(kept[s])}
      BY <2>1, <2>2, Shortened, TailElems
    <2>4. CASE Head(kept[s]).kind = "call"
      <3>1. SendReply("ERROR", Head(kept[s])) /\ "ERROR" \in Answers
        BY <1>24, <2>4 DEF CleanRefuses, Answers
      <3>2. Asked(Head(kept[s]))
        BY <2>3, <2>4, AskedMessage
      <3>3. UNCHANGED <<calls, others, sent, last>>
        BY <1>24 DEF CleanRefuses, count
      <3>4. QED
        BY <3>1, <3>2, <3>3, Replies DEF CountTyped, Types
    <2>5. CASE Head(kept[s]).kind # "call"
      BY <1>24, <2>5 DEF CleanRefuses, CountTyped, Types, count
    <2>6. QED
      BY <2>4, <2>5
  <1>25. ASSUME NEW s \in Services, CleanReleases(s) PROVE CountTyped'
    <2>1. UNCHANGED <<calls, first, last, others, sent>>
      BY <1>25 DEF CleanReleases, lives, boxes, sets, execs, count, hist
    <2>2. QED
      BY <2>1 DEF CountTyped, Types
  <1>26. ASSUME UNCHANGED vars PROVE CountTyped'
    <2>1. UNCHANGED <<calls, first, last, others, sent>>
      BY <1>26 DEF vars, lives, boxes, sets, execs, count, hist
    <2>2. QED
      BY <2>1 DEF CountTyped, Types
  <1>27. QED
    BY <1>1, <1>2, <1>3, <1>4, <1>5, <1>6, <1>7, <1>8, <1>9, <1>10, <1>11, <1>12, <1>13,
       <1>14, <1>15, <1>16, <1>17, <1>18, <1>19, <1>20, <1>21, <1>22, <1>23, <1>24, <1>25,
       <1>26
    DEF Next, Environment, Execute, User, CleanFails, ExitFails

-----------------------------------------------------------------------------
(* A task is added, and queued for its first poll.                         *)
NewTask(s, m) == [id |-> generation[s] + 1, msg |-> m, owed |-> m.kind = "call",
                  replied |-> FALSE, wait |-> 0]

(* install_task, field by field. *)
LEMMA InstallIs ==
    ASSUME Types, NEW s \in Services, NEW m \in Messages, InstallTask(s, m)
    PROVE  /\ NewTask(s, m).id = generation[s] + 1 /\ NewTask(s, m).msg = m
           /\ NewTask(s, m).wait = 0 /\ NewTask(s, m).owed = (m.kind = "call")
           /\ NewTask(s, m) \in Tasks
           /\ tasks'[s] = tasks[s] \cup {NewTask(s, m)}
           /\ \A u \in Services \ {s} : tasks'[u] = tasks[u] /\ generation'[u] = generation[u]
                                        /\ ready'[u] = ready[u] /\ signal'[u] = signal[u]
           /\ generation[s] \in Nat /\ generation'[s] = generation[s] + 1
           /\ ready[s] \in Seq(Nat) /\ ready'[s] = Append(ready[s], generation[s] + 1)
           /\ Elems(ready'[s]) = Elems(ready[s]) \cup {generation[s] + 1}
           /\ signal'[s] = signal[s] \cup {generation[s] + 1}
  <1>1. generation[s] \in Nat /\ generation[s] + 1 \in Nat /\ ready[s] \in Seq(Nat)
    BY DEF Types, SetTyped, BoxTyped
  <1>2. /\ NewTask(s, m).id = generation[s] + 1 /\ NewTask(s, m).msg = m
        /\ NewTask(s, m).wait = 0 /\ NewTask(s, m).owed = (m.kind = "call")
        /\ NewTask(s, m) \in Tasks
    BY <1>1 DEF NewTask, Tasks
  <1>3. /\ tasks'[s] = tasks[s] \cup {NewTask(s, m)}
        /\ \A u \in Services \ {s} : tasks'[u] = tasks[u] /\ generation'[u] = generation[u]
        /\ generation'[s] = generation[s] + 1
    BY DEF InstallTask, NewTask, Types, SetTyped
  <1>4. /\ \A u \in Services \ {s} : ready'[u] = ready[u] /\ signal'[u] = signal[u]
        /\ ready'[s] = Append(ready[s], generation[s] + 1)
        /\ signal'[s] = signal[s] \cup {generation[s] + 1}
    BY DEF InstallTask, Types, SetTyped, BoxTyped
  <1>5. Elems(ready'[s]) = Elems(ready[s]) \cup {generation[s] + 1}
    BY <1>1, <1>4, AppendElems
  <1>6. QED
    BY <1>1, <1>2, <1>3, <1>4, <1>5

(* A task is replaced. *)
LEMMA Replaced ==
    ASSUME Types, TaskBooks, NEW s \in Services, NEW k \in tasks[s], NEW j \in Tasks,
           j.id = k.id, tasks' = Update(s, k.id, j)
    PROVE  /\ tasks'[s] = (tasks[s] \ {k}) \cup {j}
           /\ \A u \in Services \ {s} : tasks'[u] = tasks[u]
  <1>1. {i \in tasks[s] : i.id # k.id} = tasks[s] \ {k}
    BY DEF TaskBooks
  <1>2. QED
    BY <1>1, UpdateIs

(* The task in hand is replaced. *)
LEMMA CurrentReplaced ==
    ASSUME Types, Control, TaskBooks, NEW s \in Services, pc[s] \in PollPC, NEW j \in Tasks,
           j.id = run[s], tasks' = Update(s, run[s], j)
    PROVE  /\ tasks'[s] = (tasks[s] \ {Current(s)}) \cup {j}
           /\ \A u \in Services \ {s} : tasks'[u] = tasks[u]
  BY CurrentIs, Replaced

(* The task in hand stops waiting, or begins to. *)
LEMMA WaitChanged ==
    ASSUME Types, Control, TaskBooks, NEW s \in Services, pc[s] \in PollPC, NEW n \in Nat,
           tasks' = Update(s, run[s], [Current(s) EXCEPT !.wait = n])
    PROVE  \E j \in Tasks :
             /\ j.id = run[s] /\ j.wait = n /\ j.msg = Current(s).msg /\ j.owed = Current(s).owed
             /\ tasks'[s] = (tasks[s] \ {Current(s)}) \cup {j}
             /\ \A u \in Services \ {s} : tasks'[u] = tasks[u]
  <1> DEFINE j == [Current(s) EXCEPT !.wait = n]
  <1>1. Current(s) \in Tasks /\ Current(s).id = run[s]
    BY CurrentIs
  <1>2. /\ j \in Tasks /\ j.id = run[s] /\ j.wait = n /\ j.msg = Current(s).msg
        /\ j.owed = Current(s).owed
    BY <1>1 DEF Tasks
  <1> HIDE DEF j
  <1>3. QED
    BY <1>2, CurrentReplaced DEF j

(* The task in hand notes that it has answered. *)
LEMMA ReplyNoted ==
    ASSUME Types, Control, TaskBooks, NEW s \in Services, pc[s] \in PollPC,
           tasks' = Update(s, run[s], [Current(s) EXCEPT !.replied = TRUE])
    PROVE  \E j \in Tasks :
             /\ j.id = run[s] /\ j.wait = Current(s).wait /\ j.msg = Current(s).msg
             /\ j.owed = Current(s).owed
             /\ tasks'[s] = (tasks[s] \ {Current(s)}) \cup {j}
             /\ \A u \in Services \ {s} : tasks'[u] = tasks[u]
  <1> DEFINE j == [Current(s) EXCEPT !.replied = TRUE]
  <1>1. Current(s) \in Tasks /\ Current(s).id = run[s]
    BY CurrentIs
  <1>2. /\ j \in Tasks /\ j.id = run[s] /\ j.wait = Current(s).wait /\ j.msg = Current(s).msg
        /\ j.owed = Current(s).owed
    BY <1>1 DEF Tasks
  <1> HIDE DEF j
  <1>3. QED
    BY <1>2, CurrentReplaced DEF j

(* A request in hand is failed. *)
LEMMA Failed ==
    ASSUME Types, TaskBooks, Book, NEW s \in Services, FailOne(s)
    PROVE  \E k \in tasks[s], j \in Tasks :
             /\ k.owed /\ k \in Tasks /\ k.msg \in Messages /\ k.msg.kind = "call" /\ Asked(k.msg)
             /\ SendReply("ERROR", k.msg)
             /\ j.id = k.id /\ j.wait = k.wait /\ j.msg = k.msg /\ ~j.owed
             /\ tasks'[s] = (tasks[s] \ {k}) \cup {j}
             /\ \A u \in Services \ {s} : tasks'[u] = tasks[u]
  <1>1. PICK k \in tasks[s] : k.owed /\ SendReply("ERROR", k.msg)
                              /\ tasks' = Update(s, k.id, [k EXCEPT !.owed = FALSE])
    BY DEF FailOne
  <1>2. k \in Tasks /\ k.msg \in Messages /\ k.msg.kind = "call"
    BY <1>1 DEF Types, SetTyped, Tasks, TaskBooks
  <1>3. Asked(k.msg)
    BY <1>2, AskedMessage
  <1> DEFINE j == [k EXCEPT !.owed = FALSE]
  <1>4. j \in Tasks /\ j.id = k.id /\ j.wait = k.wait /\ j.msg = k.msg /\ ~j.owed
    BY <1>2 DEF Tasks
  <1> HIDE DEF j
  <1>5. tasks' = Update(s, k.id, j)
    BY <1>1 DEF j
  <1>6. tasks'[s] = (tasks[s] \ {k}) \cup {j} /\ \A u \in Services \ {s} : tasks'[u] = tasks[u]
    BY <1>4, <1>5, Replaced, Zenon
  <1>7. QED
    BY <1>1, <1>2, <1>3, <1>4, <1>6, Zenon

(* The message at the head of a queue. *)
LEMMA HeadMessage ==
    ASSUME Types, NEW s \in Services, NEW q, q = inbox[s] \/ q = kept[s], q # <<>>
    PROVE  /\ Head(q) \in Messages /\ Tail(q) \in Seq(Messages) /\ q \in Seq(Messages)
           /\ Elems(q) = Elems(Tail(q)) \cup {Head(q)}
  <1>1. q \in Seq(Messages)
    BY DEF Types, BoxTyped
  <1>2. QED
    BY <1>1, Shortened, TailElems

(* handle_message, taken apart. *)
LEMMA TakeIs ==
    ASSUME Types, NEW s \in Services, TakeMessage(s), NEW m, m = Head(inbox[s])
    PROVE  /\ pc[s] = "free" /\ s \notin dead /\ inbox[s] # <<>> /\ m \in Messages
           /\ inbox' = [inbox EXCEPT ![s] = Tail(@)]
           /\ inbox'[s] = Tail(inbox[s]) /\ \A u \in Services \ {s} : inbox'[u] = inbox[u]
           /\ Elems(inbox[s]) = Elems(inbox'[s]) \cup {m}
           /\ UNCHANGED <<lives, next, execs, count, first, forgotten, sent>>
           /\ \/ /\ m.kind \in Answers /\ Complete(s, m)
                 /\ UNCHANGED <<kept, tasks, generation, last>>
              \/ /\ m.kind \in Requests /\ life[s] # "RUNNING"
                 /\ kept' = [kept EXCEPT ![s] = Append(@, m)]
                 /\ kept'[s] = Append(kept[s], m) /\ \A u \in Services \ {s} : kept'[u] = kept[u]
                 /\ Elems(kept'[s]) = Elems(kept[s]) \cup {m}
                 /\ UNCHANGED <<ready, tasks, signal, generation, slots, last>>
              \/ /\ m.kind \in Requests /\ kept[s] = <<>>
                 /\ InstallTask(s, m) /\ last' = [last EXCEPT ![s] = m.seq]
                 /\ UNCHANGED <<kept, slots>>
  <1>1. /\ pc[s] = "free" /\ s \notin dead /\ inbox[s] # <<>> /\ ~KeptFirst(s)
        /\ inbox' = [inbox EXCEPT ![s] = Tail(@)]
        /\ UNCHANGED <<lives, next, execs, count, first, forgotten, sent>>
    BY DEF TakeMessage, MayTake, Runnable
  <1>2. /\ m \in Messages /\ inbox'[s] = Tail(inbox[s])
        /\ \A u \in Services \ {s} : inbox'[u] = inbox[u]
        /\ Elems(inbox[s]) = Elems(inbox'[s]) \cup {m}
    BY <1>1, HeadMessage DEF Types, BoxTyped
  <1>3. kept[s] \in Seq(Messages)
    BY DEF Types, BoxTyped
  <1>4. /\ Append(kept[s], m) \in Seq(Messages)
        /\ Elems(Append(kept[s], m)) = Elems(kept[s]) \cup {m}
    BY <1>2, <1>3, Appended, AppendElems
  <1>5. CASE /\ m.kind \in Requests /\ life[s] # "RUNNING"
             /\ kept' = [kept EXCEPT ![s] = Append(@, m)]
             /\ UNCHANGED <<ready, tasks, signal, generation, slots, last>>
    <2>1. kept'[s] = Append(kept[s], m) /\ \A u \in Services \ {s} : kept'[u] = kept[u]
      BY <1>5 DEF Types, BoxTyped
    <2>2. QED
      BY <1>1, <1>2, <1>4, <1>5, <2>1
  <1>6. CASE m.kind \in Requests /\ life[s] = "RUNNING" /\ Dispatch(s, m) /\ UNCHANGED <<kept, slots>>
    BY <1>1, <1>2, <1>6 DEF Dispatch, KeptFirst
  <1>7. CASE m.kind \in Answers /\ Complete(s, m) /\ UNCHANGED <<kept, tasks, generation, last>>
    BY <1>1, <1>2, <1>7
  <1>8. QED
    BY <1>5, <1>6, <1>7 DEF TakeMessage

(* take_pending, taken apart. *)
LEMMA PendingIs ==
    ASSUME Types, NEW s \in Services, TakePending(s), NEW m, m = Head(kept[s])
    PROVE  /\ pc[s] = "free" /\ s \notin dead /\ kept[s] # <<>> /\ m \in Messages
           /\ kept'[s] = Tail(kept[s]) /\ \A u \in Services \ {s} : kept'[u] = kept[u]
           /\ Elems(kept[s]) = Elems(kept'[s]) \cup {m}
           /\ InstallTask(s, m) /\ last' = [last EXCEPT ![s] = m.seq]
           /\ UNCHANGED <<lives, inbox, slots, next, execs, count, first, forgotten, sent>>
  <1>1. /\ pc[s] = "free" /\ s \notin dead /\ kept[s] # <<>>
        /\ kept' = [kept EXCEPT ![s] = Tail(@)]
        /\ InstallTask(s, m) /\ last' = [last EXCEPT ![s] = m.seq]
        /\ UNCHANGED <<lives, inbox, slots, next, execs, count, first, forgotten, sent>>
    BY DEF TakePending, Runnable, KeptFirst, Dispatch
  <1>2. QED
    BY <1>1, HeadMessage DEF Types, BoxTyped

(* push, taken apart. *)
Stamped(s) == [out[s].msg EXCEPT !.seq = sent[out[s].to] + 1]
(* What Push does to the sender and to the receiver. *)
LEMMA PushIs ==
    ASSUME Types, Control, NEW s \in Services, Push(s), NEW d, d = out[s].to
    PROVE  /\ pc[s] = "push" /\ d \in Services /\ out[s].msg.kind \in Requests
           /\ pc'[s] \in {"poll", "user"} /\ \A u \in Services \ {s} : pc'[u] = pc[u]
           /\ out' = [out EXCEPT ![s] = Nothing] /\ out'[s] = Nothing
           /\ \A u \in Services \ {s} : out'[u] = out[u]
           /\ Stamped(s) \in Messages /\ Stamped(s).kind = out[s].msg.kind
           /\ Stamped(s).from = out[s].msg.from /\ Stamped(s).session = out[s].msg.session
           /\ Stamped(s).call = out[s].msg.call /\ Stamped(s).seq = sent[d] + 1
           /\ inbox'[d] = Append(inbox[d], Stamped(s))
           /\ \A u \in Services \ {d} : inbox'[u] = inbox[u] /\ sent'[u] = sent[u]
           /\ sent'[d] = sent[d] + 1
           /\ Elems(inbox'[d]) = Elems(inbox[d]) \cup {Stamped(s)}
           /\ UNCHANGED <<lives, ready, kept, sets, run, tokens, waking, count, first, forgotten, last>>
  <1>1. pc[s] = "push" /\ d \in Services /\ out[s].msg.kind \in Requests
    BY DEF Push, Goto, Control
  <1>2. out[s].msg \in Messages /\ sent[d] + 1 \in Nat /\ inbox[d] \in Seq(Messages)
    BY <1>1 DEF Types, ExecTyped, CountTyped, BoxTyped
  <1>3. /\ Stamped(s) \in Messages /\ Stamped(s).kind = out[s].msg.kind
        /\ Stamped(s).from = out[s].msg.from /\ Stamped(s).session = out[s].msg.session
        /\ Stamped(s).call = out[s].msg.call /\ Stamped(s).seq = sent[d] + 1
    BY <1>2 DEF Stamped, Messages
  <1>4. Elems(Append(inbox[d], Stamped(s))) = Elems(inbox[d]) \cup {Stamped(s)}
    BY <1>2, <1>3, AppendElems
  <1>5. /\ inbox'[d] = Append(inbox[d], Stamped(s))
        /\ \A u \in Services \ {d} : inbox'[u] = inbox[u] /\ sent'[u] = sent[u]
        /\ sent'[d] = sent[d] + 1
    BY <1>1 DEF Push, Stamped, Types, BoxTyped, CountTyped
  <1>6. /\ pc'[s] \in {"poll", "user"} /\ \A u \in Services \ {s} : pc'[u] = pc[u]
        /\ out' = [out EXCEPT ![s] = Nothing] /\ out'[s] = Nothing
        /\ \A u \in Services \ {s} : out'[u] = out[u]
    BY DEF Push, Goto, Types, ExecTyped
  <1>7. UNCHANGED <<lives, ready, kept, sets, run, tokens, waking, count, first, forgotten, last>>
    BY DEF Push
  <1>8. QED
    BY <1>1, <1>3, <1>4, <1>5, <1>6, <1>7

(* A call begins: a session, and a task that waits for it. *)
LEMMA WaitingIs ==
    ASSUME Types, Control, TaskBooks, NEW s \in Services, pc[s] \in PollPC, NewCall(s), Waiting(s)
    PROVE  /\ calls' = calls + 1 /\ calls + 1 <= MaxEvents /\ calls + 1 \in 1..MaxEvents
           /\ next[s] + 1 \in Nat /\ next'[s] = next[s] + 1
           /\ \A u \in Services \ {s} : next'[u] = next[u] /\ slots'[u] = slots[u]
           /\ \E k \in Sessions :
                /\ k.session = next[s] + 1 /\ k.result = "none" /\ k.call = calls + 1
                /\ slots'[s] = slots[s] \cup {k}
           /\ \E j \in Tasks :
                /\ j.id = run[s] /\ j.wait = next[s] + 1 /\ j.msg = Current(s).msg
                /\ j.owed = Current(s).owed
                /\ tasks'[s] = (tasks[s] \ {Current(s)}) \cup {j}
                /\ \A u \in Services \ {s} : tasks'[u] = tasks[u]
  <1>1. /\ calls' = calls + 1 /\ calls + 1 <= MaxEvents /\ calls + 1 \in 1..MaxEvents
        /\ next[s] + 1 \in Nat /\ next'[s] = next[s] + 1
        /\ \A u \in Services \ {s} : next'[u] = next[u]
    BY RpcAssumption DEF NewCall, Alloc, Types, CountTyped, SetTyped
  <1>2. /\ tasks' = Update(s, run[s], [Current(s) EXCEPT !.wait = next[s] + 1])
        /\ slots' = [slots EXCEPT ![s] = @ \cup
                        {[session |-> next[s] + 1, result |-> "none", call |-> calls + 1]}]
    BY <1>1 DEF Waiting, Alloc
  <1> DEFINE k == [session |-> next[s] + 1, result |-> "none", call |-> calls + 1]
  <1>3. k \in Sessions /\ k.session = next[s] + 1 /\ k.result = "none" /\ k.call = calls + 1
    BY <1>1 DEF Sessions
  <1>4. slots'[s] = slots[s] \cup {k} /\ \A u \in Services \ {s} : slots'[u] = slots[u]
    BY <1>2 DEF Types, SetTyped
  <1> HIDE DEF k
  <1>5. \E j \in Tasks :
          /\ j.id = run[s] /\ j.wait = next[s] + 1 /\ j.msg = Current(s).msg
          /\ j.owed = Current(s).owed
          /\ tasks'[s] = (tasks[s] \ {Current(s)}) \cup {j}
          /\ \A u \in Services \ {s} : tasks'[u] = tasks[u]
    BY <1>1, <1>2, WaitChanged
  <1>6. QED
    BY <1>1, <1>3, <1>4, <1>5

-----------------------------------------------------------------------------
(* Where executors stand: every step keeps Control. *)
LEMMA ControlStep ==
    ASSUME Types, Control, TaskBooks, SessionBooks, Book, [Next]_vars
    PROVE  Control'
  <1>1. ASSUME NEW s \in Services, ForeignWake(s) PROVE Control'
    <2>1. UNCHANGED <<dead, destroyed, kept, out, pc, run, selfExit, table, tasks>>
      BY <1>1 DEF ForeignWake, OtherEvent, lives, boxes, sets, execs, count, hist
    <2>2. QED
      BY <2>1 DEF Control, PollPC, CleanPC
  <1>2. ASSUME NEW s \in Services, ForeignPush(s) PROVE Control'
    <2>1. UNCHANGED <<dead, destroyed, kept, out, pc, run, selfExit, table, tasks>>
      BY <1>2 DEF ForeignPush, lives, boxes, sets, execs, count, hist
    <2>2. QED
      BY <2>1 DEF Control, PollPC, CleanPC
  <1>3. ASSUME NEW t \in tokens, NEW kind \in Answers, ExternalReply(t, kind) PROVE Control'
    <2>1. UNCHANGED <<dead, destroyed, kept, out, pc, run, selfExit, table, tasks>>
      BY <1>3 DEF ExternalReply, lives, boxes, sets, execs, count, hist
    <2>2. QED
      BY <2>1 DEF Control, PollPC, CleanPC
  <1>4. ASSUME NEW s \in Services, Kill(s) PROVE Control'
    BY <1>4 DEF Kill, Control, PollPC, CleanPC, boxes, sets, execs
  <1>5. ASSUME NEW s \in Services, MarkDead(s) PROVE Control'
    BY <1>5 DEF MarkDead, Control, PollPC, CleanPC, boxes, sets, execs
  <1>6. ASSUME NEW s \in Services, TakeMessage(s) PROVE Control'
    <2>1. /\ pc[s] = "free" /\ s \notin dead /\ UNCHANGED <<lives, execs>>
          /\ \A u \in Services \ {s} : kept'[u] = kept[u]
          /\ tasks[s] \subseteq tasks'[s] /\ \A u \in Services \ {s} : tasks'[u] = tasks[u]
      BY <1>6, TakeIs, InstallIs
    <2>2. QED
      BY <2>1 DEF Control, PollPC, CleanPC, lives, execs
  <1>7. ASSUME NEW s \in Services, TakePending(s) PROVE Control'
    <2>1. /\ pc[s] = "free" /\ s \notin dead /\ UNCHANGED <<lives, execs>>
          /\ \A u \in Services \ {s} : kept'[u] = kept[u]
          /\ tasks[s] \subseteq tasks'[s] /\ \A u \in Services \ {s} : tasks'[u] = tasks[u]
      BY <1>7, PendingIs, InstallIs
    <2>2. QED
      BY <2>1 DEF Control, PollPC, CleanPC, lives, execs
  <1>8. ASSUME NEW s \in Services, TakeReady(s) PROVE Control'
    <2>1. /\ UNCHANGED <<lives, kept, tasks, out>> /\ pc[s] = "free" /\ s \notin dead
          /\ \A u \in Services \ {s} : pc'[u] = pc[u] /\ run'[u] = run[u]
          /\ \/ UNCHANGED <<pc, run>>
             \/ /\ pc'[s] \in {"user", "poll"} /\ run'[s] = Head(ready[s])
                /\ \E k \in tasks[s] : k.id = Head(ready[s])
      BY <1>8 DEF TakeReady, MayTake, Runnable, Goto, PollFrom, Types, ExecTyped
    <2>2. \A k \in tasks[s] : k.id # 0
      BY DEF TaskBooks, Types, SetTyped
    <2>3. QED
      BY <2>1, <2>2 DEF Control, PollPC, CleanPC, lives
  <1>9. ASSUME NEW s \in Services, PollCall(s) PROVE Control'
    <2>1. pc[s] = "poll" /\ pc[s] \in PollPC
      BY <1>9 DEF PollCall, Goto, PollPC
    <2>2. /\ UNCHANGED <<lives, kept, out>>
          /\ \A u \in Services \ {s} : pc'[u] = pc[u] /\ run'[u] = run[u]
          /\ \/ /\ pc'[s] = "free" /\ run'[s] = 0 /\ UNCHANGED tasks
             \/ /\ pc'[s] = "user" /\ run'[s] = run[s]
                /\ tasks' = Update(s, run[s], [Current(s) EXCEPT !.wait = 0])
      BY <1>9 DEF PollCall, boxes, Types, ExecTyped
    <2>3. \/ UNCHANGED tasks
          \/ /\ \E j \in tasks'[s] : j.id = run[s]
             /\ \A u \in Services \ {s} : tasks'[u] = tasks[u]
      BY <2>1, <2>2, WaitChanged
    <2>4. tasks[s] # {}
      BY <2>1, CurrentIs
    <2>5. QED
      BY <2>1, <2>2, <2>3, <2>4 DEF Control, PollPC, CleanPC, lives
  <1>10. ASSUME NEW s \in Services, Abandon(s) PROVE Control'
    <2>1. pc[s] = "poll" /\ pc[s] \in PollPC
      BY <1>10 DEF Abandon, Goto, PollPC
    <2>2. /\ UNCHANGED <<lives, kept, out, run>> /\ pc'[s] = "user"
          /\ \A u \in Services \ {s} : pc'[u] = pc[u]
          /\ tasks' = Update(s, run[s], [Current(s) EXCEPT !.wait = 0])
      BY <1>10 DEF Abandon, Goto, boxes, Types, ExecTyped
    <2>3. /\ \E j \in tasks'[s] : j.id = run[s]
          /\ \A u \in Services \ {s} : tasks'[u] = tasks[u]
      BY <2>1, <2>2, WaitChanged
    <2>4. tasks[s] # {}
      BY <2>1, CurrentIs
    <2>5. QED
      BY <2>1, <2>2, <2>3, <2>4 DEF Control, PollPC, CleanPC, lives
  <1>11. ASSUME NEW s \in Services, NEW d \in Services, Call(s, d) PROVE Control'
    <2>1. pc[s] = "user" /\ pc[s] \in PollPC
      BY <1>11 DEF Call, Goto, PollPC
    <2>2. /\ UNCHANGED <<lives, kept, run>> /\ NewCall(s)
          /\ \/ UNCHANGED <<pc, out, tasks>>
             \/ /\ Waiting(s) /\ pc'[s] = "push" /\ out'[s].to = d
                /\ out'[s].msg.kind = "call"
                /\ \A u \in Services \ {s} : pc'[u] = pc[u] /\ out'[u] = out[u]
      BY <1>11 DEF Call, boxes, Types, ExecTyped
    <2>3. \/ UNCHANGED tasks
          \/ /\ \E j \in tasks'[s] : j.id = run[s]
             /\ \A u \in Services \ {s} : tasks'[u] = tasks[u]
      BY <2>1, <2>2, WaitingIs
    <2>4. tasks[s] # {}
      BY <2>1, CurrentIs
    <2>5. QED
      BY <2>1, <2>2, <2>3, <2>4 DEF Control, PollPC, CleanPC, lives, Requests
  <1>12. ASSUME NEW s \in Services, NEW d \in Services, Post(s, d) PROVE Control'
    <2>1. /\ UNCHANGED <<lives, kept, run, tasks>> /\ pc[s] = "user" /\ pc'[s] = "push"
          /\ out'[s].to = d /\ out'[s].msg.kind = "post"
          /\ \A u \in Services \ {s} : pc'[u] = pc[u] /\ out'[u] = out[u]
      BY <1>12 DEF Post, Goto, NoMessage, boxes, sets, Types, ExecTyped
    <2>2. QED
      BY <2>1 DEF Control, PollPC, CleanPC, lives, Requests
  <1>13. ASSUME NEW s \in Services, Push(s) PROVE Control'
    <2>1. /\ UNCHANGED <<lives, kept, run, tasks>> /\ pc[s] = "push"
          /\ pc'[s] \in {"poll", "user"} /\ out'[s] = Nothing
          /\ \A u \in Services \ {s} : pc'[u] = pc[u] /\ out'[u] = out[u]
      BY <1>13, PushIs DEF sets
    <2>2. QED
      BY <2>1 DEF Control, PollPC, CleanPC, lives
  <1>14. ASSUME NEW s \in Services, CallExternal(s) PROVE Control'
    <2>1. pc[s] = "user" /\ pc[s] \in PollPC
      BY <1>14 DEF CallExternal, Goto, PollPC
    <2>2. /\ UNCHANGED <<lives, kept, run, out>> /\ NewCall(s) /\ Waiting(s)
          /\ pc'[s] = "poll" /\ \A u \in Services \ {s} : pc'[u] = pc[u]
      BY <1>14 DEF CallExternal, Goto, boxes, Types, ExecTyped
    <2>3. /\ \E j \in tasks'[s] : j.id = run[s]
          /\ \A u \in Services \ {s} : tasks'[u] = tasks[u]
      BY <2>1, <2>2, WaitingIs
    <2>4. tasks[s] # {}
      BY <2>1, CurrentIs
    <2>5. QED
      BY <2>1, <2>2, <2>3, <2>4 DEF Control, PollPC, CleanPC, lives
  <1>15. ASSUME NEW s \in Services, NEW kind \in Answers, UserReply(s, kind) PROVE Control'
    <2>1. pc[s] = "user" /\ pc[s] \in PollPC
      BY <1>15 DEF UserReply, Goto, PollPC
    <2>2. /\ UNCHANGED <<lives, kept, execs>>
          /\ tasks' = Update(s, run[s], [Current(s) EXCEPT !.replied = TRUE])
      BY <1>15 DEF UserReply
    <2>3. /\ \E j \in tasks'[s] : j.id = run[s]
          /\ \A u \in Services \ {s} : tasks'[u] = tasks[u]
      BY <2>1, <2>2, ReplyNoted
    <2>4. tasks[s] # {}
      BY <2>1, CurrentIs
    <2>5. QED
      BY <2>1, <2>2, <2>3, <2>4 DEF Control, PollPC, CleanPC, lives, execs
  <1>16. ASSUME NEW s \in Services, Spawn(s) PROVE Control'
    <2>1. pc[s] = "user" /\ pc[s] \in PollPC
      BY <1>16 DEF Spawn, Goto, PollPC
    <2>2. UNCHANGED <<lives, kept, execs>> /\ InstallTask(s, NoMessage)
      BY <1>16 DEF Spawn
    <2>3. tasks[s] \subseteq tasks'[s] /\ \A u \in Services \ {s} : tasks'[u] = tasks[u]
      BY <2>2, InstallIs, RecordsTyped
    <2>4. tasks[s] # {}
      BY <2>1, CurrentIs
    <2>5. QED
      BY <2>1, <2>2, <2>3, <2>4 DEF Control, PollPC, CleanPC, lives, execs
  <1>17. ASSUME NEW s \in Services, Exit(s) PROVE Control'
    <2>1. /\ UNCHANGED <<destroyed, kept, run, out, tasks>>
          /\ table' = table \ {s} /\ dead' = dead \cup {s} /\ selfExit' \subseteq selfExit \cup {s}
          /\ pc[s] = "user" /\ pc'[s] = "exit" /\ \A u \in Services \ {s} : pc'[u] = pc[u]
      BY <1>17 DEF Exit, Goto, Retired, boxes, sets, Types, ExecTyped
    <2>2. QED
      BY <2>1 DEF Control, PollPC, CleanPC
  <1>18. ASSUME NEW s \in Services, FailOne(s) PROVE Control'
    <2>1. UNCHANGED <<lives, kept, execs>>
      BY <1>18 DEF FailOne
    <2>2. PICK k \in tasks[s], j \in Tasks :
             /\ j.id = k.id /\ tasks'[s] = (tasks[s] \ {k}) \cup {j}
             /\ \A u \in Services \ {s} : tasks'[u] = tasks[u]
      BY <1>18, Failed
    <2>3. ASSUME NEW i \in tasks[s] PROVE \E l \in tasks'[s] : l.id = i.id
      BY <2>2
    <2>4. run[s] # 0 => \E l \in tasks'[s] : l.id = run[s]
      BY <2>3 DEF Control
    <2>5. QED
      BY <2>1, <2>2, <2>4 DEF Control, PollPC, CleanPC, lives, execs
  <1>19. ASSUME NEW s \in Services, ExitFails(s), ~FailOne(s) PROVE Control'
    <2>1. /\ UNCHANGED <<lives, kept, run, out, tasks>>
          /\ pc[s] = "exit" /\ pc'[s] \in {"return", "user"}
          /\ \A u \in Services \ {s} : pc'[u] = pc[u]
      BY <1>19 DEF ExitFails, Goto, boxes, sets, Types, ExecTyped
    <2>2. QED
      BY <2>1 DEF Control, PollPC, CleanPC, lives
  <1>20. ASSUME NEW s \in Services, InitFails(s) PROVE Control'
    <2>1. /\ UNCHANGED <<destroyed, selfExit, kept, run, out, tasks>>
          /\ \/ table' = table \ {s} /\ dead' = dead \cup {s} /\ pc'[s] = "exit"
             \/ UNCHANGED <<table, dead>> /\ pc'[s] = "return"
          /\ pc[s] = "user" /\ \A u \in Services \ {s} : pc'[u] = pc[u]
      BY <1>20 DEF InitFails, Goto, Retired, boxes, sets, Types, ExecTyped
    <2>2. QED
      BY <2>1 DEF Control, PollPC, CleanPC
  <1>21. ASSUME NEW s \in Services, Return(s) PROVE Control'
    <2>1. /\ UNCHANGED <<table, dead, destroyed, selfExit, kept, out>>
          /\ pc[s] \in {"user", "return"} /\ pc'[s] = "free" /\ run'[s] = 0
          /\ tasks'[s] \subseteq tasks[s]
          /\ \A u \in Services \ {s} : pc'[u] = pc[u] /\ run'[u] = run[u] /\ tasks'[u] = tasks[u]
      BY <1>21 DEF Return, Goto, boxes, Types, ExecTyped, SetTyped
    <2>2. QED
      BY <2>1 DEF Control, PollPC, CleanPC
  <1>22. ASSUME NEW s \in Services, Cleanup(s) PROVE Control'
    <2>1. /\ UNCHANGED <<lives, kept, run, out, tasks>> /\ s \in dead
          /\ pc[s] = "free" /\ pc'[s] = "fail" /\ \A u \in Services \ {s} : pc'[u] = pc[u]
      BY <1>22 DEF Cleanup, Goto, boxes, sets, Types, ExecTyped
    <2>2. QED
      BY <2>1 DEF Control, PollPC, CleanPC, lives
  <1>23. ASSUME NEW s \in Services, CleanDrops(s) PROVE Control'
    <2>1. /\ UNCHANGED <<lives, run, out>> /\ tasks'[s] = {}
          /\ pc[s] = "fail" /\ pc'[s] = "refuse"
          /\ \A u \in Services \ {s} : pc'[u] = pc[u] /\ tasks'[u] = tasks[u] /\ kept'[u] = kept[u]
      BY <1>23 DEF CleanDrops, DropAll, Goto, Types, ExecTyped, SetTyped, BoxTyped
    <2>2. QED
      BY <2>1 DEF Control, PollPC, CleanPC, lives
  <1>24. ASSUME NEW s \in Services, CleanRefuses(s) PROVE Control'
    <2>1. /\ UNCHANGED <<lives, execs, tasks>> /\ pc[s] = "refuse"
          /\ \A u \in Services \ {s} : kept'[u] = kept[u]
      BY <1>24 DEF CleanRefuses, sets, Types, BoxTyped
    <2>2. QED
      BY <2>1 DEF Control, PollPC, CleanPC, lives, execs
  <1>25. ASSUME NEW s \in Services, CleanReleases(s) PROVE Control'
    <2>1. /\ UNCHANGED <<table, dead, selfExit, kept, tasks, run, out>>
          /\ pc[s] = "refuse" /\ kept[s] = <<>> /\ pc'[s] \in {"free", "fail"}
          /\ destroyed' \in {destroyed, destroyed \cup {s}}
          /\ \A u \in Services \ {s} : pc'[u] = pc[u]
      BY <1>25 DEF CleanReleases, Goto, boxes, sets, Types, ExecTyped
    <2>2. QED
      BY <2>1 DEF Control, PollPC, CleanPC
  <1>26. ASSUME UNCHANGED vars PROVE Control'
    <2>1. UNCHANGED <<dead, destroyed, kept, out, pc, run, selfExit, table, tasks>>
      BY <1>26 DEF vars, lives, boxes, sets, execs, count, hist
    <2>2. QED
      BY <2>1 DEF Control, PollPC, CleanPC
  <1>27. QED
    BY <1>1, <1>2, <1>3, <1>4, <1>5, <1>6, <1>7, <1>8, <1>9, <1>10, <1>11, <1>12, <1>13,
       <1>14, <1>15, <1>16, <1>17, <1>18, <1>19, <1>20, <1>21, <1>22, <1>23, <1>24, <1>25,
       <1>26
    DEF Next, Environment, Execute, User, CleanFails, ExitFails

-----------------------------------------------------------------------------
(* The other actions, taken apart in the same way.  Waking a task:         *)
LEMMA WakeIs ==
    ASSUME Types, NEW s \in Services, NEW id \in Nat, WakeTask(s, id)
    PROVE  /\ \A u \in Services \ {s} : ready'[u] = ready[u] /\ signal'[u] = signal[u]
           /\ ready[s] \in Seq(Nat)
           /\ \/ id \in signal[s] /\ ready'[s] = ready[s] /\ signal'[s] = signal[s]
              \/ /\ id \notin signal[s] /\ ready'[s] = Append(ready[s], id)
                 /\ Elems(ready'[s]) = Elems(ready[s]) \cup {id}
                 /\ signal'[s] = signal[s] \cup {id}
  <1>1. ready[s] \in Seq(Nat)
    BY DEF Types, BoxTyped
  <1>2. Elems(Append(ready[s], id)) = Elems(ready[s]) \cup {id}
    BY <1>1, AppendElems
  <1>3. QED
    BY <1>1, <1>2 DEF WakeTask, Types, BoxTyped, SetTyped

(* complete: the session that waits is replaced by its settled form, and   *)
(* its task is woken.                                                      *)
LEMMA CompleteIs ==
    ASSUME Types, SessionBooks, NEW s \in Services, NEW m \in Messages, m.kind \in Answers,
           Complete(s, m)
    PROVE  /\ \A u \in Services \ {s} : /\ slots'[u] = slots[u] /\ ready'[u] = ready[u]
                                        /\ signal'[u] = signal[u]
           /\ \/ /\ \A k \in slots[s] : k.session = m.session => k.result # "none"
                 /\ UNCHANGED <<slots, ready, signal>>
              \/ /\ \E k \in slots[s], l \in Sessions :
                      /\ k.session = m.session /\ k.result = "none"
                      /\ l.session = k.session /\ l.call = k.call /\ l.result = m.kind
                      /\ slots'[s] = (slots[s] \ {k}) \cup {l}
                 /\ \/ \E j \in tasks[s] : j.wait = m.session /\ j.id \in Nat /\ WakeTask(s, j.id)
                    \/ (\A j \in tasks[s] : j.wait # m.session) /\ UNCHANGED <<ready, signal>>
  <1>1. CASE ~WaitsFor(s, m) /\ UNCHANGED <<slots, ready, signal>>
    BY <1>1 DEF WaitsFor, Slot
  <1>2. CASE WaitsFor(s, m) /\ Settle(s, m)
    <2>1. PICK k \in slots[s] : k.session = m.session /\ k.result = "none"
      BY <1>2 DEF WaitsFor, Slot
    <2>2. Slot(s, m.session) = {k}
      BY <2>1 DEF SessionBooks, Slot
    <2> DEFINE l == [k EXCEPT !.result = m.kind]
    <2>3. /\ l \in Sessions /\ l.session = k.session /\ l.call = k.call /\ l.result = m.kind
      BY DEF Types, SetTyped, Sessions
    <2>4. slots' = [slots EXCEPT ![s] = (@ \ {k}) \cup {l}]
      BY <1>2, <2>2 DEF Settle
    <2> HIDE DEF l
    <2>5. slots'[s] = (slots[s] \ {k}) \cup {l} /\ \A u \in Services \ {s} : slots'[u] = slots[u]
      BY <2>4 DEF Types, SetTyped
    <2>6. \/ \E j \in tasks[s] : j.wait = m.session /\ j.id \in Nat /\ WakeTask(s, j.id)
          \/ (\A j \in tasks[s] : j.wait # m.session) /\ UNCHANGED <<ready, signal>>
      BY <1>2 DEF Settle, Types, SetTyped, Tasks
    <2>7. \A u \in Services \ {s} : ready'[u] = ready[u] /\ signal'[u] = signal[u]
      BY <2>6, WakeIs
    <2>8. \E i \in slots[s], h \in Sessions :
            /\ i.session = m.session /\ i.result = "none"
            /\ h.session = i.session /\ h.call = i.call /\ h.result = m.kind
            /\ slots'[s] = (slots[s] \ {i}) \cup {h}
      BY <2>1, <2>3, <2>5, Zenon
    <2>9. QED
      BY <2>5, <2>6, <2>7, <2>8
  <1>3. QED
    BY <1>1, <1>2 DEF Complete

(* poll_task *)
LEMMA ReadyIs ==
    ASSUME Types, NEW s \in Services, TakeReady(s), NEW id, id = Head(ready[s])
    PROVE  /\ pc[s] = "free" /\ ready[s] # <<>> /\ ready[s] \in Seq(Nat) /\ id \in Nat
           /\ ready'[s] = Tail(ready[s]) /\ Elems(ready[s]) = Elems(ready'[s]) \cup {id}
           /\ \A u \in Services \ {s} : /\ ready'[u] = ready[u] /\ signal'[u] = signal[u]
                                        /\ run'[u] = run[u]
           /\ \/ /\ \E k \in tasks[s] : k.id = id
                 /\ signal'[s] = signal[s] \ {id} /\ run'[s] = id
              \/ (\A k \in tasks[s] : k.id # id) /\ UNCHANGED <<signal, run>>
           /\ UNCHANGED <<lives, inbox, kept, tasks, generation, slots, next, out, tokens,
                          waking, count, hist>>
  <1>1. ready[s] \in Seq(Nat) /\ ready[s] # <<>> /\ pc[s] = "free"
    BY DEF TakeReady, MayTake, Runnable, Types, BoxTyped
  <1>2. id \in Nat /\ Elems(ready[s]) = Elems(Tail(ready[s])) \cup {id}
    BY <1>1, Shortened, TailElems
  <1>3. ready' = [ready EXCEPT ![s] = Tail(@)]
    BY DEF TakeReady
  <1>4. ready'[s] = Tail(ready[s]) /\ \A u \in Services \ {s} : ready'[u] = ready[u]
    BY <1>3 DEF Types, BoxTyped
  <1>5. /\ \/ /\ \E k \in tasks[s] : k.id = id
              /\ signal' = [signal EXCEPT ![s] = @ \ {id}] /\ run' = [run EXCEPT ![s] = id]
           \/ (\A k \in tasks[s] : k.id # id) /\ UNCHANGED <<signal, run>>
        /\ UNCHANGED <<lives, inbox, kept, tasks, generation, slots, next, out, tokens,
                       waking, count, hist>>
    BY DEF TakeReady
  <1>6. QED
    BY <1>1, <1>2, <1>4, <1>5 DEF Types, SetTyped, ExecTyped

(* Call::poll *)
LEMMA PollIs ==
    ASSUME Types, Control, TaskBooks, SessionBooks, NEW s \in Services, PollCall(s)
    PROVE  /\ pc[s] \in PollPC
           /\ UNCHANGED <<lives, boxes, signal, generation, next, out, tokens, waking, count, hist>>
           /\ \A u \in Services \ {s} : /\ run'[u] = run[u] /\ slots'[u] = slots[u]
                                        /\ tasks'[u] = tasks[u]
           /\ \/ /\ run'[s] = 0 /\ UNCHANGED <<slots, tasks>>
                 /\ \E k \in slots[s] : k.session = Current(s).wait /\ k.result = "none"
              \/ /\ run'[s] = run[s]
                 /\ slots'[s] = {k \in slots[s] : k.session # Current(s).wait}
                 /\ \E j \in Tasks :
                      /\ j.id = run[s] /\ j.wait = 0 /\ j.msg = Current(s).msg
                      /\ j.owed = Current(s).owed
                      /\ tasks'[s] = (tasks[s] \ {Current(s)}) \cup {j}
  <1> DEFINE n == Current(s).wait
  <1>1. /\ pc[s] = "poll" /\ pc[s] \in PollPC
        /\ UNCHANGED <<lives, boxes, signal, generation, next, out, tokens, waking, count, hist>>
        /\ \A u \in Services \ {s} : run'[u] = run[u]
    BY DEF PollCall, PollPC, Types, ExecTyped
  <1>2. CASE /\ HasSlot(s, n) /\ TheSlot(s, n).result = "none"
             /\ run' = [run EXCEPT ![s] = 0] /\ UNCHANGED <<slots, tasks>>
    <2>1. \E k \in slots[s] : k.session = n /\ k.result = "none"
      BY <1>2, SlotIs
    <2>2. QED
      BY <1>1, <1>2, <2>1 DEF Types, ExecTyped
  <1>3. CASE /\ slots' = [slots EXCEPT ![s] = @ \ Slot(s, n)]
             /\ tasks' = Update(s, run[s], [Current(s) EXCEPT !.wait = 0]) /\ UNCHANGED run
    <2>1. /\ slots'[s] = {k \in slots[s] : k.session # n}
          /\ \A u \in Services \ {s} : slots'[u] = slots[u]
      BY <1>3 DEF Slot, Types, SetTyped
    <2>2. \E j \in Tasks :
            /\ j.id = run[s] /\ j.wait = 0 /\ j.msg = Current(s).msg /\ j.owed = Current(s).owed
            /\ tasks'[s] = (tasks[s] \ {Current(s)}) \cup {j}
            /\ \A u \in Services \ {s} : tasks'[u] = tasks[u]
      BY <1>1, <1>3, WaitChanged
    <2>3. QED
      BY <1>1, <1>3, <2>1, <2>2
  <1>4. QED
    BY <1>2, <1>3 DEF PollCall

(* Drop for Call *)
LEMMA AbandonIs ==
    ASSUME Types, Control, TaskBooks, NEW s \in Services, Abandon(s)
    PROVE  /\ pc[s] \in PollPC /\ Current(s).wait # 0
           /\ UNCHANGED <<lives, boxes, signal, generation, next, run, out, waking, count, hist>>
           /\ \A u \in Services \ {s} : slots'[u] = slots[u] /\ tasks'[u] = tasks[u]
           /\ slots'[s] = {k \in slots[s] : k.session # Current(s).wait}
           /\ tokens' \subseteq tokens
           /\ \A t \in tokens : t \in tokens' \/ (t.from = s /\ t.session = Current(s).wait)
           /\ \E j \in Tasks :
                /\ j.id = run[s] /\ j.wait = 0 /\ j.msg = Current(s).msg
                /\ j.owed = Current(s).owed
                /\ tasks'[s] = (tasks[s] \ {Current(s)}) \cup {j}
  <1>1. /\ pc[s] = "poll" /\ pc[s] \in PollPC /\ Current(s).wait # 0
        /\ UNCHANGED <<lives, boxes, signal, generation, next, run, out, waking, count, hist>>
    BY DEF Abandon, Goto, PollPC
  <1>2. /\ tokens' \subseteq tokens
        /\ \A t \in tokens : t \in tokens' \/ (t.from = s /\ t.session = Current(s).wait)
    BY DEF Abandon
  <1>3. /\ slots'[s] = {k \in slots[s] : k.session # Current(s).wait}
        /\ \A u \in Services \ {s} : slots'[u] = slots[u]
    BY DEF Abandon, Slot, Types, SetTyped
  <1>4. tasks' = Update(s, run[s], [Current(s) EXCEPT !.wait = 0])
    BY DEF Abandon
  <1>5. \E j \in Tasks :
          /\ j.id = run[s] /\ j.wait = 0 /\ j.msg = Current(s).msg /\ j.owed = Current(s).owed
          /\ tasks'[s] = (tasks[s] \ {Current(s)}) \cup {j}
          /\ \A u \in Services \ {s} : tasks'[u] = tasks[u]
    BY <1>1, <1>4, WaitChanged
  <1>6. QED
    BY <1>1, <1>2, <1>3, <1>5

(* Ctx::call, with a receiver or without one. *)
LEMMA CallIs ==
    ASSUME Types, NEW s \in Services, NEW d \in Services, Call(s, d)
    PROVE  /\ pc[s] \in PollPC /\ pc[s] # "push" /\ NewCall(s)
           /\ UNCHANGED <<lives, boxes, signal, generation, run, tokens, waking, others, hist>>
           /\ calls \in Nat /\ calls' = calls + 1 /\ next[s] \in Nat /\ next'[s] = next[s] + 1
           /\ \A u \in Services \ {s} : next'[u] = next[u] /\ out'[u] = out[u]
           /\ \/ /\ Waiting(s) /\ out'[s].msg \in Messages
                 /\ out'[s].msg.kind = "call" /\ out'[s].msg.from = s
                 /\ out'[s].msg.session = next[s] + 1 /\ out'[s].msg.call = calls + 1
              \/ UNCHANGED <<slots, tasks, out>>
  <1>1. /\ pc[s] \in PollPC /\ pc[s] # "push" /\ NewCall(s)
        /\ UNCHANGED <<lives, boxes, signal, generation, run, tokens, waking, others, hist>>
    BY DEF Call, PollPC
  <1>2. calls \in Nat /\ next[s] \in Nat
    BY DEF Types, CountTyped, SetTyped
  <1>3. /\ calls' = calls + 1 /\ next'[s] = next[s] + 1
        /\ \A u \in Services \ {s} : next'[u] = next[u]
    BY <1>1 DEF NewCall, Alloc, Types, SetTyped
  <1> DEFINE m == [kind |-> "call", from |-> s, session |-> next[s] + 1, call |-> calls + 1, seq |-> 0]
  <1>4. /\ m \in Messages /\ m.kind = "call" /\ m.from = s /\ m.session = next[s] + 1
        /\ m.call = calls + 1
    BY <1>2 DEF Messages, Kinds, Requests
  <1>5. \/ Waiting(s) /\ out' = [out EXCEPT ![s] = [to |-> d, msg |-> m]]
        \/ UNCHANGED <<slots, tasks, out>>
    BY <1>3 DEF Call, Alloc
  <1> HIDE DEF m
  <1>6. QED
    BY <1>1, <1>2, <1>3, <1>4, <1>5 DEF Types, ExecTyped

(* Ctx::call_external and sleep *)
LEMMA ExternalIs ==
    ASSUME Types, NEW s \in Services, CallExternal(s)
    PROVE  /\ pc[s] \in PollPC /\ pc[s] # "push" /\ NewCall(s) /\ Waiting(s)
           /\ UNCHANGED <<lives, boxes, signal, generation, run, out, waking, others, hist>>
           /\ calls \in Nat /\ calls' = calls + 1 /\ next[s] \in Nat /\ next'[s] = next[s] + 1
           /\ \A u \in Services \ {s} : next'[u] = next[u]
           /\ \E t \in Tokens : /\ t.from = s /\ t.session = next[s] + 1 /\ t.call = calls + 1
                                /\ tokens' = tokens \cup {t}
  <1>1. /\ pc[s] \in PollPC /\ pc[s] # "push" /\ NewCall(s) /\ Waiting(s)
        /\ UNCHANGED <<lives, boxes, signal, generation, run, out, waking, others, hist>>
    BY DEF CallExternal, Goto, PollPC
  <1>2. calls \in Nat /\ next[s] \in Nat
    BY DEF Types, CountTyped, SetTyped
  <1>3. /\ calls' = calls + 1 /\ next'[s] = next[s] + 1
        /\ \A u \in Services \ {s} : next'[u] = next[u]
    BY <1>1 DEF NewCall, Alloc, Types, SetTyped
  <1> DEFINE t == [from |-> s, session |-> next[s] + 1, call |-> calls + 1]
  <1>4. t \in Tokens /\ t.from = s /\ t.session = next[s] + 1 /\ t.call = calls + 1
    BY <1>2 DEF Tokens
  <1>5. tokens' = tokens \cup {t}
    BY <1>3 DEF CallExternal, Alloc
  <1> HIDE DEF t
  <1>6. QED
    BY <1>1, <1>2, <1>3, <1>4, <1>5

(* Ctx::reply and reply_error *)
LEMMA UserReplyIs ==
    ASSUME Types, Control, TaskBooks, Book, NEW s \in Services, NEW kind \in Answers,
           UserReply(s, kind)
    PROVE  /\ pc[s] \in PollPC /\ Asked(Current(s).msg) /\ SendReply(kind, Current(s).msg)
           /\ UNCHANGED <<lives, ready, kept, signal, generation, slots, next, execs, count,
                          forgotten, sent, last>>
           /\ \A u \in Services \ {s} : tasks'[u] = tasks[u]
           /\ \E j \in Tasks :
                /\ j.id = run[s] /\ j.wait = Current(s).wait /\ j.msg = Current(s).msg
                /\ j.owed = Current(s).owed
                /\ tasks'[s] = (tasks[s] \ {Current(s)}) \cup {j}
  <1>1. /\ pc[s] \in PollPC /\ SendReply(kind, Current(s).msg) /\ Current(s).msg.kind = "call"
        /\ UNCHANGED <<lives, ready, kept, signal, generation, slots, next, execs, count,
                       forgotten, sent, last>>
        /\ tasks' = Update(s, run[s], [Current(s) EXCEPT !.replied = TRUE])
    BY DEF UserReply, PollPC
  <1>2. Current(s) \in tasks[s] /\ Current(s).msg \in Messages
    BY <1>1, CurrentIs DEF Tasks
  <1>3. Asked(Current(s).msg)
    BY <1>1, <1>2, AskedMessage
  <1>4. QED
    BY <1>1, <1>3, ReplyNoted

(* A future that is ready *)
LEMMA ReturnIs ==
    ASSUME Types, NEW s \in Services, Return(s)
    PROVE  /\ pc[s] \in PollPC
           /\ UNCHANGED <<table, dead, destroyed, selfExit, boxes, signal, generation, slots,
                          next, out, tokens, waking, count, first, sent, last>>
           /\ run'[s] = 0 /\ tasks'[s] = tasks[s] \ {Current(s)}
           /\ \A u \in Services \ {s} : run'[u] = run[u] /\ tasks'[u] = tasks[u]
           /\ forgotten \subseteq forgotten'
           /\ Current(s).owed /\ first[Current(s).msg.call] = "none"
                => Current(s).msg.call \in forgotten'
  <1>1. /\ pc[s] \in PollPC /\ run' = [run EXCEPT ![s] = 0]
        /\ tasks' = [tasks EXCEPT ![s] = @ \ {Current(s)}]
        /\ UNCHANGED <<table, dead, destroyed, selfExit, boxes, signal, generation, slots,
                       next, out, tokens, waking, count, first, sent, last>>
    BY DEF Return, Goto, PollPC
  <1>2. /\ forgotten \subseteq forgotten'
        /\ Current(s).owed /\ first[Current(s).msg.call] = "none"
                => Current(s).msg.call \in forgotten'
    BY DEF Return
  <1>3. QED
    BY <1>1, <1>2 DEF Types, ExecTyped, SetTyped

(* cleanup drops tasks, sessions and the mailbox, *)
LEMMA DropIs ==
    ASSUME Types, Control, NEW s \in Services, CleanDrops(s)
    PROVE  /\ s \in dead /\ \A k \in tasks[s] : ~k.owed
           /\ UNCHANGED <<lives, signal, generation, next, run, out, tokens, waking, count, hist>>
           /\ tasks'[s] = {} /\ slots'[s] = {} /\ ready'[s] = <<>> /\ inbox'[s] = <<>>
           /\ Elems(kept'[s]) = Elems(inbox[s]) \cup Elems(kept[s])
           /\ \A u \in Services \ {s} :
                /\ tasks'[u] = tasks[u] /\ slots'[u] = slots[u] /\ ready'[u] = ready[u]
                /\ inbox'[u] = inbox[u] /\ kept'[u] = kept[u]
  <1>1. /\ pc[s] = "fail" /\ NoneOwed(s)
        /\ UNCHANGED <<lives, signal, generation, next, run, out, tokens, waking, count, hist>>
        /\ tasks' = [tasks EXCEPT ![s] = {}] /\ slots' = [slots EXCEPT ![s] = {}]
        /\ ready' = [ready EXCEPT ![s] = <<>>] /\ inbox' = [inbox EXCEPT ![s] = <<>>]
        /\ kept' = [kept EXCEPT ![s] = inbox[s] \o @]
    BY DEF CleanDrops, DropAll, Goto
  <1>2. s \in dead
    BY <1>1 DEF Control, CleanPC
  <1>3. inbox[s] \in Seq(Messages) /\ kept[s] \in Seq(Messages)
    BY DEF Types, BoxTyped
  <1>4. Elems(inbox[s] \o kept[s]) = Elems(inbox[s]) \cup Elems(kept[s])
    BY <1>3, ConcatElems
  <1>5. kept'[s] = inbox[s] \o kept[s]
    BY <1>1 DEF Types, BoxTyped
  <1>6. QED
    BY <1>1, <1>2, <1>4, <1>5 DEF NoneOwed, Types, BoxTyped, SetTyped

(* and refuses what was in it. *)
LEMMA RefuseIs ==
    ASSUME Types, Control, Book, NEW s \in Services, CleanRefuses(s), NEW m, m = Head(kept[s])
    PROVE  /\ s \in dead /\ kept[s] # <<>> /\ m \in Messages
           /\ kept'[s] = Tail(kept[s]) /\ \A u \in Services \ {s} : kept'[u] = kept[u]
           /\ Elems(kept[s]) = Elems(kept'[s]) \cup {m}
           /\ UNCHANGED <<lives, ready, sets, execs, count, forgotten, sent, last>>
           /\ \/ m.kind = "call" /\ Asked(m) /\ SendReply("ERROR", m)
              \/ m.kind # "call" /\ UNCHANGED <<inbox, first>>
  <1>1. /\ pc[s] = "refuse" /\ kept[s] # <<>> /\ kept' = [kept EXCEPT ![s] = Tail(@)]
        /\ UNCHANGED <<lives, ready, sets, execs, count, forgotten, sent, last>>
        /\ IF m.kind = "call" THEN SendReply("ERROR", m) ELSE UNCHANGED <<inbox, first>>
    BY DEF CleanRefuses
  <1>2. s \in dead
    BY <1>1 DEF Control, CleanPC
  <1>3. /\ kept'[s] = Tail(kept[s]) /\ \A u \in Services \ {s} : kept'[u] = kept[u]
    BY <1>1 DEF Types, BoxTyped
  <1>4. m \in Messages /\ Elems(kept[s]) = Elems(kept'[s]) \cup {m}
    BY <1>1, <1>3, HeadMessage
  <1>5. m.kind = "call" => Asked(m)
    BY <1>4, AskedMessage
  <1>6. QED
    BY <1>1, <1>2, <1>3, <1>4, <1>5

-----------------------------------------------------------------------------
(* Tasks keep their books when one is added, *)
LEMMA BooksGrow ==
    ASSUME Types, TaskBooks, NEW s \in Services, NEW m \in Messages, InstallTask(s, m),
           UNCHANGED next
    PROVE  TaskBooks'
  <1>1. /\ tasks'[s] = tasks[s] \cup {NewTask(s, m)} /\ NewTask(s, m).id = generation[s] + 1
        /\ NewTask(s, m).msg = m /\ NewTask(s, m).wait = 0
        /\ NewTask(s, m).owed = (m.kind = "call")
        /\ generation[s] \in Nat /\ generation'[s] = generation[s] + 1
        /\ \A u \in Services \ {s} : tasks'[u] = tasks[u] /\ generation'[u] = generation[u]
    BY InstallIs
  <1>2. next[s] \in Nat
    BY DEF Types, SetTyped
  <1>3. \A k \in tasks[s] : k.id \in 1..generation[s]
    BY DEF TaskBooks
  <1>4. \A k \in tasks'[s] : k.id \in 1..generation'[s] /\ k.wait <= next'[s]
    BY <1>1, <1>2 DEF TaskBooks
  <1>5. \A k \in tasks'[s] : k.owed => k.msg.kind = "call"
    BY <1>1 DEF TaskBooks
  <1>6. \A j, k \in tasks'[s] : j.id = k.id => j = k
    BY <1>1, <1>3 DEF TaskBooks
  <1>7. \A j, k \in tasks'[s] : j.wait = k.wait /\ j.wait # 0 => j = k
    BY <1>1 DEF TaskBooks
  <1>8. QED
    BY <1>1, <1>4, <1>5, <1>6, <1>7 DEF TaskBooks

(* when one is replaced, *)
LEMMA BooksReplace ==
    ASSUME Types, TaskBooks, NEW s \in Services, NEW k \in tasks[s], NEW j,
           tasks'[s] = (tasks[s] \ {k}) \cup {j}, j.id = k.id, j.msg = k.msg, j.owed => k.owed,
           j.wait \in Nat, j.wait <= next'[s],
           j.wait # 0 => \A i \in tasks[s] \ {k} : i.wait # j.wait,
           \A u \in Services \ {s} : tasks'[u] = tasks[u],
           UNCHANGED generation,
           \A u \in Services : next[u] \in Nat /\ next'[u] \in Nat /\ next[u] <= next'[u]
    PROVE  TaskBooks'
  <1>0. \A u \in Services : \A i \in tasks[u] : i.wait \in Nat /\ i.wait <= next[u]
    BY DEF TaskBooks, Types, SetTyped, Tasks
  <1>1. \A i \in tasks'[s] : i.id \in 1..generation'[s] /\ i.wait <= next'[s]
    BY <1>0 DEF TaskBooks
  <1>2. \A i \in tasks'[s] : i.owed => i.msg.kind = "call"
    BY DEF TaskBooks
  <1>3. \A h, i \in tasks'[s] : h.id = i.id => h = i
    BY DEF TaskBooks
  <1>4. \A h, i \in tasks'[s] : h.wait = i.wait /\ h.wait # 0 => h = i
    BY DEF TaskBooks
  <1>5. ASSUME NEW u \in Services \ {s}, NEW i \in tasks'[u]
        PROVE  i.id \in 1..generation'[u] /\ i.wait <= next'[u]
    BY <1>0 DEF TaskBooks
  <1>6. QED
    BY <1>1, <1>2, <1>3, <1>4, <1>5 DEF TaskBooks

(* and when some are removed. *)
LEMMA BooksShrink ==
    ASSUME TaskBooks, \A u \in Services : tasks'[u] \subseteq tasks[u], UNCHANGED <<generation, next>>
    PROVE  TaskBooks'
  BY DEF TaskBooks

(* The task in hand, with another session to wait for or none. *)
LEMMA BooksWait ==
    ASSUME Types, Control, TaskBooks, NEW s \in Services, pc[s] \in PollPC, NEW j \in Tasks,
           tasks'[s] = (tasks[s] \ {Current(s)}) \cup {j}, j.id = run[s], j.msg = Current(s).msg,
           j.owed = Current(s).owed,
           j.wait \in {0, Current(s).wait} \/ (j.wait = next[s] + 1 /\ next'[s] = next[s] + 1),
           \A u \in Services \ {s} : tasks'[u] = tasks[u],
           UNCHANGED generation,
           \A u \in Services : next'[u] = next[u] \/ (u = s /\ next'[u] = next[u] + 1)
    PROVE  TaskBooks'
  <1>1. Current(s) \in tasks[s] /\ Current(s) \in Tasks /\ Current(s).id = run[s]
    BY CurrentIs
  <1>2. \A i \in tasks[s] : i.wait \in Nat /\ i.wait <= next[s]
    BY DEF TaskBooks, Types, SetTyped, Tasks
  <1>3. \A u \in Services : next[u] \in Nat /\ next'[u] \in Nat /\ next[u] <= next'[u]
    BY DEF Types, SetTyped
  <1>4. j.wait \in Nat /\ j.wait <= next'[s]
    BY <1>1, <1>2, <1>3 DEF Tasks
  <1>5. j.wait # 0 => \A i \in tasks[s] \ {Current(s)} : i.wait # j.wait
    BY <1>1, <1>2, <1>3 DEF TaskBooks
  <1>6. QED
    BY <1>1, <1>3, <1>4, <1>5, BooksReplace

(* Every step keeps the books on tasks, *)
LEMMA BooksStep ==
    ASSUME Types, Control, TaskBooks, SessionBooks, Book, [Next]_vars
    PROVE  TaskBooks'
  <1>1. ASSUME NEW s \in Services, ForeignWake(s) PROVE TaskBooks'
    <2>1. UNCHANGED <<generation, next, tasks>>
      BY <1>1 DEF ForeignWake, OtherEvent, lives, boxes, sets, execs, count, hist
    <2>2. QED
      BY <2>1 DEF TaskBooks
  <1>2. ASSUME NEW s \in Services, ForeignPush(s) PROVE TaskBooks'
    <2>1. UNCHANGED <<generation, next, tasks>>
      BY <1>2 DEF ForeignPush, lives, boxes, sets, execs, count, hist
    <2>2. QED
      BY <2>1 DEF TaskBooks
  <1>3. ASSUME NEW t \in tokens, NEW kind \in Answers, ExternalReply(t, kind) PROVE TaskBooks'
    <2>1. UNCHANGED <<generation, next, tasks>>
      BY <1>3 DEF ExternalReply, lives, boxes, sets, execs, count, hist
    <2>2. QED
      BY <2>1 DEF TaskBooks
  <1>4. ASSUME NEW s \in Services, Kill(s) PROVE TaskBooks'
    <2>1. UNCHANGED <<generation, next, tasks>>
      BY <1>4 DEF Kill, lives, boxes, sets, execs, count, hist
    <2>2. QED
      BY <2>1 DEF TaskBooks
  <1>5. ASSUME NEW s \in Services, MarkDead(s) PROVE TaskBooks'
    <2>1. UNCHANGED <<generation, next, tasks>>
      BY <1>5 DEF MarkDead, lives, boxes, sets, execs, count, hist
    <2>2. QED
      BY <2>1 DEF TaskBooks
  <1>6. ASSUME NEW s \in Services, TakeMessage(s) PROVE TaskBooks'
    <2>1. \/ UNCHANGED <<tasks, generation>>
          \/ InstallTask(s, Head(inbox[s])) /\ Head(inbox[s]) \in Messages
      BY <1>6, TakeIs
    <2>2. UNCHANGED next
      BY <1>6 DEF TakeMessage
    <2>3. QED
      BY <2>1, <2>2, BooksGrow, BooksShrink
  <1>7. ASSUME NEW s \in Services, TakePending(s) PROVE TaskBooks'
    <2>1. InstallTask(s, Head(kept[s])) /\ Head(kept[s]) \in Messages /\ UNCHANGED next
      BY <1>7, PendingIs
    <2>2. QED
      BY <2>1, BooksGrow
  <1>8. ASSUME NEW s \in Services, TakeReady(s) PROVE TaskBooks'
    <2>1. UNCHANGED <<generation, next, tasks>>
      BY <1>8 DEF TakeReady, lives, boxes, sets, execs, count, hist
    <2>2. QED
      BY <2>1 DEF TaskBooks
  <1>9. ASSUME NEW s \in Services, PollCall(s) PROVE TaskBooks'
    <2>1. CASE UNCHANGED tasks
      BY <1>9, <2>1, PollIs, BooksShrink
    <2>2. CASE tasks' # tasks
      BY <1>9, <2>2, PollIs, BooksWait
    <2>3. QED
      BY <2>1, <2>2
  <1>10. ASSUME NEW s \in Services, Abandon(s) PROVE TaskBooks'
    BY <1>10, AbandonIs, BooksWait
  <1>11. ASSUME NEW s \in Services, NEW d \in Services, Call(s, d) PROVE TaskBooks'
    <2>1. /\ pc[s] \in PollPC /\ NewCall(s) /\ UNCHANGED generation
          /\ next[s] \in Nat /\ next'[s] = next[s] + 1
          /\ \A u \in Services \ {s} : next'[u] = next[u]
          /\ Waiting(s) \/ UNCHANGED tasks
      BY <1>11, CallIs
    <2>2. CASE Waiting(s)
      BY <2>1, <2>2, WaitingIs, BooksWait
    <2>3. CASE UNCHANGED tasks
      <3>1. \A u \in Services : next[u] \in Nat /\ next'[u] \in Nat /\ next[u] <= next'[u]
        BY <2>1 DEF Types, SetTyped
      <3>2. \A u \in Services : \A k \in tasks[u] : k.wait \in Nat
        BY DEF Types, SetTyped, Tasks
      <3>3. QED
        BY <2>1, <2>3, <3>1, <3>2 DEF TaskBooks
    <2>4. QED
      BY <2>1, <2>2, <2>3
  <1>12. ASSUME NEW s \in Services, NEW d \in Services, Post(s, d) PROVE TaskBooks'
    <2>1. UNCHANGED <<generation, next, tasks>>
      BY <1>12 DEF Post, OtherEvent, lives, boxes, sets, execs, count, hist
    <2>2. QED
      BY <2>1 DEF TaskBooks
  <1>13. ASSUME NEW s \in Services, Push(s) PROVE TaskBooks'
    <2>1. UNCHANGED <<generation, next, tasks>>
      BY <1>13 DEF Push, lives, boxes, sets, execs, count, hist
    <2>2. QED
      BY <2>1 DEF TaskBooks
  <1>14. ASSUME NEW s \in Services, CallExternal(s) PROVE TaskBooks'
    <2>1. /\ pc[s] \in PollPC /\ NewCall(s) /\ UNCHANGED generation /\ Waiting(s)
          /\ next[s] \in Nat /\ next'[s] = next[s] + 1
          /\ \A u \in Services \ {s} : next'[u] = next[u]
      BY <1>14, ExternalIs
    <2>2. QED
      BY <2>1, WaitingIs, BooksWait
  <1>15. ASSUME NEW s \in Services, NEW kind \in Answers, UserReply(s, kind) PROVE TaskBooks'
    BY <1>15, UserReplyIs, BooksWait
  <1>16. ASSUME NEW s \in Services, Spawn(s) PROVE TaskBooks'
    <2>1. InstallTask(s, NoMessage) /\ UNCHANGED next
      BY <1>16 DEF Spawn
    <2>2. QED
      BY <2>1, RecordsTyped, BooksGrow
  <1>17. ASSUME NEW s \in Services, Exit(s) PROVE TaskBooks'
    <2>1. UNCHANGED <<generation, next, tasks>>
      BY <1>17 DEF Exit, lives, boxes, sets, execs, count, hist
    <2>2. QED
      BY <2>1 DEF TaskBooks
  <1>18. ASSUME NEW s \in Services, FailOne(s) PROVE TaskBooks'
    <2>1. UNCHANGED <<generation, next>>
      BY <1>18 DEF FailOne
    <2>2. PICK k \in tasks[s], j \in Tasks :
             /\ j.id = k.id /\ j.wait = k.wait /\ j.msg = k.msg /\ ~j.owed
             /\ tasks'[s] = (tasks[s] \ {k}) \cup {j}
             /\ \A u \in Services \ {s} : tasks'[u] = tasks[u]
      BY <1>18, Failed
    <2>3. /\ \A u \in Services : next[u] \in Nat /\ next'[u] = next[u]
          /\ j.wait \in Nat /\ j.wait <= next[s]
          /\ j.wait # 0 => \A i \in tasks[s] \ {k} : i.wait # j.wait
      BY <2>1, <2>2 DEF TaskBooks, Types, SetTyped, Tasks
    <2>4. QED
      BY <2>1, <2>2, <2>3, BooksReplace
  <1>19. ASSUME NEW s \in Services, ExitFails(s), ~FailOne(s) PROVE TaskBooks'
    <2>1. UNCHANGED <<generation, next, tasks>>
      BY <1>19 DEF ExitFails, lives, boxes, sets, execs, count, hist
    <2>2. QED
      BY <2>1 DEF TaskBooks
  <1>20. ASSUME NEW s \in Services, InitFails(s) PROVE TaskBooks'
    <2>1. UNCHANGED <<generation, next, tasks>>
      BY <1>20 DEF InitFails, lives, boxes, sets, execs, count, hist
    <2>2. QED
      BY <2>1 DEF TaskBooks
  <1>21. ASSUME NEW s \in Services, Return(s) PROVE TaskBooks'
    <2>1. UNCHANGED <<generation, next>> /\ \A u \in Services : tasks'[u] \subseteq tasks[u]
      BY <1>21, ReturnIs
    <2>2. QED
      BY <2>1, BooksShrink
  <1>22. ASSUME NEW s \in Services, Cleanup(s) PROVE TaskBooks'
    <2>1. UNCHANGED <<generation, next, tasks>>
      BY <1>22 DEF Cleanup, lives, boxes, sets, execs, count, hist
    <2>2. QED
      BY <2>1 DEF TaskBooks
  <1>23. ASSUME NEW s \in Services, CleanDrops(s) PROVE TaskBooks'
    <2>1. UNCHANGED <<generation, next>> /\ \A u \in Services : tasks'[u] \subseteq tasks[u]
      BY <1>23, DropIs
    <2>2. QED
      BY <2>1, BooksShrink
  <1>24. ASSUME NEW s \in Services, CleanRefuses(s) PROVE TaskBooks'
    <2>1. UNCHANGED <<generation, next, tasks>>
      BY <1>24 DEF CleanRefuses, lives, boxes, sets, execs, count, hist
    <2>2. QED
      BY <2>1 DEF TaskBooks
  <1>25. ASSUME NEW s \in Services, CleanReleases(s) PROVE TaskBooks'
    <2>1. UNCHANGED <<generation, next, tasks>>
      BY <1>25 DEF CleanReleases, lives, boxes, sets, execs, count, hist
    <2>2. QED
      BY <2>1 DEF TaskBooks
  <1>26. ASSUME UNCHANGED vars PROVE TaskBooks'
    <2>1. UNCHANGED <<generation, next, tasks>>
      BY <1>26 DEF vars, lives, boxes, sets, execs, count, hist
    <2>2. QED
      BY <2>1 DEF TaskBooks
  <1>27. QED
    BY <1>1, <1>2, <1>3, <1>4, <1>5, <1>6, <1>7, <1>8, <1>9, <1>10, <1>11, <1>12, <1>13,
       <1>14, <1>15, <1>16, <1>17, <1>18, <1>19, <1>20, <1>21, <1>22, <1>23, <1>24, <1>25,
       <1>26
    DEF Next, Environment, Execute, User, CleanFails, ExitFails

(* What a slot names. *)
LEMMA SlotNamed ==
    ASSUME Types, Book, NEW s \in Services, NEW k \in slots[s]
    PROVE  /\ k \in Sessions /\ Names(s, k.session, k.call)
           /\ k.session \in Nat /\ k.session \in 1..next[s] /\ k.call \in Nat /\ k.call \in 1..calls
           /\ k.call \in 1..MaxEvents
  <1>1. k \in Sessions /\ k.session \in Nat /\ k.call \in Nat
    BY DEF Types, SetTyped, Sessions
  <1>2. Names(s, k.session, k.call)
    BY DEF Names
  <1>3. k.session \in 1..next[s] /\ k.call \in 1..calls
    BY <1>1, <1>2 DEF Book
  <1>4. k.call \in 1..MaxEvents
    BY <1>3, RpcAssumption DEF Types, CountTyped
  <1>5. QED
    BY <1>1, <1>2, <1>3, <1>4

(* A new session has a new number. *)
LEMMA SessionsGrow ==
    ASSUME Types, Control, TaskBooks, SessionBooks, Book, NEW s \in Services, pc[s] \in PollPC,
           NewCall(s), Waiting(s)
    PROVE  SessionBooks'
  <1>1. PICK k \in Sessions : k.session = next[s] + 1 /\ slots'[s] = slots[s] \cup {k}
    BY WaitingIs
  <1>2. \A u \in Services \ {s} : slots'[u] = slots[u]
    BY WaitingIs
  <1>3. \A i \in slots[s] : i.session # k.session
    BY <1>1, SlotNamed DEF Types, SetTyped
  <1>4. QED
    BY <1>1, <1>2, <1>3 DEF SessionBooks

(* and on sessions. *)
LEMMA SessionsStep ==
    ASSUME Types, Control, TaskBooks, SessionBooks, Book, [Next]_vars
    PROVE  SessionBooks'
  <1>1. ASSUME NEW s \in Services, ForeignWake(s) PROVE SessionBooks'
    <2>1. UNCHANGED <<slots>>
      BY <1>1 DEF ForeignWake, OtherEvent, lives, boxes, sets, execs, count, hist
    <2>2. QED
      BY <2>1 DEF SessionBooks
  <1>2. ASSUME NEW s \in Services, ForeignPush(s) PROVE SessionBooks'
    <2>1. UNCHANGED <<slots>>
      BY <1>2 DEF ForeignPush, lives, boxes, sets, execs, count, hist
    <2>2. QED
      BY <2>1 DEF SessionBooks
  <1>3. ASSUME NEW t \in tokens, NEW kind \in Answers, ExternalReply(t, kind) PROVE SessionBooks'
    <2>1. UNCHANGED <<slots>>
      BY <1>3 DEF ExternalReply, lives, boxes, sets, execs, count, hist
    <2>2. QED
      BY <2>1 DEF SessionBooks
  <1>4. ASSUME NEW s \in Services, Kill(s) PROVE SessionBooks'
    <2>1. UNCHANGED <<slots>>
      BY <1>4 DEF Kill, lives, boxes, sets, execs, count, hist
    <2>2. QED
      BY <2>1 DEF SessionBooks
  <1>5. ASSUME NEW s \in Services, MarkDead(s) PROVE SessionBooks'
    <2>1. UNCHANGED <<slots>>
      BY <1>5 DEF MarkDead, lives, boxes, sets, execs, count, hist
    <2>2. QED
      BY <2>1 DEF SessionBooks
  <1>6. ASSUME NEW s \in Services, TakeMessage(s) PROVE SessionBooks'
    <2>1. CASE Head(inbox[s]).kind \in Answers /\ Complete(s, Head(inbox[s]))
      <3>1. Head(inbox[s]) \in Messages
        BY <1>6, TakeIs
      <3>2. CASE UNCHANGED slots
        BY <3>2 DEF SessionBooks
      <3>3. CASE slots' # slots
        <4>1. PICK k \in slots[s], l \in Sessions :
                 /\ l.session = k.session /\ slots'[s] = (slots[s] \ {k}) \cup {l}
          BY <2>1, <3>1, <3>3, CompleteIs
        <4>2. \A u \in Services \ {s} : slots'[u] = slots[u]
          BY <2>1, <3>1, CompleteIs
        <4>3. QED
          BY <4>1, <4>2 DEF SessionBooks
      <3>4. QED
        BY <3>2, <3>3
    <2>2. CASE UNCHANGED slots
      BY <2>2 DEF SessionBooks
    <2>3. QED
      BY <1>6, <2>1, <2>2, TakeIs
  <1>7. ASSUME NEW s \in Services, TakePending(s) PROVE SessionBooks'
    <2>1. UNCHANGED <<slots>>
      BY <1>7 DEF TakePending, lives, boxes, sets, execs, count, hist
    <2>2. QED
      BY <2>1 DEF SessionBooks
  <1>8. ASSUME NEW s \in Services, TakeReady(s) PROVE SessionBooks'
    <2>1. UNCHANGED <<slots>>
      BY <1>8 DEF TakeReady, lives, boxes, sets, execs, count, hist
    <2>2. QED
      BY <2>1 DEF SessionBooks
  <1>9. ASSUME NEW s \in Services, PollCall(s) PROVE SessionBooks'
    <2>1. \A u \in Services : slots'[u] \subseteq slots[u]
      BY <1>9, PollIs
    <2>2. QED
      BY <2>1 DEF SessionBooks
  <1>10. ASSUME NEW s \in Services, Abandon(s) PROVE SessionBooks'
    <2>1. \A u \in Services : slots'[u] \subseteq slots[u]
      BY <1>10, AbandonIs
    <2>2. QED
      BY <2>1 DEF SessionBooks
  <1>11. ASSUME NEW s \in Services, NEW d \in Services, Call(s, d) PROVE SessionBooks'
    <2>1. pc[s] \in PollPC /\ NewCall(s) /\ (Waiting(s) \/ UNCHANGED slots)
      BY <1>11, CallIs
    <2>2. CASE Waiting(s)
      BY <2>1, <2>2, SessionsGrow
    <2>3. CASE UNCHANGED slots
      BY <2>3 DEF SessionBooks
    <2>4. QED
      BY <2>1, <2>2, <2>3
  <1>12. ASSUME NEW s \in Services, NEW d \in Services, Post(s, d) PROVE SessionBooks'
    <2>1. UNCHANGED <<slots>>
      BY <1>12 DEF Post, OtherEvent, lives, boxes, sets, execs, count, hist
    <2>2. QED
      BY <2>1 DEF SessionBooks
  <1>13. ASSUME NEW s \in Services, Push(s) PROVE SessionBooks'
    <2>1. UNCHANGED <<slots>>
      BY <1>13 DEF Push, lives, boxes, sets, execs, count, hist
    <2>2. QED
      BY <2>1 DEF SessionBooks
  <1>14. ASSUME NEW s \in Services, CallExternal(s) PROVE SessionBooks'
    <2>1. pc[s] \in PollPC /\ NewCall(s) /\ Waiting(s)
      BY <1>14, ExternalIs
    <2>2. QED
      BY <2>1, SessionsGrow
  <1>15. ASSUME NEW s \in Services, NEW kind \in Answers, UserReply(s, kind) PROVE SessionBooks'
    <2>1. UNCHANGED <<slots>>
      BY <1>15 DEF UserReply, lives, boxes, sets, execs, count, hist
    <2>2. QED
      BY <2>1 DEF SessionBooks
  <1>16. ASSUME NEW s \in Services, Spawn(s) PROVE SessionBooks'
    <2>1. UNCHANGED <<slots>>
      BY <1>16 DEF Spawn, OtherEvent, lives, boxes, sets, execs, count, hist
    <2>2. QED
      BY <2>1 DEF SessionBooks
  <1>17. ASSUME NEW s \in Services, Exit(s) PROVE SessionBooks'
    <2>1. UNCHANGED <<slots>>
      BY <1>17 DEF Exit, lives, boxes, sets, execs, count, hist
    <2>2. QED
      BY <2>1 DEF SessionBooks
  <1>18. ASSUME NEW s \in Services, FailOne(s) PROVE SessionBooks'
    <2>1. UNCHANGED <<slots>>
      BY <1>18 DEF FailOne, lives, boxes, sets, execs, count, hist
    <2>2. QED
      BY <2>1 DEF SessionBooks
  <1>19. ASSUME NEW s \in Services, ExitFails(s), ~FailOne(s) PROVE SessionBooks'
    <2>1. UNCHANGED <<slots>>
      BY <1>19 DEF ExitFails, lives, boxes, sets, execs, count, hist
    <2>2. QED
      BY <2>1 DEF SessionBooks
  <1>20. ASSUME NEW s \in Services, InitFails(s) PROVE SessionBooks'
    <2>1. UNCHANGED <<slots>>
      BY <1>20 DEF InitFails, lives, boxes, sets, execs, count, hist
    <2>2. QED
      BY <2>1 DEF SessionBooks
  <1>21. ASSUME NEW s \in Services, Return(s) PROVE SessionBooks'
    <2>1. UNCHANGED <<slots>>
      BY <1>21 DEF Return, lives, boxes, sets, execs, count, hist
    <2>2. QED
      BY <2>1 DEF SessionBooks
  <1>22. ASSUME NEW s \in Services, Cleanup(s) PROVE SessionBooks'
    <2>1. UNCHANGED <<slots>>
      BY <1>22 DEF Cleanup, lives, boxes, sets, execs, count, hist
    <2>2. QED
      BY <2>1 DEF SessionBooks
  <1>23. ASSUME NEW s \in Services, CleanDrops(s) PROVE SessionBooks'
    <2>1. \A u \in Services : slots'[u] \subseteq slots[u]
      BY <1>23, DropIs
    <2>2. QED
      BY <2>1 DEF SessionBooks
  <1>24. ASSUME NEW s \in Services, CleanRefuses(s) PROVE SessionBooks'
    <2>1. UNCHANGED <<slots>>
      BY <1>24 DEF CleanRefuses, lives, boxes, sets, execs, count, hist
    <2>2. QED
      BY <2>1 DEF SessionBooks
  <1>25. ASSUME NEW s \in Services, CleanReleases(s) PROVE SessionBooks'
    <2>1. UNCHANGED <<slots>>
      BY <1>25 DEF CleanReleases, lives, boxes, sets, execs, count, hist
    <2>2. QED
      BY <2>1 DEF SessionBooks
  <1>26. ASSUME UNCHANGED vars PROVE SessionBooks'
    <2>1. UNCHANGED <<slots>>
      BY <1>26 DEF vars, lives, boxes, sets, execs, count, hist
    <2>2. QED
      BY <2>1 DEF SessionBooks
  <1>27. QED
    BY <1>1, <1>2, <1>3, <1>4, <1>5, <1>6, <1>7, <1>8, <1>9, <1>10, <1>11, <1>12, <1>13,
       <1>14, <1>15, <1>16, <1>17, <1>18, <1>19, <1>20, <1>21, <1>22, <1>23, <1>24, <1>25,
       <1>26
    DEF Next, Environment, Execute, User, CleanFails, ExitFails

-----------------------------------------------------------------------------
(* An element that occurs once, and what Append and Tail do about it.      *)
LEMMA AppendOnce ==
    ASSUME NEW q \in Seq(Nat), NEW x \in Nat, NEW y, Once(q, y), x # y \/ y \notin Elems(q)
    PROVE  Once(Append(q, x), y)
  <1> DEFINE r == Append(q, x)
  <1>1. /\ Len(q) \in Nat /\ DOMAIN q = 1..Len(q) /\ DOMAIN r = 1..(Len(q) + 1)
        /\ \A i \in 1..Len(q) : r[i] = q[i]
        /\ r[Len(q) + 1] = x
    BY Appended
  <1> HIDE DEF r
  <1>2. SUFFICES ASSUME NEW i \in DOMAIN r, NEW j \in DOMAIN r, r[i] = y, r[j] = y
                 PROVE  i = j
    BY DEF Once, r
  <1>3. CASE i \in 1..Len(q) /\ j \in 1..Len(q)
    BY <1>1, <1>2, <1>3 DEF Once
  <1>4. CASE ~(i \in 1..Len(q) /\ j \in 1..Len(q))
    BY <1>1, <1>2, <1>4 DEF Elems
  <1>5. QED
    BY <1>3, <1>4

(* What occurs once still does in the tail, and not both there and before. *)
LEMMA TailOnce ==
    ASSUME NEW q \in Seq(Nat), q # <<>>, NEW y, Once(q, y)
    PROVE  Once(Tail(q), y) /\ (Head(q) = y => y \notin Elems(Tail(q)))
  <1> DEFINE r == Tail(q)
  <1>1. /\ Head(q) = q[1] /\ Len(q) \in Nat \ {0} /\ DOMAIN q = 1..Len(q)
        /\ DOMAIN r = 1..(Len(q) - 1)
        /\ \A i \in 1..(Len(q) - 1) : r[i] = q[i + 1]
    BY Shortened
  <1> HIDE DEF r
  <1>2. Once(r, y)
    <2>1. SUFFICES ASSUME NEW i \in DOMAIN r, NEW j \in DOMAIN r, r[i] = y, r[j] = y
                   PROVE  i = j
      BY DEF Once
    <2>2. i + 1 \in DOMAIN q /\ j + 1 \in DOMAIN q /\ q[i + 1] = y /\ q[j + 1] = y
      BY <1>1, <2>1
    <2>3. i + 1 = j + 1
      BY <2>2 DEF Once
    <2>4. QED
      BY <1>1, <2>3
  <1>3. ASSUME Head(q) = y, NEW i \in DOMAIN r, r[i] = y PROVE FALSE
    <2>1. i + 1 \in DOMAIN q /\ q[i + 1] = y /\ 1 \in DOMAIN q /\ q[1] = y /\ i + 1 # 1
      BY <1>1, <1>3
    <2>2. QED
      BY <2>1 DEF Once
  <1>4. QED
    BY <1>2, <1>3 DEF Elems, r

(* A service that a step leaves alone, apart from tasks that go or change  *)
(* what they wait for.                                                     *)
LEMMA SignalsKept ==
    ASSUME NEW s \in Services, SignalsOf(s), generation'[s] = generation[s],
           ready'[s] = ready[s], signal'[s] = signal[s],
           \A id \in Nat : <<s, id>> \in waking' <=> <<s, id>> \in waking,
           \A j \in tasks'[s] : j.id \in Nat /\ \E k \in tasks[s] : k.id = j.id
    PROVE  SignalsOf(s)'
  BY DEF SignalsOf, Entry

(* A new task is queued once. *)
LEMMA SignalsInstall ==
    ASSUME Types, TaskBooks, Signals, NEW s \in Services, NEW m \in Messages,
           InstallTask(s, m), UNCHANGED waking
    PROVE  Signals'
  <1> DEFINE g == generation[s] + 1
  <1>1. /\ tasks'[s] = tasks[s] \cup {NewTask(s, m)} /\ NewTask(s, m).id = g
        /\ \A u \in Services \ {s} : tasks'[u] = tasks[u] /\ generation'[u] = generation[u]
                                     /\ ready'[u] = ready[u] /\ signal'[u] = signal[u]
        /\ generation[s] \in Nat /\ generation'[s] = g
        /\ ready[s] \in Seq(Nat) /\ ready'[s] = Append(ready[s], g)
        /\ Elems(ready'[s]) = Elems(ready[s]) \cup {g} /\ signal'[s] = signal[s] \cup {g}
    BY InstallIs
  <1>2. SignalsOf(s) /\ g \in Nat /\ g \notin 1..generation[s] /\ 1..g = 1..generation[s] \cup {g}
    BY <1>1 DEF Signals
  <1>3. g \notin Elems(ready[s]) /\ g \notin signal[s] /\ <<s, g>> \notin waking
    BY <1>2 DEF SignalsOf
  <1>4. Once(ready[s], g)
    BY <1>3 DEF Once, Elems
  <1>5. \A k \in tasks[s] : k.id \in 1..generation[s]
    BY DEF TaskBooks
  <1>6. \A k \in tasks'[s] : Once(ready'[s], k.id)
    <2>1. SUFFICES ASSUME NEW k \in tasks'[s] PROVE Once(Append(ready[s], g), k.id)
      BY <1>1
    <2>2. CASE k.id = g
      BY <1>1, <1>2, <1>3, <1>4, <2>2, AppendOnce
    <2>3. CASE k \in tasks[s]
      <3>1. k.id # g /\ Once(ready[s], k.id)
        BY <1>2, <1>5, <2>3 DEF SignalsOf
      <3>2. QED
        BY <1>1, <1>2, <3>1, AppendOnce
    <2>4. QED
      BY <1>1, <2>2, <2>3
  <1> HIDE DEF g
  <1>7. SignalsOf(s)'
    BY <1>1, <1>2, <1>3, <1>5, <1>6 DEF SignalsOf, Entry
  <1>8. ASSUME NEW u \in Services \ {s} PROVE SignalsOf(u)'
    BY <1>1 DEF Signals, SignalsOf, Entry
  <1>9. QED
    BY <1>7, <1>8 DEF Signals

(* A task is queued only while its signal is clear. *)
LEMMA SignalsWake ==
    ASSUME Types, TaskBooks, Signals, NEW s \in Services, NEW k \in tasks[s], WakeTask(s, k.id),
           UNCHANGED <<tasks, generation, waking>>
    PROVE  Signals'
  <1> DEFINE id == k.id
  <1>1. k.id \in 1..generation[s] /\ generation[s] \in Nat /\ id \in Nat
    BY DEF TaskBooks, Types, SetTyped
  <1>2. /\ \A u \in Services \ {s} : ready'[u] = ready[u] /\ signal'[u] = signal[u]
        /\ ready[s] \in Seq(Nat)
        /\ \/ id \in signal[s] /\ ready'[s] = ready[s] /\ signal'[s] = signal[s]
           \/ /\ id \notin signal[s] /\ ready'[s] = Append(ready[s], id)
              /\ Elems(ready'[s]) = Elems(ready[s]) \cup {id}
              /\ signal'[s] = signal[s] \cup {id}
    BY <1>1, WakeIs
  <1>3. SignalsOf(s)
    BY DEF Signals
  <1>4. SignalsOf(s)'
    <2>1. CASE ready'[s] = ready[s] /\ signal'[s] = signal[s]
      BY <1>3, <2>1 DEF SignalsOf, Entry
    <2>2. CASE /\ id \notin signal[s] /\ ready'[s] = Append(ready[s], id)
               /\ Elems(ready'[s]) = Elems(ready[s]) \cup {id}
               /\ signal'[s] = signal[s] \cup {id}
      <3>1. id \notin Elems(ready[s]) /\ <<s, id>> \notin waking
        BY <1>3, <2>2 DEF SignalsOf, Entry
      <3>2. ASSUME NEW j \in tasks[s] PROVE Once(ready'[s], j.id)
        <4>1. Once(ready[s], j.id) /\ (id # j.id \/ j.id \notin Elems(ready[s]))
          BY <1>3, <3>1 DEF SignalsOf
        <4>2. Once(Append(ready[s], id), j.id)
          BY <1>1, <1>2, <4>1, AppendOnce
        <4>3. QED
          BY <2>2, <4>2
      <3>3. QED
        BY <1>1, <1>3, <2>2, <3>1, <3>2 DEF SignalsOf, Entry
    <2>3. QED
      BY <1>2, <2>1, <2>2
  <1>5. ASSUME NEW u \in Services \ {s} PROVE SignalsOf(u)'
    BY <1>2 DEF Signals, SignalsOf, Entry
  <1>6. QED
    BY <1>4, <1>5 DEF Signals

(* The task in hand is replaced, or a task is removed. *)
LEMMA SignalsTasks ==
    ASSUME Types, Signals, UNCHANGED <<ready, signal, generation, waking>>,
           \A u \in Services : \A j \in tasks'[u] : \E k \in tasks[u] : k.id = j.id
    PROVE  Signals'
  <1>1. ASSUME NEW u \in Services PROVE SignalsOf(u)'
    <2>1. SignalsOf(u)
      BY DEF Signals
    <2>2. \A j \in tasks'[u] : j.id \in Nat /\ \E k \in tasks[u] : k.id = j.id
      BY DEF Types, SetTyped, Tasks
    <2>3. QED
      BY <2>1, <2>2, SignalsKept
  <1>2. QED
    BY <1>1 DEF Signals

(* Every step keeps one entry per set signal. *)
LEMMA SignalsStep ==
    ASSUME Types, Control, TaskBooks, SessionBooks, Book, Signals, [Next]_vars
    PROVE  Signals'
  <1>1. ASSUME NEW s \in Services, ForeignWake(s) PROVE Signals'
    <2>1. PICK id \in 1..generation[s] \ signal[s] :
            /\ signal' = [signal EXCEPT ![s] = @ \cup {id}]
            /\ waking' = waking \cup {<<s, id>>} /\ UNCHANGED <<ready, tasks, generation>>
      BY <1>1 DEF ForeignWake, boxes
    <2>2. /\ signal'[s] = signal[s] \cup {id}
          /\ \A u \in Services \ {s} : signal'[u] = signal[u]
      BY <2>1 DEF Types, SetTyped
    <2>3. SignalsOf(s)'
      BY <2>1, <2>2 DEF Signals, SignalsOf, Entry
    <2>4. ASSUME NEW u \in Services \ {s} PROVE SignalsOf(u)'
      BY <2>1, <2>2 DEF Signals, SignalsOf, Entry
    <2>5. QED
      BY <2>3, <2>4 DEF Signals
  <1>2. ASSUME NEW s \in Services, ForeignPush(s) PROVE Signals'
    <2>1. PICK id \in 1..generation[s] :
            /\ <<s, id>> \in waking /\ waking' = waking \ {<<s, id>>}
            /\ ready' = [ready EXCEPT ![s] = Append(@, id)]
            /\ UNCHANGED <<signal, tasks, generation>>
      BY <1>2 DEF ForeignPush, sets
    <2>2. ready[s] \in Seq(Nat) /\ id \in Nat
      BY DEF Types, BoxTyped, SetTyped
    <2>3. /\ ready'[s] = Append(ready[s], id)
          /\ \A u \in Services \ {s} : ready'[u] = ready[u]
      BY <2>1 DEF Types, BoxTyped
    <2>4. Elems(ready'[s]) = Elems(ready[s]) \cup {id}
      BY <2>2, <2>3, AppendElems
    <2>5. SignalsOf(s)
      BY DEF Signals
    <2>6. ASSUME NEW k \in tasks[s] PROVE Once(ready'[s], k.id)
      <3>1. k.id = id => id \notin Elems(ready[s])
        BY <2>1, <2>5 DEF SignalsOf, Entry
      <3>2. Once(ready[s], k.id) /\ (id # k.id \/ k.id \notin Elems(ready[s]))
        BY <2>5, <3>1 DEF SignalsOf
      <3>3. Once(Append(ready[s], id), k.id)
        BY <2>2, <3>2, AppendOnce
      <3>4. QED
        BY <2>3, <3>3
    <2>7. SignalsOf(s)'
      BY <2>1, <2>4, <2>5, <2>6 DEF SignalsOf, Entry
    <2>8. ASSUME NEW u \in Services \ {s} PROVE SignalsOf(u)'
      BY <2>1, <2>3 DEF Signals, SignalsOf, Entry
    <2>9. QED
      BY <2>7, <2>8 DEF Signals
  <1>3. ASSUME NEW t \in tokens, NEW kind \in Answers, ExternalReply(t, kind) PROVE Signals'
    <2>1. UNCHANGED <<generation, ready, signal, tasks, waking>>
      BY <1>3 DEF ExternalReply, lives, boxes, sets, execs, count, hist
    <2>2. QED
      BY <2>1 DEF Signals, SignalsOf, Entry
  <1>4. ASSUME NEW s \in Services, Kill(s) PROVE Signals'
    <2>1. UNCHANGED <<generation, ready, signal, tasks, waking>>
      BY <1>4 DEF Kill, lives, boxes, sets, execs, count, hist
    <2>2. QED
      BY <2>1 DEF Signals, SignalsOf, Entry
  <1>5. ASSUME NEW s \in Services, MarkDead(s) PROVE Signals'
    <2>1. UNCHANGED <<generation, ready, signal, tasks, waking>>
      BY <1>5 DEF MarkDead, lives, boxes, sets, execs, count, hist
    <2>2. QED
      BY <2>1 DEF Signals, SignalsOf, Entry
  <1>6. ASSUME NEW s \in Services, TakeMessage(s) PROVE Signals'
    <2> DEFINE m == Head(inbox[s])
    <2>1. m \in Messages /\ UNCHANGED waking
      BY <1>6, TakeIs DEF execs
    <2>2. CASE UNCHANGED <<ready, signal, tasks, generation>>
      BY <2>1, <2>2, SignalsTasks
    <2>3. CASE InstallTask(s, m)
      BY <2>1, <2>3, SignalsInstall
    <2>4. CASE m.kind \in Answers /\ Complete(s, m) /\ UNCHANGED <<tasks, generation>>
      <3>1. \/ UNCHANGED <<ready, signal>>
            \/ \E j \in tasks[s] : WakeTask(s, j.id)
        BY <2>1, <2>4, CompleteIs
      <3>2. QED
        BY <2>1, <2>2, <2>4, <3>1, SignalsWake
    <2>5. QED
      BY <1>6, <2>2, <2>3, <2>4, TakeIs
  <1>7. ASSUME NEW s \in Services, TakePending(s) PROVE Signals'
    <2>1. InstallTask(s, Head(kept[s])) /\ Head(kept[s]) \in Messages /\ UNCHANGED waking
      BY <1>7, PendingIs DEF execs
    <2>2. QED
      BY <2>1, SignalsInstall
  <1>8. ASSUME NEW s \in Services, TakeReady(s) PROVE Signals'
    <2> DEFINE id == Head(ready[s])
    <2>1. /\ ready[s] # <<>> /\ ready[s] \in Seq(Nat) /\ id \in Nat
          /\ ready'[s] = Tail(ready[s]) /\ Elems(ready[s]) = Elems(ready'[s]) \cup {id}
          /\ \A u \in Services \ {s} : ready'[u] = ready[u] /\ signal'[u] = signal[u]
          /\ \/ (\E k \in tasks[s] : k.id = id) /\ signal'[s] = signal[s] \ {id}
             \/ (\A k \in tasks[s] : k.id # id) /\ UNCHANGED signal
          /\ UNCHANGED <<tasks, generation, waking>>
      BY <1>8, ReadyIs
    <2>2. SignalsOf(s)
      BY DEF Signals
    <2>3. ASSUME NEW k \in tasks[s]
          PROVE  Once(ready'[s], k.id) /\ (id = k.id => k.id \notin Elems(ready'[s]))
      BY <2>1, <2>2, TailOnce DEF SignalsOf
    <2> HIDE DEF id
    <2>4. SignalsOf(s)'
      BY <2>1, <2>2, <2>3 DEF SignalsOf, Entry
    <2>5. ASSUME NEW u \in Services \ {s} PROVE SignalsOf(u)'
      BY <2>1 DEF Signals, SignalsOf, Entry
    <2>6. QED
      BY <2>4, <2>5 DEF Signals
  <1>9. ASSUME NEW s \in Services, PollCall(s) PROVE Signals'
    <2>1. pc[s] \in PollPC /\ UNCHANGED <<ready, signal, generation, waking>>
      BY <1>9, PollIs DEF boxes
    <2>2. Current(s) \in tasks[s] /\ Current(s).id = run[s]
      BY <2>1, CurrentIs
    <2>3. \A u \in Services : \A j \in tasks'[u] : \E k \in tasks[u] : k.id = j.id
      BY <1>9, <2>2, PollIs
    <2>4. QED
      BY <2>1, <2>3, SignalsTasks
  <1>10. ASSUME NEW s \in Services, Abandon(s) PROVE Signals'
    <2>1. pc[s] \in PollPC /\ UNCHANGED <<ready, signal, generation, waking>>
      BY <1>10, AbandonIs DEF boxes
    <2>2. Current(s) \in tasks[s] /\ Current(s).id = run[s]
      BY <2>1, CurrentIs
    <2>3. \A u \in Services : \A j \in tasks'[u] : \E k \in tasks[u] : k.id = j.id
      BY <1>10, <2>2, AbandonIs
    <2>4. QED
      BY <2>1, <2>3, SignalsTasks
  <1>11. ASSUME NEW s \in Services, NEW d \in Services, Call(s, d) PROVE Signals'
    <2>1. /\ pc[s] \in PollPC /\ UNCHANGED <<ready, signal, generation, waking>>
          /\ NewCall(s) /\ (Waiting(s) \/ UNCHANGED tasks)
      BY <1>11, CallIs DEF boxes
    <2>2. Current(s) \in tasks[s] /\ Current(s).id = run[s]
      BY <2>1, CurrentIs
    <2>3. \A u \in Services : \A j \in tasks'[u] : \E k \in tasks[u] : k.id = j.id
      BY <2>1, <2>2, WaitingIs
    <2>4. QED
      BY <2>1, <2>3, SignalsTasks
  <1>12. ASSUME NEW s \in Services, NEW d \in Services, Post(s, d) PROVE Signals'
    <2>1. UNCHANGED <<generation, ready, signal, tasks, waking>>
      BY <1>12 DEF Post, OtherEvent, lives, boxes, sets, execs, count, hist
    <2>2. QED
      BY <2>1 DEF Signals, SignalsOf, Entry
  <1>13. ASSUME NEW s \in Services, Push(s) PROVE Signals'
    <2>1. UNCHANGED <<generation, ready, signal, tasks, waking>>
      BY <1>13 DEF Push, lives, boxes, sets, execs, count, hist
    <2>2. QED
      BY <2>1 DEF Signals, SignalsOf, Entry
  <1>14. ASSUME NEW s \in Services, CallExternal(s) PROVE Signals'
    <2>1. /\ pc[s] \in PollPC /\ UNCHANGED <<ready, signal, generation, waking>>
          /\ NewCall(s) /\ Waiting(s)
      BY <1>14, ExternalIs DEF boxes
    <2>2. Current(s) \in tasks[s] /\ Current(s).id = run[s]
      BY <2>1, CurrentIs
    <2>3. \A u \in Services : \A j \in tasks'[u] : \E k \in tasks[u] : k.id = j.id
      BY <2>1, <2>2, WaitingIs
    <2>4. QED
      BY <2>1, <2>3, SignalsTasks
  <1>15. ASSUME NEW s \in Services, NEW kind \in Answers, UserReply(s, kind) PROVE Signals'
    <2>1. pc[s] \in PollPC /\ UNCHANGED <<ready, signal, generation, waking>>
      BY <1>15, UserReplyIs DEF execs
    <2>2. Current(s) \in tasks[s] /\ Current(s).id = run[s]
      BY <2>1, CurrentIs
    <2>3. \A u \in Services : \A j \in tasks'[u] : \E k \in tasks[u] : k.id = j.id
      BY <1>15, <2>2, UserReplyIs
    <2>4. QED
      BY <2>1, <2>3, SignalsTasks
  <1>16. ASSUME NEW s \in Services, Spawn(s) PROVE Signals'
    <2>1. InstallTask(s, NoMessage) /\ UNCHANGED waking
      BY <1>16 DEF Spawn, execs
    <2>2. QED
      BY <2>1, RecordsTyped, SignalsInstall
  <1>17. ASSUME NEW s \in Services, Exit(s) PROVE Signals'
    <2>1. UNCHANGED <<generation, ready, signal, tasks, waking>>
      BY <1>17 DEF Exit, lives, boxes, sets, execs, count, hist
    <2>2. QED
      BY <2>1 DEF Signals, SignalsOf, Entry
  <1>18. ASSUME NEW s \in Services, FailOne(s) PROVE Signals'
    <2>1. UNCHANGED <<ready, signal, generation, waking>>
      BY <1>18 DEF FailOne, execs
    <2>2. \A u \in Services : \A j \in tasks'[u] : \E k \in tasks[u] : k.id = j.id
      BY <1>18, Failed
    <2>3. QED
      BY <2>1, <2>2, SignalsTasks
  <1>19. ASSUME NEW s \in Services, ExitFails(s), ~FailOne(s) PROVE Signals'
    <2>1. UNCHANGED <<generation, ready, signal, tasks, waking>>
      BY <1>19 DEF ExitFails, lives, boxes, sets, execs, count, hist
    <2>2. QED
      BY <2>1 DEF Signals, SignalsOf, Entry
  <1>20. ASSUME NEW s \in Services, InitFails(s) PROVE Signals'
    <2>1. UNCHANGED <<generation, ready, signal, tasks, waking>>
      BY <1>20 DEF InitFails, lives, boxes, sets, execs, count, hist
    <2>2. QED
      BY <2>1 DEF Signals, SignalsOf, Entry
  <1>21. ASSUME NEW s \in Services, Return(s) PROVE Signals'
    <2>1. pc[s] \in PollPC /\ UNCHANGED <<ready, signal, generation, waking>>
      BY <1>21, ReturnIs DEF boxes
    <2>2. Current(s) \in tasks[s] /\ Current(s).id = run[s]
      BY <2>1, CurrentIs
    <2>3. \A u \in Services : \A j \in tasks'[u] : \E k \in tasks[u] : k.id = j.id
      BY <1>21, <2>2, ReturnIs
    <2>4. QED
      BY <2>1, <2>3, SignalsTasks
  <1>22. ASSUME NEW s \in Services, Cleanup(s) PROVE Signals'
    <2>1. UNCHANGED <<generation, ready, signal, tasks, waking>>
      BY <1>22 DEF Cleanup, lives, boxes, sets, execs, count, hist
    <2>2. QED
      BY <2>1 DEF Signals, SignalsOf, Entry
  <1>23. ASSUME NEW s \in Services, CleanDrops(s) PROVE Signals'
    <2>1. /\ UNCHANGED <<signal, generation, waking>> /\ tasks'[s] = {} /\ ready'[s] = <<>>
          /\ \A u \in Services \ {s} : tasks'[u] = tasks[u] /\ ready'[u] = ready[u]
      BY <1>23, DropIs
    <2>2. SignalsOf(s)'
      BY <2>1, NoElems DEF Signals, SignalsOf
    <2>3. ASSUME NEW u \in Services \ {s} PROVE SignalsOf(u)'
      BY <2>1 DEF Signals, SignalsOf, Entry
    <2>4. QED
      BY <2>2, <2>3 DEF Signals
  <1>24. ASSUME NEW s \in Services, CleanRefuses(s) PROVE Signals'
    <2>1. UNCHANGED <<generation, ready, signal, tasks, waking>>
      BY <1>24 DEF CleanRefuses, lives, boxes, sets, execs, count, hist
    <2>2. QED
      BY <2>1 DEF Signals, SignalsOf, Entry
  <1>25. ASSUME NEW s \in Services, CleanReleases(s) PROVE Signals'
    <2>1. UNCHANGED <<generation, ready, signal, tasks, waking>>
      BY <1>25 DEF CleanReleases, lives, boxes, sets, execs, count, hist
    <2>2. QED
      BY <2>1 DEF Signals, SignalsOf, Entry
  <1>26. ASSUME UNCHANGED vars PROVE Signals'
    <2>1. UNCHANGED <<generation, ready, signal, tasks, waking>>
      BY <1>26 DEF vars, lives, boxes, sets, execs, count, hist
    <2>2. QED
      BY <2>1 DEF Signals, SignalsOf, Entry
  <1>27. QED
    BY <1>1, <1>2, <1>3, <1>4, <1>5, <1>6, <1>7, <1>8, <1>9, <1>10, <1>11, <1>12, <1>13,
       <1>14, <1>15, <1>16, <1>17, <1>18, <1>19, <1>20, <1>21, <1>22, <1>23, <1>24, <1>25,
       <1>26
    DEF Next, Environment, Execute, User, CleanFails, ExitFails

-----------------------------------------------------------------------------
(* Who will poll task id of service s: an entry, a waker, or the executor. *)
Awake(s, id) == Entry(s, id) \/ <<s, id>> \in waking \/ run[s] = id

(* A step that settles no session and takes no wake-up away. *)
LEMMA ResultsKept ==
    ASSUME Results,
           \A u \in Services : \A k \in slots'[u], j \in tasks'[u] :
             k.result # "none" /\ j.wait = k.session =>
               /\ k \in slots[u] /\ \E i \in tasks[u] : i.id = j.id /\ i.wait = j.wait
               /\ Awake(u, j.id) => Awake(u, j.id)'
    PROVE  Results'
  BY DEF Results, Awake, Entry

(* A new task waits for nothing. *)
LEMMA ResultsInstall ==
    ASSUME Types, Book, Results, NEW s \in Services, NEW m \in Messages,
           InstallTask(s, m), UNCHANGED <<slots, waking, run>>
    PROVE  Results'
  <1>1. /\ tasks'[s] = tasks[s] \cup {NewTask(s, m)} /\ NewTask(s, m).wait = 0
        /\ \A u \in Services \ {s} : tasks'[u] = tasks[u] /\ ready'[u] = ready[u]
        /\ Elems(ready'[s]) = Elems(ready[s]) \cup {generation[s] + 1}
    BY InstallIs
  <1>2. \A u \in Services : \A k \in slots[u] : k.session # 0
    BY SlotNamed
  <1>3. \A u \in Services : \A id : Awake(u, id) => Awake(u, id)'
    BY <1>1 DEF Awake, Entry
  <1>4. QED
    BY <1>1, <1>2, <1>3, ResultsKept

(* The task in hand begins to wait for a session without a result. *)
LEMMA ResultsCall ==
    ASSUME Types, Control, TaskBooks, Book, Results, NEW s \in Services, pc[s] \in PollPC,
           NewCall(s), Waiting(s), UNCHANGED <<ready, waking, run>>
    PROVE  Results'
  <1>1. PICK l \in Sessions : l.result = "none" /\ slots'[s] = slots[s] \cup {l}
    BY WaitingIs
  <1>2. PICK j \in Tasks : /\ j.wait = next[s] + 1
                           /\ tasks'[s] = (tasks[s] \ {Current(s)}) \cup {j}
                           /\ \A u \in Services \ {s} : tasks'[u] = tasks[u]
    BY WaitingIs
  <1>3. \A u \in Services \ {s} : slots'[u] = slots[u]
    BY WaitingIs
  <1>4. \A k \in slots[s] : k.session # next[s] + 1
    BY SlotNamed DEF Types, SetTyped
  <1>5. \A u \in Services : \A id : Awake(u, id) <=> Awake(u, id)'
    BY DEF Awake, Entry
  <1>6. QED
    BY <1>1, <1>2, <1>3, <1>4, <1>5, ResultsKept

(* Every step keeps settled calls awake. *)
LEMMA ResultsStep ==
    ASSUME Types, Control, TaskBooks, SessionBooks, Book, Signals, Results, [Next]_vars
    PROVE  Results'
  <1>1. ASSUME NEW s \in Services, ForeignWake(s) PROVE Results'
    <2>1. UNCHANGED <<slots, tasks, ready, run>> /\ waking \subseteq waking'
      BY <1>1 DEF ForeignWake, boxes
    <2>2. \A u \in Services : \A id : Awake(u, id) => Awake(u, id)'
      BY <2>1 DEF Awake, Entry
    <2>3. QED
      BY <2>1, <2>2, ResultsKept
  <1>2. ASSUME NEW s \in Services, ForeignPush(s) PROVE Results'
    <2>1. PICK id \in 1..generation[s] :
            /\ waking' = waking \ {<<s, id>>} /\ ready' = [ready EXCEPT ![s] = Append(@, id)]
            /\ UNCHANGED <<slots, tasks, run>>
      BY <1>2 DEF ForeignPush, sets
    <2>2. ready[s] \in Seq(Nat) /\ id \in Nat
      BY DEF Types, BoxTyped, SetTyped
    <2>3. /\ ready'[s] = Append(ready[s], id)
          /\ \A u \in Services \ {s} : ready'[u] = ready[u]
      BY <2>1 DEF Types, BoxTyped
    <2>4. Elems(ready'[s]) = Elems(ready[s]) \cup {id}
      BY <2>2, <2>3, AppendElems
    <2>5. \A u \in Services : \A i : Awake(u, i) => Awake(u, i)'
      BY <2>1, <2>3, <2>4 DEF Awake, Entry
    <2>6. QED
      BY <2>1, <2>5, ResultsKept
  <1>3. ASSUME NEW t \in tokens, NEW kind \in Answers, ExternalReply(t, kind) PROVE Results'
    <2>1. UNCHANGED <<ready, run, slots, tasks, waking>>
      BY <1>3 DEF ExternalReply, lives, boxes, sets, execs, count, hist
    <2>2. QED
      BY <2>1 DEF Results, Entry
  <1>4. ASSUME NEW s \in Services, Kill(s) PROVE Results'
    <2>1. UNCHANGED <<ready, run, slots, tasks, waking>>
      BY <1>4 DEF Kill, lives, boxes, sets, execs, count, hist
    <2>2. QED
      BY <2>1 DEF Results, Entry
  <1>5. ASSUME NEW s \in Services, MarkDead(s) PROVE Results'
    <2>1. UNCHANGED <<ready, run, slots, tasks, waking>>
      BY <1>5 DEF MarkDead, lives, boxes, sets, execs, count, hist
    <2>2. QED
      BY <2>1 DEF Results, Entry
  <1>6. ASSUME NEW s \in Services, TakeMessage(s) PROVE Results'
    <2> DEFINE m == Head(inbox[s])
    <2>1. m \in Messages /\ UNCHANGED <<waking, run>>
      BY <1>6, TakeIs DEF execs
    <2>2. CASE UNCHANGED <<ready, tasks, slots>>
      BY <2>1, <2>2 DEF Results, Entry
    <2>3. CASE InstallTask(s, m) /\ UNCHANGED slots
      BY <2>1, <2>3, ResultsInstall
    <2>4. CASE m.kind \in Answers /\ Complete(s, m) /\ UNCHANGED tasks
      <3>1. CASE UNCHANGED <<slots, ready, signal>>
        BY <2>2, <2>4, <3>1
      <3>2. CASE ~UNCHANGED <<slots, ready, signal>>
        <4>1. PICK k \in slots[s], l \in Sessions :
                /\ k.session = m.session /\ l.session = k.session
                /\ slots'[s] = (slots[s] \ {k}) \cup {l}
          BY <2>1, <2>4, <3>2, CompleteIs
        <4>2. /\ \A u \in Services \ {s} : slots'[u] = slots[u] /\ ready'[u] = ready[u]
              /\ \/ \E j \in tasks[s] : j.wait = m.session /\ j.id \in Nat /\ WakeTask(s, j.id)
                 \/ (\A j \in tasks[s] : j.wait # m.session) /\ UNCHANGED <<ready, signal>>
          BY <2>1, <2>4, <3>2, CompleteIs
        <4>3. Elems(ready[s]) \subseteq Elems(ready'[s])
          BY <4>2, WakeIs
        <4>4. \A u \in Services : \A id : Awake(u, id) => Awake(u, id)'
          BY <2>1, <4>2, <4>3 DEF Awake, Entry
        <4>5. ASSUME NEW j \in tasks[s], j.wait = m.session PROVE Awake(s, j.id)'
          <5>1. PICK i \in tasks[s] : i.wait = m.session /\ i.id \in Nat /\ WakeTask(s, i.id)
            BY <4>2, <4>5
          <5>2. m.session # 0
            BY <4>1, SlotNamed
          <5>3. i = j
            BY <4>5, <5>1, <5>2 DEF TaskBooks
          <5>4. CASE i.id \in signal[s]
            BY <4>4, <5>1, <5>3, <5>4 DEF Signals, SignalsOf, Awake
          <5>5. CASE i.id \notin signal[s]
            BY <5>1, <5>3, <5>5, WakeIs DEF Awake, Entry
          <5>6. QED
            BY <5>4, <5>5
        <4>6. ASSUME NEW u \in Services, NEW i \in slots'[u], NEW j \in tasks'[u],
                     i.result # "none", j.wait = i.session
              PROVE  Awake(u, j.id)'
          <5>1. CASE u = s /\ i = l
            BY <2>4, <4>1, <4>5, <4>6, <5>1
          <5>2. CASE ~(u = s /\ i = l)
            <6>1. i \in slots[u] /\ j \in tasks[u]
              BY <2>4, <4>1, <4>2, <5>2
            <6>2. Awake(u, j.id)
              BY <4>6, <6>1 DEF Results, Awake
            <6>3. QED
              BY <4>4, <6>2
          <5>3. QED
            BY <5>1, <5>2
        <4>7. QED
          BY <4>6 DEF Results, Awake
      <3>3. QED
        BY <3>1, <3>2
    <2>5. QED
      BY <1>6, <2>2, <2>3, <2>4, TakeIs
  <1>7. ASSUME NEW s \in Services, TakePending(s) PROVE Results'
    <2>1. /\ InstallTask(s, Head(kept[s])) /\ Head(kept[s]) \in Messages
          /\ UNCHANGED <<slots, waking, run>>
      BY <1>7, PendingIs DEF execs
    <2>2. QED
      BY <2>1, ResultsInstall
  <1>8. ASSUME NEW s \in Services, TakeReady(s) PROVE Results'
    <2> DEFINE id == Head(ready[s])
    <2>1. /\ Elems(ready[s]) = Elems(ready'[s]) \cup {id} /\ pc[s] = "free"
          /\ \A u \in Services \ {s} : ready'[u] = ready[u] /\ run'[u] = run[u]
          /\ run'[s] = id \/ ((\A k \in tasks[s] : k.id # id) /\ UNCHANGED run)
          /\ UNCHANGED <<tasks, slots, waking>>
      BY <1>8, ReadyIs
    <2>2. run[s] = 0 /\ \A k \in tasks[s] : k.id # 0
      <3>1. run[s] = 0
        BY <2>1 DEF Control, PollPC
      <3>2. generation[s] \in Nat /\ \A k \in tasks[s] : k.id \in 1..generation[s]
        BY DEF TaskBooks, Types, SetTyped
      <3>3. QED
        BY <3>1, <3>2
    <2> HIDE DEF id
    <2>3. \A u \in Services : \A k \in tasks[u] : Awake(u, k.id) => Awake(u, k.id)'
      BY <2>1, <2>2 DEF Awake, Entry
    <2>4. QED
      BY <2>1, <2>3, ResultsKept
  <1>9. ASSUME NEW s \in Services, PollCall(s) PROVE Results'
    <2>1. /\ pc[s] \in PollPC /\ UNCHANGED <<ready, waking>>
          /\ \A u \in Services \ {s} : /\ run'[u] = run[u] /\ slots'[u] = slots[u]
                                        /\ tasks'[u] = tasks[u]
      BY <1>9, PollIs DEF boxes
    <2>2. Current(s) \in tasks[s] /\ \A k \in tasks[s] : k.id = run[s] => k = Current(s)
      BY <2>1, CurrentIs
    <2>3. CASE /\ run'[s] = 0 /\ UNCHANGED <<slots, tasks>>
               /\ \E k \in slots[s] : k.session = Current(s).wait /\ k.result = "none"
      <3>1. \A k \in slots[s] : k.session = Current(s).wait => k.result = "none"
        BY <2>3 DEF SessionBooks
      <3>2. ASSUME NEW u \in Services, NEW k \in slots[u], NEW j \in tasks[u],
                   k.result # "none", j.wait = k.session, Awake(u, j.id)
            PROVE  Awake(u, j.id)'
        BY <2>1, <2>2, <2>3, <3>1, <3>2 DEF Awake, Entry
      <3>3. QED
        BY <2>3, <3>2, ResultsKept
    <2>4. CASE /\ run'[s] = run[s] /\ slots'[s] \subseteq slots[s]
               /\ \E j \in Tasks : j.wait = 0 /\ tasks'[s] = (tasks[s] \ {Current(s)}) \cup {j}
      <3>1. \A u \in Services : \A k \in slots[u] : k.session # 0
        BY SlotNamed
      <3>2. \A u \in Services : \A id : Awake(u, id) => Awake(u, id)'
        BY <2>1, <2>4 DEF Awake, Entry
      <3>3. QED
        BY <2>1, <2>4, <3>1, <3>2, ResultsKept
    <2>5. QED
      BY <1>9, <2>3, <2>4, PollIs
  <1>10. ASSUME NEW s \in Services, Abandon(s) PROVE Results'
    <2>1. /\ UNCHANGED <<ready, waking, run>> /\ slots'[s] \subseteq slots[s]
          /\ \E j \in Tasks : j.wait = 0 /\ tasks'[s] = (tasks[s] \ {Current(s)}) \cup {j}
          /\ \A u \in Services \ {s} : slots'[u] = slots[u] /\ tasks'[u] = tasks[u]
      BY <1>10, AbandonIs DEF boxes
    <2>2. \A u \in Services : \A k \in slots[u] : k.session # 0
      BY SlotNamed
    <2>3. \A u \in Services : \A id : Awake(u, id) => Awake(u, id)'
      BY <2>1 DEF Awake, Entry
    <2>4. QED
      BY <2>1, <2>2, <2>3, ResultsKept
  <1>11. ASSUME NEW s \in Services, NEW d \in Services, Call(s, d) PROVE Results'
    <2>1. /\ pc[s] \in PollPC /\ UNCHANGED <<ready, waking, run>> /\ NewCall(s)
          /\ Waiting(s) \/ UNCHANGED <<slots, tasks>>
      BY <1>11, CallIs DEF boxes
    <2>2. CASE UNCHANGED <<slots, tasks>>
      BY <2>1, <2>2 DEF Results, Entry
    <2>3. QED
      BY <2>1, <2>2, ResultsCall
  <1>12. ASSUME NEW s \in Services, NEW d \in Services, Post(s, d) PROVE Results'
    <2>1. UNCHANGED <<ready, run, slots, tasks, waking>>
      BY <1>12 DEF Post, OtherEvent, lives, boxes, sets, execs, count, hist
    <2>2. QED
      BY <2>1 DEF Results, Entry
  <1>13. ASSUME NEW s \in Services, Push(s) PROVE Results'
    <2>1. UNCHANGED <<ready, run, slots, tasks, waking>>
      BY <1>13 DEF Push, lives, boxes, sets, execs, count, hist
    <2>2. QED
      BY <2>1 DEF Results, Entry
  <1>14. ASSUME NEW s \in Services, CallExternal(s) PROVE Results'
    <2>1. /\ pc[s] \in PollPC /\ UNCHANGED <<ready, waking, run>> /\ NewCall(s) /\ Waiting(s)
      BY <1>14, ExternalIs DEF boxes
    <2>2. QED
      BY <2>1, ResultsCall
  <1>15. ASSUME NEW s \in Services, NEW kind \in Answers, UserReply(s, kind) PROVE Results'
    <2>1. /\ pc[s] \in PollPC /\ UNCHANGED <<ready, waking, run, slots>>
          /\ \A u \in Services \ {s} : tasks'[u] = tasks[u]
          /\ \E j \in Tasks : /\ j.id = run[s] /\ j.wait = Current(s).wait
                              /\ tasks'[s] = (tasks[s] \ {Current(s)}) \cup {j}
      BY <1>15, UserReplyIs DEF execs
    <2>2. Current(s) \in tasks[s] /\ Current(s).id = run[s]
      BY <2>1, CurrentIs
    <2>3. \A u \in Services : \A id : Awake(u, id) => Awake(u, id)'
      BY <2>1 DEF Awake, Entry
    <2>4. QED
      BY <2>1, <2>2, <2>3, ResultsKept
  <1>16. ASSUME NEW s \in Services, Spawn(s) PROVE Results'
    <2>1. InstallTask(s, NoMessage) /\ UNCHANGED <<slots, waking, run>>
      BY <1>16 DEF Spawn, execs
    <2>2. QED
      BY <2>1, RecordsTyped, ResultsInstall
  <1>17. ASSUME NEW s \in Services, Exit(s) PROVE Results'
    <2>1. UNCHANGED <<ready, run, slots, tasks, waking>>
      BY <1>17 DEF Exit, lives, boxes, sets, execs, count, hist
    <2>2. QED
      BY <2>1 DEF Results, Entry
  <1>18. ASSUME NEW s \in Services, FailOne(s) PROVE Results'
    <2>1. UNCHANGED <<ready, waking, run, slots>>
      BY <1>18 DEF FailOne, execs
    <2>2. \A u \in Services : \A j \in tasks'[u] : \E i \in tasks[u] : i.id = j.id /\ i.wait = j.wait
      BY <1>18, Failed
    <2>3. \A u \in Services : \A id : Awake(u, id) => Awake(u, id)'
      BY <2>1 DEF Awake, Entry
    <2>4. QED
      BY <2>1, <2>2, <2>3, ResultsKept
  <1>19. ASSUME NEW s \in Services, ExitFails(s), ~FailOne(s) PROVE Results'
    <2>1. UNCHANGED <<ready, run, slots, tasks, waking>>
      BY <1>19 DEF ExitFails, lives, boxes, sets, execs, count, hist
    <2>2. QED
      BY <2>1 DEF Results, Entry
  <1>20. ASSUME NEW s \in Services, InitFails(s) PROVE Results'
    <2>1. UNCHANGED <<ready, run, slots, tasks, waking>>
      BY <1>20 DEF InitFails, lives, boxes, sets, execs, count, hist
    <2>2. QED
      BY <2>1 DEF Results, Entry
  <1>21. ASSUME NEW s \in Services, Return(s) PROVE Results'
    <2>1. /\ pc[s] \in PollPC /\ UNCHANGED <<ready, waking, slots>>
          /\ tasks'[s] = tasks[s] \ {Current(s)}
          /\ \A u \in Services \ {s} : run'[u] = run[u] /\ tasks'[u] = tasks[u]
      BY <1>21, ReturnIs DEF boxes
    <2>2. \A k \in tasks[s] : k.id = run[s] => k = Current(s)
      BY <2>1, CurrentIs
    <2>3. \A u \in Services : \A j \in tasks'[u] : j \in tasks[u] /\ (Awake(u, j.id) => Awake(u, j.id)')
      BY <2>1, <2>2 DEF Awake, Entry
    <2>4. QED
      BY <2>1, <2>3, ResultsKept
  <1>22. ASSUME NEW s \in Services, Cleanup(s) PROVE Results'
    <2>1. UNCHANGED <<ready, run, slots, tasks, waking>>
      BY <1>22 DEF Cleanup, lives, boxes, sets, execs, count, hist
    <2>2. QED
      BY <2>1 DEF Results, Entry
  <1>23. ASSUME NEW s \in Services, CleanDrops(s) PROVE Results'
    <2>1. /\ UNCHANGED <<run, waking>> /\ tasks'[s] = {}
          /\ \A u \in Services \ {s} : /\ tasks'[u] = tasks[u] /\ ready'[u] = ready[u]
                                        /\ slots'[u] = slots[u]
      BY <1>23, DropIs
    <2>2. \A u \in Services \ {s} : \A id : Awake(u, id) => Awake(u, id)'
      BY <2>1 DEF Awake, Entry
    <2>3. QED
      BY <2>1, <2>2, ResultsKept
  <1>24. ASSUME NEW s \in Services, CleanRefuses(s) PROVE Results'
    <2>1. UNCHANGED <<ready, run, slots, tasks, waking>>
      BY <1>24 DEF CleanRefuses, lives, boxes, sets, execs, count, hist
    <2>2. QED
      BY <2>1 DEF Results, Entry
  <1>25. ASSUME NEW s \in Services, CleanReleases(s) PROVE Results'
    <2>1. UNCHANGED <<ready, run, slots, tasks, waking>>
      BY <1>25 DEF CleanReleases, lives, boxes, sets, execs, count, hist
    <2>2. QED
      BY <2>1 DEF Results, Entry
  <1>26. ASSUME UNCHANGED vars PROVE Results'
    <2>1. UNCHANGED <<ready, run, slots, tasks, waking>>
      BY <1>26 DEF vars, lives, boxes, sets, execs, count, hist
    <2>2. QED
      BY <2>1 DEF Results, Entry
  <1>27. QED
    BY <1>1, <1>2, <1>3, <1>4, <1>5, <1>6, <1>7, <1>8, <1>9, <1>10, <1>11, <1>12, <1>13,
       <1>14, <1>15, <1>16, <1>17, <1>18, <1>19, <1>20, <1>21, <1>22, <1>23, <1>24, <1>25,
       <1>26
    DEF Next, Environment, Execute, User, CleanFails, ExitFails

-----------------------------------------------------------------------------
(* A message mentions a call that is known: as a request, or as an answer  *)
(* for its receiver u.                                                     *)
Told(m)     == m.kind = "call" => Names(m.from, m.session, m.call)
Heard(u, m) == Told(m) /\ (m.kind \in Answers => Names(u, m.session, m.call))

(* Whatever mentions a call mentions a known one. *)
LEMMA AllKnown ==
    ASSUME NEW u \in Services
    PROVE  /\ \A m \in Elems(inbox[u]) : Heard(u, m)
           /\ \A m \in Elems(kept[u]) : Told(m)
           /\ \A k \in tasks[u] : Told(k.msg)
           /\ Told(out[u].msg)
  <1>1. \A m \in Elems(inbox[u]) \cup Elems(kept[u]) : Told(m)
    BY DEF Told, Names, AsksFor
  <1>2. \A m \in Elems(inbox[u]) : m.kind \in Answers => Names(u, m.session, m.call)
    BY DEF Names
  <1>3. (\A k \in tasks[u] : Told(k.msg)) /\ Told(out[u].msg)
    BY DEF Told, Names, AsksFor
  <1>4. QED
    BY <1>1, <1>2, <1>3 DEF Heard

(* A step after which only known calls are mentioned. *)
LEMMA NamesKept ==
    ASSUME \A u \in Services : \A k \in slots'[u] :
             \E i \in slots[u] : i.session = k.session /\ i.call = k.call,
           tokens' \subseteq tokens,
           \A u \in Services : \A m \in Elems(inbox'[u]) : Heard(u, m),
           \A u \in Services : \A m \in Elems(kept'[u]) : Told(m),
           \A u \in Services : \A j \in tasks'[u] : Told(j.msg),
           \A u \in Services : Told(out'[u].msg),
           NEW f \in Services, NEW n, NEW c, Names(f, n, c)'
    PROVE  Names(f, n, c)
  <1>1. CASE \E k \in slots'[f] : k.session = n /\ k.call = c
    BY <1>1 DEF Names
  <1>2. CASE \E t \in tokens' : t.from = f /\ t.session = n /\ t.call = c
    BY <1>2 DEF Names
  <1>3. CASE \E m \in Elems(inbox'[f]) : m.kind \in Answers /\ m.session = n /\ m.call = c
    BY <1>3 DEF Heard
  <1>4. CASE \E s \in Services :
               \/ AsksFor(out'[s].msg, f, n, c)
               \/ \E m \in Elems(inbox'[s]) \cup Elems(kept'[s]) : AsksFor(m, f, n, c)
               \/ \E k \in tasks'[s] : AsksFor(k.msg, f, n, c)
    <2>1. PICK m : AsksFor(m, f, n, c) /\ Told(m)
      BY <1>4 DEF Heard
    <2>2. QED
      BY <2>1 DEF AsksFor, Told
  <1>5. QED
    BY <1>1, <1>2, <1>3, <1>4 DEF Names

(* No new names, no new numbers: the book stays true. *)
LEMMA BookKept ==
    ASSUME Types, Book, \A f \in Services : \A n, c \in Nat : Names(f, n, c)' => Names(f, n, c),
           UNCHANGED <<next, calls>>,
           \A u \in Services : out'[u].msg.kind = "call" => out'[u].msg.from = u
    PROVE  Book'
  BY DEF Book

(* Nothing that mentions a call changes. *)
LEMMA BookSame ==
    ASSUME Book, UNCHANGED <<calls, inbox, kept, next, out, slots, tasks, tokens>>
    PROVE  Book'
  <1>1. \A f, n, c : Names(f, n, c)' <=> Names(f, n, c)
    BY DEF Names
  <1>2. QED
    BY <1>1 DEF Book

(* The answer to a request that is known. *)
LEMMA AnswerHeard ==
    ASSUME Types, NEW kind \in Answers, NEW m, Asked(m), SendReply(kind, m)
    PROVE  \A u \in Services : \A a \in Elems(inbox'[u]) : Heard(u, a)
  <1>1. /\ Reply(kind, m).kind = kind /\ Reply(kind, m).session = m.session
        /\ Reply(kind, m).call = m.call
        /\ \A u \in Services : u # m.from \/ u \notin table => inbox'[u] = inbox[u]
        /\ m.from \in table =>
                Elems(inbox'[m.from]) = Elems(inbox[m.from]) \cup {Reply(kind, m)}
    <2>1. /\ Reply(kind, m).kind = kind /\ Reply(kind, m).session = m.session
          /\ Reply(kind, m).call = m.call
      BY Replies
    <2>2. \A u \in Services : u # m.from \/ u \notin table => inbox'[u] = inbox[u]
      BY Replies
    <2>3. m.from \in table =>
             Elems(inbox'[m.from]) = Elems(inbox[m.from]) \cup {Reply(kind, m)}
      BY Replies
    <2>4. QED
      BY <2>1, <2>2, <2>3
  <1>2. Heard(m.from, Reply(kind, m))
    BY <1>1 DEF Heard, Told, Asked, Answers
  <1>3. QED
    BY <1>1, <1>2, AllKnown

(* A call begins: its session is the next of its caller, and its number is *)
(* new.                                                                    *)
LEMMA BookGrow ==
    ASSUME Types, Book, NEW s \in Services, calls' = calls + 1, next'[s] = next[s] + 1,
           \A u \in Services \ {s} : next'[u] = next[u],
           \A f \in Services : \A n, c \in Nat : Names(f, n, c)' =>
               Names(f, n, c) \/ (f = s /\ n = next[s] + 1 /\ c = calls + 1),
           \A u \in Services : out'[u].msg.kind = "call" => out'[u].msg.from = u
    PROVE  Book'
  <1>1. calls \in Nat /\ \A u \in Services : next[u] \in Nat
    BY DEF Types, CountTyped, SetTyped
  <1>2. ASSUME NEW f \in Services, NEW n \in Nat, NEW c \in Nat, Names(f, n, c)'
        PROVE  /\ n \in 1..next'[f] /\ c \in 1..calls'
               /\ Names(f, n, c) => n \in 1..next[f] /\ c \in 1..calls
    <2>1. Names(f, n, c) => n \in 1..next[f] /\ c \in 1..calls
      BY DEF Book
    <2>2. CASE Names(f, n, c)
      BY <1>1, <2>1, <2>2
    <2>3. CASE ~Names(f, n, c)
      BY <1>1, <1>2, <2>3
    <2>4. QED
      BY <2>2, <2>3
  <1>3. ASSUME NEW f \in Services, NEW g \in Services, NEW m \in Nat, NEW n \in Nat,
               NEW b \in Nat, NEW c \in Nat, Names(f, m, b)', Names(g, n, c)'
        PROVE  b = c <=> f = g /\ m = n
    <2>1. CASE Names(f, m, b) /\ Names(g, n, c)
      BY <2>1 DEF Book
    <2>2. CASE Names(f, m, b) /\ ~Names(g, n, c)
      BY <1>1, <1>2, <1>3, <2>2
    <2>3. CASE ~Names(f, m, b) /\ Names(g, n, c)
      BY <1>1, <1>2, <1>3, <2>3
    <2>4. CASE ~Names(f, m, b) /\ ~Names(g, n, c)
      BY <1>3, <2>4
    <2>5. QED
      BY <2>1, <2>2, <2>3, <2>4
  <1>4. QED
    BY <1>2, <1>3 DEF Book

(* The session and the task of a new call. *)
LEMMA BookWaiting ==
    ASSUME Types, Control, TaskBooks, Book, NEW s \in Services, pc[s] \in PollPC,
           NewCall(s), Waiting(s), UNCHANGED <<inbox, kept>>,
           \A t \in tokens' : t \in tokens \/ (t.from = s /\ t.session = next[s] + 1 /\ t.call = calls + 1),
           \A u \in Services : out'[u] = out[u] \/ (u = s /\ AsksFor(out'[u].msg, s, next[s] + 1, calls + 1))
    PROVE  Book'
  <1>1. /\ calls' = calls + 1 /\ next'[s] = next[s] + 1
        /\ \A u \in Services \ {s} : next'[u] = next[u] /\ slots'[u] = slots[u]
    BY WaitingIs
  <1>2. PICK l \in Sessions : /\ l.session = next[s] + 1 /\ l.call = calls + 1
                              /\ slots'[s] = slots[s] \cup {l}
    BY WaitingIs
  <1>3. PICK j \in Tasks : /\ j.msg = Current(s).msg
                           /\ tasks'[s] = (tasks[s] \ {Current(s)}) \cup {j}
                           /\ \A u \in Services \ {s} : tasks'[u] = tasks[u]
    BY WaitingIs
  <1>4. Current(s) \in tasks[s]
    BY CurrentIs
  <1>5. ASSUME NEW f \in Services, NEW n \in Nat, NEW c \in Nat, Names(f, n, c)',
               ~(f = s /\ n = next[s] + 1 /\ c = calls + 1)
        PROVE  Names(f, n, c)
    <2>1. CASE \E k \in slots'[f] : k.session = n /\ k.call = c
      BY <1>1, <1>2, <1>5, <2>1 DEF Names
    <2>2. CASE \E t \in tokens' : t.from = f /\ t.session = n /\ t.call = c
      BY <1>5, <2>2 DEF Names
    <2>3. CASE \E m \in Elems(inbox'[f]) : m.kind \in Answers /\ m.session = n /\ m.call = c
      BY <2>3 DEF Names
    <2>4. CASE \E u \in Services :
                 \/ AsksFor(out'[u].msg, f, n, c)
                 \/ \E m \in Elems(inbox'[u]) \cup Elems(kept'[u]) : AsksFor(m, f, n, c)
                 \/ \E k \in tasks'[u] : AsksFor(k.msg, f, n, c)
      <3>1. PICK u \in Services :
                 \/ AsksFor(out'[u].msg, f, n, c)
                 \/ \E m \in Elems(inbox[u]) \cup Elems(kept[u]) : AsksFor(m, f, n, c)
                 \/ \E k \in tasks'[u] : AsksFor(k.msg, f, n, c)
        BY <2>4
      <3>2. AsksFor(out'[u].msg, f, n, c) => out'[u] = out[u]
        BY <1>5 DEF AsksFor
      <3>3. \A k \in tasks'[u] : \E i \in tasks[u] : i.msg = k.msg
        BY <1>3, <1>4
      <3>4. QED
        BY <3>1, <3>2, <3>3 DEF Names
    <2>5. QED
      BY <1>5, <2>1, <2>2, <2>3, <2>4 DEF Names
  <1>6. \A u \in Services : out'[u].msg.kind = "call" => out'[u].msg.from = u
    BY DEF Book, AsksFor
  <1>7. QED
    BY <1>1, <1>5, <1>6, BookGrow

(* Every step keeps the book of calls. *)
LEMMA BookStep ==
    ASSUME Types, Control, TaskBooks, SessionBooks, Book, [Next]_vars
    PROVE  Book'
  <1>1. ASSUME NEW s \in Services, ForeignWake(s) PROVE Book'
    <2>1. UNCHANGED <<calls, inbox, kept, next, out, slots, tasks, tokens>>
      BY <1>1 DEF ForeignWake, OtherEvent, lives, boxes, sets, execs, count, hist
    <2>2. QED
      BY <2>1, BookSame
  <1>2. ASSUME NEW s \in Services, ForeignPush(s) PROVE Book'
    <2>1. UNCHANGED <<calls, inbox, kept, next, out, slots, tasks, tokens>>
      BY <1>2 DEF ForeignPush, lives, boxes, sets, execs, count, hist
    <2>2. QED
      BY <2>1, BookSame
  <1>3. ASSUME NEW t \in tokens, NEW kind \in Answers, ExternalReply(t, kind) PROVE Book'
    <2>1. /\ Asked(t) /\ SendReply(kind, t) /\ tokens' \subseteq tokens
          /\ UNCHANGED <<slots, tasks, kept, out, next, calls>>
      BY <1>3, AskedToken DEF ExternalReply, sets, count
    <2>2. \A u \in Services : \A a \in Elems(inbox'[u]) : Heard(u, a)
      BY <2>1, AnswerHeard
    <2>3. \A f \in Services : \A n, c \in Nat : Names(f, n, c)' => Names(f, n, c)
      BY <2>1, <2>2, AllKnown, NamesKept
    <2>4. QED
      BY <2>1, <2>2, <2>3, BookKept DEF Book
  <1>4. ASSUME NEW s \in Services, Kill(s) PROVE Book'
    <2>1. UNCHANGED <<calls, inbox, kept, next, out, slots, tasks, tokens>>
      BY <1>4 DEF Kill, lives, boxes, sets, execs, count, hist
    <2>2. QED
      BY <2>1, BookSame
  <1>5. ASSUME NEW s \in Services, MarkDead(s) PROVE Book'
    <2>1. UNCHANGED <<calls, inbox, kept, next, out, slots, tasks, tokens>>
      BY <1>5 DEF MarkDead, lives, boxes, sets, execs, count, hist
    <2>2. QED
      BY <2>1, BookSame
  <1>6. ASSUME NEW s \in Services, TakeMessage(s) PROVE Book'
    <2> DEFINE m == Head(inbox[s])
    <2>1. /\ m \in Messages /\ UNCHANGED <<out, tokens, next, calls>> /\ m \in Elems(inbox[s])
          /\ \A u \in Services : Elems(inbox'[u]) \subseteq Elems(inbox[u])
      BY <1>6, TakeIs DEF execs, count
    <2>2. Told(m)
      BY <2>1, AllKnown DEF Heard
    <2>3. \A u \in Services : \A a \in Elems(kept'[u]) : Told(a)
      <3>1. \/ UNCHANGED kept
            \/ /\ Elems(kept'[s]) = Elems(kept[s]) \cup {m}
               /\ \A u \in Services \ {s} : kept'[u] = kept[u]
        BY <1>6, TakeIs
      <3>2. QED
        BY <2>2, <3>1, AllKnown
    <2>4. \A u \in Services : \A j \in tasks'[u] : Told(j.msg)
      BY <1>6, <2>1, <2>2, TakeIs, InstallIs, AllKnown
    <2>5. \A u \in Services : \A k \in slots'[u] :
             \E i \in slots[u] : i.session = k.session /\ i.call = k.call
      BY <1>6, <2>1, TakeIs, CompleteIs
    <2>6. \A u \in Services : \A a \in Elems(inbox'[u]) : Heard(u, a)
      BY <2>1, AllKnown
    <2>7. \A f \in Services : \A n, c \in Nat : Names(f, n, c)' => Names(f, n, c)
      BY <2>1, <2>3, <2>4, <2>5, <2>6, AllKnown, NamesKept
    <2>8. QED
      BY <2>1, <2>3, <2>4, <2>5, <2>6, <2>7, BookKept DEF Book
  <1>7. ASSUME NEW s \in Services, TakePending(s) PROVE Book'
    <2> DEFINE m == Head(kept[s])
    <2>1. /\ m \in Messages /\ UNCHANGED <<inbox, slots, out, tokens, next, calls>>
          /\ m \in Elems(kept[s]) /\ InstallTask(s, m)
          /\ \A u \in Services : Elems(kept'[u]) \subseteq Elems(kept[u])
      BY <1>7, PendingIs DEF execs, count
    <2>2. Told(m)
      BY <2>1, AllKnown
    <2>3. \A u \in Services : \A j \in tasks'[u] : Told(j.msg)
      BY <2>1, <2>2, InstallIs, AllKnown
    <2>4. \A f \in Services : \A n, c \in Nat : Names(f, n, c)' => Names(f, n, c)
      BY <2>1, <2>3, AllKnown, NamesKept
    <2>5. QED
      BY <2>1, <2>3, <2>4, BookKept DEF Book
  <1>8. ASSUME NEW s \in Services, TakeReady(s) PROVE Book'
    <2>1. UNCHANGED <<calls, inbox, kept, next, out, slots, tasks, tokens>>
      BY <1>8 DEF TakeReady, lives, boxes, sets, execs, count, hist
    <2>2. QED
      BY <2>1, BookSame
  <1>9. ASSUME NEW s \in Services, PollCall(s) PROVE Book'
    <2>1. /\ pc[s] \in PollPC /\ UNCHANGED <<inbox, kept, out, tokens, next, calls>>
          /\ \A u \in Services : slots'[u] \subseteq slots[u]
      BY <1>9, PollIs DEF boxes, count
    <2>2. Current(s) \in tasks[s]
      BY <2>1, CurrentIs
    <2>3. \A u \in Services : \A j \in tasks'[u] : \E i \in tasks[u] : i.msg = j.msg
      BY <1>9, <2>2, PollIs
    <2>4. \A u \in Services : \A j \in tasks'[u] : Told(j.msg)
      BY <2>3, AllKnown
    <2>5. \A f \in Services : \A n, c \in Nat : Names(f, n, c)' => Names(f, n, c)
      BY <2>1, <2>4, AllKnown, NamesKept
    <2>6. QED
      BY <2>1, <2>4, <2>5, BookKept DEF Book
  <1>10. ASSUME NEW s \in Services, Abandon(s) PROVE Book'
    <2>1. /\ pc[s] \in PollPC /\ UNCHANGED <<inbox, kept, out, next, calls>>
          /\ tokens' \subseteq tokens /\ \A u \in Services : slots'[u] \subseteq slots[u]
      BY <1>10, AbandonIs DEF boxes, count
    <2>2. Current(s) \in tasks[s]
      BY <2>1, CurrentIs
    <2>3. \A u \in Services : \A j \in tasks'[u] : \E i \in tasks[u] : i.msg = j.msg
      BY <1>10, <2>2, AbandonIs
    <2>4. \A u \in Services : \A j \in tasks'[u] : Told(j.msg)
      BY <2>3, AllKnown
    <2>5. \A f \in Services : \A n, c \in Nat : Names(f, n, c)' => Names(f, n, c)
      BY <2>1, <2>4, AllKnown, NamesKept
    <2>6. QED
      BY <2>1, <2>4, <2>5, BookKept DEF Book
  <1>11. ASSUME NEW s \in Services, NEW d \in Services, Call(s, d) PROVE Book'
    <2>1. /\ pc[s] \in PollPC /\ NewCall(s) /\ UNCHANGED <<inbox, kept, tokens>>
          /\ calls' = calls + 1 /\ next'[s] = next[s] + 1
          /\ \A u \in Services \ {s} : next'[u] = next[u] /\ out'[u] = out[u]
      BY <1>11, CallIs DEF boxes
    <2>2. CASE Waiting(s) /\ AsksFor(out'[s].msg, s, next[s] + 1, calls + 1)
      BY <2>1, <2>2, BookWaiting
    <2>3. CASE UNCHANGED <<slots, tasks, out>>
      <3>1. \A f \in Services : \A n, c \in Nat : Names(f, n, c)' => Names(f, n, c)
        BY <2>1, <2>3 DEF Names
      <3>2. \A u \in Services : out'[u].msg.kind = "call" => out'[u].msg.from = u
        BY <2>3 DEF Book
      <3>3. QED
        BY <2>1, <3>1, <3>2, BookGrow
    <2>4. QED
      BY <1>11, <2>2, <2>3, CallIs DEF AsksFor
  <1>12. ASSUME NEW s \in Services, NEW d \in Services, Post(s, d) PROVE Book'
    <2>1. /\ UNCHANGED <<inbox, kept, tokens, next, calls, slots, tasks>>
          /\ out'[s].msg.kind = "post" /\ \A u \in Services \ {s} : out'[u] = out[u]
      BY <1>12 DEF Post, NoMessage, boxes, sets, Types, ExecTyped
    <2>2. \A u \in Services : Told(out'[u].msg)
      BY <2>1, AllKnown DEF Told
    <2>3. \A f \in Services : \A n, c \in Nat : Names(f, n, c)' => Names(f, n, c)
      BY <2>1, <2>2, AllKnown, NamesKept
    <2>4. QED
      BY <2>1, <2>2, <2>3, BookKept DEF Book
  <1>13. ASSUME NEW s \in Services, Push(s) PROVE Book'
    <2> DEFINE d == out[s].to
    <2>1. /\ UNCHANGED <<kept, tokens, next, calls, slots, tasks>> /\ d \in Services
          /\ out'[s] = Nothing /\ \A u \in Services \ {s} : out'[u] = out[u]
          /\ out[s].msg.kind \in Requests
          /\ Stamped(s).kind = out[s].msg.kind
          /\ Stamped(s).from = out[s].msg.from /\ Stamped(s).session = out[s].msg.session
          /\ Stamped(s).call = out[s].msg.call
          /\ \A u \in Services \ {d} : inbox'[u] = inbox[u]
          /\ Elems(inbox'[d]) = Elems(inbox[d]) \cup {Stamped(s)}
      BY <1>13, PushIs DEF sets, count
    <2>2. Heard(d, Stamped(s))
      BY <2>1, AllKnown DEF Heard, Told, Requests, Answers
    <2>3. \A u \in Services : \A a \in Elems(inbox'[u]) : Heard(u, a)
      BY <2>1, <2>2, AllKnown
    <2>4. \A u \in Services : Told(out'[u].msg) /\ (out'[u].msg.kind = "call" => out'[u].msg.from = u)
      BY <2>1, AllKnown DEF Told, Nothing, NoMessage, Book
    <2>5. \A f \in Services : \A n, c \in Nat : Names(f, n, c)' => Names(f, n, c)
      BY <2>1, <2>3, <2>4, AllKnown, NamesKept
    <2>6. QED
      BY <2>1, <2>3, <2>4, <2>5, BookKept DEF Book
  <1>14. ASSUME NEW s \in Services, CallExternal(s) PROVE Book'
    <2>1. /\ pc[s] \in PollPC /\ NewCall(s) /\ Waiting(s) /\ UNCHANGED <<inbox, kept, out>>
      BY <1>14, ExternalIs DEF boxes
    <2>2. \A t \in tokens' :
             t \in tokens \/ (t.from = s /\ t.session = next[s] + 1 /\ t.call = calls + 1)
      BY <1>14, ExternalIs
    <2>3. QED
      BY <2>1, <2>2, BookWaiting
  <1>15. ASSUME NEW s \in Services, NEW kind \in Answers, UserReply(s, kind) PROVE Book'
    <2>1. /\ pc[s] \in PollPC /\ Asked(Current(s).msg) /\ SendReply(kind, Current(s).msg)
          /\ UNCHANGED <<slots, tokens, kept, out, next, calls>>
      BY <1>15, UserReplyIs DEF execs, count
    <2>2. \A u \in Services : \A a \in Elems(inbox'[u]) : Heard(u, a)
      BY <2>1, AnswerHeard
    <2>3. Current(s) \in tasks[s]
      BY <2>1, CurrentIs
    <2>4. \A u \in Services : \A j \in tasks'[u] : \E i \in tasks[u] : i.msg = j.msg
      BY <1>15, <2>3, UserReplyIs
    <2>5. \A u \in Services : \A j \in tasks'[u] : Told(j.msg)
      BY <2>4, AllKnown
    <2>6. \A f \in Services : \A n, c \in Nat : Names(f, n, c)' => Names(f, n, c)
      BY <2>1, <2>2, <2>5, AllKnown, NamesKept
    <2>7. QED
      BY <2>1, <2>2, <2>5, <2>6, BookKept DEF Book
  <1>16. ASSUME NEW s \in Services, Spawn(s) PROVE Book'
    <2>1. /\ InstallTask(s, NoMessage) /\ UNCHANGED <<slots, tokens, inbox, kept, out, next, calls>>
      BY <1>16 DEF Spawn, execs
    <2>2. \A u \in Services : \A j \in tasks'[u] : j \in tasks[u] \/ j.msg = NoMessage
      BY <2>1, RecordsTyped, InstallIs
    <2>3. \A u \in Services : \A j \in tasks'[u] : Told(j.msg)
      BY <2>2, AllKnown DEF Told, NoMessage
    <2>4. \A f \in Services : \A n, c \in Nat : Names(f, n, c)' => Names(f, n, c)
      BY <2>1, <2>3, AllKnown, NamesKept
    <2>5. QED
      BY <2>1, <2>3, <2>4, BookKept DEF Book
  <1>17. ASSUME NEW s \in Services, Exit(s) PROVE Book'
    <2>1. UNCHANGED <<calls, inbox, kept, next, out, slots, tasks, tokens>>
      BY <1>17 DEF Exit, lives, boxes, sets, execs, count, hist
    <2>2. QED
      BY <2>1, BookSame
  <1>18. ASSUME NEW s \in Services, FailOne(s) PROVE Book'
    <2>1. UNCHANGED <<slots, tokens, kept, out, next, calls>>
      BY <1>18 DEF FailOne, execs, count
    <2>2. PICK k \in tasks[s], j \in Tasks :
             /\ Asked(k.msg) /\ SendReply("ERROR", k.msg) /\ j.msg = k.msg
             /\ tasks'[s] = (tasks[s] \ {k}) \cup {j}
             /\ \A u \in Services \ {s} : tasks'[u] = tasks[u]
      BY <1>18, Failed
    <2>3. \A u \in Services : \A a \in Elems(inbox'[u]) : Heard(u, a)
      BY <2>2, AnswerHeard DEF Answers
    <2>4. \A u \in Services : \A i \in tasks'[u] : Told(i.msg)
      BY <2>2, AllKnown
    <2>5. \A f \in Services : \A n, c \in Nat : Names(f, n, c)' => Names(f, n, c)
      BY <2>1, <2>3, <2>4, AllKnown, NamesKept
    <2>6. QED
      BY <2>1, <2>3, <2>4, <2>5, BookKept DEF Book
  <1>19. ASSUME NEW s \in Services, ExitFails(s), ~FailOne(s) PROVE Book'
    <2>1. UNCHANGED <<calls, inbox, kept, next, out, slots, tasks, tokens>>
      BY <1>19 DEF ExitFails, lives, boxes, sets, execs, count, hist
    <2>2. QED
      BY <2>1, BookSame
  <1>20. ASSUME NEW s \in Services, InitFails(s) PROVE Book'
    <2>1. UNCHANGED <<calls, inbox, kept, next, out, slots, tasks, tokens>>
      BY <1>20 DEF InitFails, lives, boxes, sets, execs, count, hist
    <2>2. QED
      BY <2>1, BookSame
  <1>21. ASSUME NEW s \in Services, Return(s) PROVE Book'
    <2>1. /\ UNCHANGED <<slots, tokens, inbox, kept, out, next, calls>>
          /\ \A u \in Services : tasks'[u] \subseteq tasks[u]
      BY <1>21, ReturnIs DEF boxes, count
    <2>2. \A u \in Services : \A j \in tasks'[u] : Told(j.msg)
      BY <2>1, AllKnown
    <2>3. \A f \in Services : \A n, c \in Nat : Names(f, n, c)' => Names(f, n, c)
      BY <2>1, <2>2, AllKnown, NamesKept
    <2>4. QED
      BY <2>1, <2>2, <2>3, BookKept DEF Book
  <1>22. ASSUME NEW s \in Services, Cleanup(s) PROVE Book'
    <2>1. UNCHANGED <<calls, inbox, kept, next, out, slots, tasks, tokens>>
      BY <1>22 DEF Cleanup, lives, boxes, sets, execs, count, hist
    <2>2. QED
      BY <2>1, BookSame
  <1>23. ASSUME NEW s \in Services, CleanDrops(s) PROVE Book'
    <2>1. /\ UNCHANGED <<tokens, out, next, calls>>
          /\ \A u \in Services : tasks'[u] \subseteq tasks[u] /\ slots'[u] \subseteq slots[u]
          /\ \A u \in Services : Elems(kept'[u]) \subseteq Elems(inbox[u]) \cup Elems(kept[u])
          /\ \A u \in Services : Elems(inbox'[u]) \subseteq Elems(inbox[u])
      BY <1>23, DropIs, NoElems DEF count
    <2>2. \A u \in Services : /\ \A j \in tasks'[u] : Told(j.msg)
                              /\ \A m \in Elems(kept'[u]) : Told(m)
                              /\ \A m \in Elems(inbox'[u]) : Heard(u, m)
      BY <2>1, AllKnown DEF Heard
    <2>3. \A f \in Services : \A n, c \in Nat : Names(f, n, c)' => Names(f, n, c)
      BY <2>1, <2>2, AllKnown, NamesKept
    <2>4. QED
      BY <2>1, <2>2, <2>3, BookKept DEF Book
  <1>24. ASSUME NEW s \in Services, CleanRefuses(s) PROVE Book'
    <2> DEFINE m == Head(kept[s])
    <2>1. /\ UNCHANGED <<slots, tasks, tokens, out, next, calls>>
          /\ \A u \in Services : Elems(kept'[u]) \subseteq Elems(kept[u])
      BY <1>24, RefuseIs DEF sets, execs, count
    <2>2. (Asked(m) /\ SendReply("ERROR", m)) \/ UNCHANGED inbox
      BY <1>24, RefuseIs
    <2>3. \A u \in Services : \A a \in Elems(inbox'[u]) : Heard(u, a)
      BY <2>2, AnswerHeard, AllKnown DEF Answers
    <2>4. \A f \in Services : \A n, c \in Nat : Names(f, n, c)' => Names(f, n, c)
      BY <2>1, <2>3, AllKnown, NamesKept
    <2>5. QED
      BY <2>1, <2>3, <2>4, BookKept DEF Book
  <1>25. ASSUME NEW s \in Services, CleanReleases(s) PROVE Book'
    <2>1. UNCHANGED <<calls, inbox, kept, next, out, slots, tasks, tokens>>
      BY <1>25 DEF CleanReleases, lives, boxes, sets, execs, count, hist
    <2>2. QED
      BY <2>1, BookSame
  <1>26. ASSUME UNCHANGED vars PROVE Book'
    <2>1. UNCHANGED <<calls, inbox, kept, next, out, slots, tasks, tokens>>
      BY <1>26 DEF vars, lives, boxes, sets, execs, count, hist
    <2>2. QED
      BY <2>1, BookSame
  <1>27. QED
    BY <1>1, <1>2, <1>3, <1>4, <1>5, <1>6, <1>7, <1>8, <1>9, <1>10, <1>11, <1>12, <1>13,
       <1>14, <1>15, <1>16, <1>17, <1>18, <1>19, <1>20, <1>21, <1>22, <1>23, <1>24, <1>25,
       <1>26
    DEF Next, Environment, Execute, User, CleanFails, ExitFails

-----------------------------------------------------------------------------
(* The first answer in a queue: what Append and Tail do about it.          *)
LEMMA LeadsAppend ==
    ASSUME NEW q \in Seq(Messages), NEW x \in Messages, NEW c, NEW a, Leads(q, c, a),
           Has(q, c) \/ ~AnswersTo(x, c) \/ x.kind = a
    PROVE  Leads(Append(q, x), c, a)
  <1> DEFINE r == Append(q, x)
  <1>1. /\ Len(q) \in Nat /\ DOMAIN q = 1..Len(q) /\ DOMAIN r = 1..(Len(q) + 1)
        /\ \A i \in 1..Len(q) : r[i] = q[i]
        /\ r[Len(q) + 1] = x
    BY Appended
  <1> HIDE DEF r
  <1>2. SUFFICES ASSUME NEW i \in DOMAIN r, AnswersTo(r[i], c),
                        \A j \in DOMAIN r : j < i => ~AnswersTo(r[j], c)
                 PROVE  r[i].kind = a
    BY DEF Leads, r
  <1>3. CASE i \in 1..Len(q)
    <2>1. AnswersTo(q[i], c) /\ \A j \in DOMAIN q : j < i => ~AnswersTo(q[j], c)
      BY <1>1, <1>2, <1>3
    <2>2. QED
      BY <1>1, <1>3, <2>1 DEF Leads
  <1>4. CASE i \notin 1..Len(q)
    <2>1. i = Len(q) + 1 /\ r[i] = x
      BY <1>1, <1>4
    <2>2. \A j \in 1..Len(q) : ~AnswersTo(q[j], c)
      BY <1>1, <1>2, <2>1
    <2>3. ~Has(q, c)
      BY <1>1, <2>2 DEF Has, Elems
    <2>4. QED
      BY <1>2, <2>1, <2>3
  <1>5. QED
    BY <1>3, <1>4

(* The head is the first answer, or the first answer is in the tail. *)
LEMMA LeadsTail ==
    ASSUME NEW q \in Seq(Messages), q # <<>>, NEW c, NEW a, Leads(q, c, a)
    PROVE  /\ AnswersTo(Head(q), c) => Head(q).kind = a
           /\ ~AnswersTo(Head(q), c) => Leads(Tail(q), c, a)
  <1> DEFINE r == Tail(q)
  <1>1. /\ Head(q) = q[1] /\ Len(q) \in Nat \ {0} /\ DOMAIN q = 1..Len(q)
        /\ DOMAIN r = 1..(Len(q) - 1)
        /\ \A i \in 1..(Len(q) - 1) : r[i] = q[i + 1]
    BY Shortened
  <1> HIDE DEF r
  <1>2. ASSUME AnswersTo(Head(q), c) PROVE Head(q).kind = a
    <2>1. 1 \in DOMAIN q /\ \A j \in DOMAIN q : ~(j < 1)
      BY <1>1
    <2>2. QED
      BY <1>1, <1>2, <2>1 DEF Leads
  <1>3. ASSUME ~AnswersTo(Head(q), c), NEW i \in DOMAIN r, AnswersTo(r[i], c),
               \A j \in DOMAIN r : j < i => ~AnswersTo(r[j], c)
        PROVE  r[i].kind = a
    <2>1. i + 1 \in DOMAIN q /\ q[i + 1] = r[i]
      BY <1>1
    <2>2. ASSUME NEW j \in DOMAIN q, j < i + 1 PROVE ~AnswersTo(q[j], c)
      <3>1. CASE j = 1
        BY <1>1, <1>3, <3>1
      <3>2. CASE j # 1
        <4>1. j - 1 \in DOMAIN r /\ j - 1 < i /\ r[j - 1] = q[j]
          BY <1>1, <2>2, <3>2
        <4>2. QED
          BY <1>3, <4>1
      <3>3. QED
        BY <3>1, <3>2
    <2>3. QED
      BY <1>3, <2>1, <2>2 DEF Leads
  <1>4. QED
    BY <1>2, <1>3 DEF Leads, r

(* Without an answer there is no first one. *)
LEMMA LeadsNone ==
    ASSUME NEW q, NEW c, NEW a, ~Has(q, c)
    PROVE  Leads(q, c, a)
  BY DEF Leads, Has, Elems

(* An answer in the inbox of s, a session of s: they mean the same call    *)
(* exactly if they have the same number.                                   *)
LEMMA SameCall ==
    ASSUME Types, Book, NEW s \in Services, NEW m \in Elems(inbox[s]), m.kind \in Answers,
           NEW k \in slots[s]
    PROVE  m.session = k.session <=> m.call = k.call
  <1>1. m \in Messages
    BY DEF Types, BoxTyped, Elems
  <1>2. m.session \in Nat /\ m.call \in Nat /\ Names(s, m.session, m.call)
    BY <1>1, AllKnown DEF Heard, Messages
  <1>3. k.session \in Nat /\ k.call \in Nat /\ Names(s, k.session, k.call)
    BY SlotNamed
  <1>4. QED
    BY <1>2, <1>3 DEF Book

(* An answer in an inbox is to a call that was made. *)
LEMMA AnswerNumber ==
    ASSUME Types, Book, NEW s \in Services, NEW m \in Elems(inbox[s]), m.kind \in Answers
    PROVE  m \in Messages /\ m.call \in 1..calls /\ m.call \in 1..MaxEvents
  <1>1. m \in Messages
    BY DEF Types, BoxTyped, Elems
  <1>2. m.session \in Nat /\ m.call \in Nat /\ Names(s, m.session, m.call)
    BY <1>1, AllKnown DEF Heard, Messages
  <1>3. m.call \in 1..calls
    BY <1>2 DEF Book
  <1>4. QED
    BY <1>1, <1>3, RpcAssumption DEF Types, CountTyped

(* An answer is sent: the first of its call, or one after the first. *)
LEMMA FirstsReply ==
    ASSUME Types, Book, Firsts, NEW kind \in Answers, NEW m, Asked(m), SendReply(kind, m),
           UNCHANGED <<calls, slots, table>>
    PROVE  Firsts'
  <1> DEFINE x == Reply(kind, m)
             f == m.from
  <1>1. x \in Messages /\ x.kind = kind /\ x.call = m.call
    BY Replies
  <1>2. /\ \A u \in Services : u # f \/ u \notin table => inbox'[u] = inbox[u]
        /\ f \in table => inbox'[f] = Append(inbox[f], x)
    BY Replies
  <1>3. f \in table => Elems(inbox'[f]) = Elems(inbox[f]) \cup {x}
    BY Replies
  <1>4. /\ \A c \in 1..MaxEvents :
                first'[c] = IF c = m.call /\ first[c] = "none" THEN kind ELSE first[c]
    BY Replies
  <1>5. /\ f \in Services /\ m.session \in Nat /\ m.call \in 1..calls /\ m.call \in 1..MaxEvents
        /\ m.call \in Nat /\ Names(f, m.session, m.call) /\ calls \in Nat
    BY RpcAssumption DEF Asked, Types, CountTyped
  <1>6. kind # "none"
    BY DEF Answers
  <1> HIDE DEF x, f
  <1>7. \A c \in 1..MaxEvents : c > calls' => first'[c] = "none"
    BY <1>4, <1>5 DEF Firsts
  <1>8. ASSUME NEW u \in Services, NEW a \in Elems(inbox'[u]), a.kind \in Answers
        PROVE  first'[a.call] # "none"
    <2>1. CASE a \in Elems(inbox[u])
      <3>1. a.call \in 1..MaxEvents
        BY <1>8, <2>1, AnswerNumber
      <3>2. first[a.call] # "none"
        BY <1>8, <2>1 DEF Firsts
      <3>3. QED
        BY <1>4, <1>6, <3>1, <3>2
    <2>2. CASE a = x
      BY <1>1, <1>4, <1>5, <1>6, <2>2
    <2>3. QED
      BY <1>2, <1>3, <2>1, <2>2
  <1>9. ASSUME NEW u \in Services, NEW k \in slots[u] PROVE FirstOf(u, k)'
    <2>1. FirstOf(u, k) /\ k.call \in 1..MaxEvents /\ k.call \in Nat /\ k.session \in Nat
      BY SlotNamed DEF Firsts
    <2>2. inbox[u] \in Seq(Messages) /\ (first[k.call] = "none" => ~Has(inbox[u], k.call))
      BY DEF Types, BoxTyped, Firsts, Has, AnswersTo
    <2>3. Has(inbox[u], k.call) => Has(inbox'[u], k.call)
      BY <1>2, <1>3 DEF Has
    <2>4. CASE k.call # m.call
      <3>1. first'[k.call] = first[k.call]
        BY <1>4, <2>1, <2>4
      <3>2. ~AnswersTo(x, k.call)
        BY <1>1, <2>4 DEF AnswersTo
      <3>3. Leads(inbox[u], k.call, first[k.call]) => Leads(inbox'[u], k.call, first[k.call])
        BY <1>1, <1>2, <2>2, <3>2, LeadsAppend
      <3>4. QED
        BY <2>1, <2>3, <3>1, <3>3 DEF FirstOf
    <2>5. CASE k.call = m.call
      <3>1. u = f
        BY <1>5, <2>1, <2>5, SlotNamed DEF Book
      <3>2. u \in table => Has(inbox'[u], k.call)
        BY <1>1, <1>3, <2>5, <3>1 DEF Has, AnswersTo
      <3>3. CASE first[k.call] = "none"
        <4>1. first'[k.call] = kind /\ k.result = "none" /\ ~Has(inbox[u], k.call)
          BY <1>4, <2>1, <2>2, <2>5, <3>3 DEF FirstOf
        <4>2. Leads(inbox[u], k.call, kind)
          BY <4>1, LeadsNone
        <4>3. Leads(inbox'[u], k.call, kind)
          BY <1>1, <1>2, <2>2, <3>1, <4>2, LeadsAppend
        <4>4. QED
          BY <3>2, <4>1, <4>3 DEF FirstOf
      <3>4. CASE first[k.call] # "none"
        <4>1. first'[k.call] = first[k.call]
          BY <1>4, <2>1, <3>4
        <4>2. ASSUME k.result = "none" PROVE Leads(inbox'[u], k.call, first[k.call])
          <5>1. Leads(inbox[u], k.call, first[k.call]) /\ (u \in table => Has(inbox[u], k.call))
            BY <2>1, <3>4, <4>2 DEF FirstOf
          <5>2. QED
            BY <1>1, <1>2, <2>2, <3>1, <5>1, LeadsAppend
        <4>3. QED
          BY <2>1, <3>2, <4>1, <4>2 DEF FirstOf
      <3>5. QED
        BY <3>3, <3>4
    <2>6. QED
      BY <2>4, <2>5
  <1>10. QED
    BY <1>7, <1>8, <1>9 DEF Firsts

(* The table or the sessions shrink. *)
LEMMA FirstsShrink ==
    ASSUME Firsts, table' \subseteq table, \A u \in Services : slots'[u] \subseteq slots[u],
           UNCHANGED <<calls, first, inbox>>
    PROVE  Firsts'
  <1>1. \A u \in Services : \A k \in slots'[u] : FirstOf(u, k)'
    BY DEF Firsts, FirstOf
  <1>2. QED
    BY <1>1 DEF Firsts

(* A new call has no answer. *)
LEMMA FirstsCall ==
    ASSUME Types, Control, TaskBooks, Book, Firsts, NEW s \in Services, pc[s] \in PollPC,
           NewCall(s), Waiting(s), UNCHANGED <<table, first, inbox>>
    PROVE  Firsts'
  <1>1. /\ calls' = calls + 1 /\ calls + 1 \in 1..MaxEvents /\ calls \in Nat
        /\ \A u \in Services \ {s} : slots'[u] = slots[u]
    BY WaitingIs DEF Types, CountTyped
  <1>2. PICK l \in Sessions : l.call = calls + 1 /\ l.result = "none" /\ slots'[s] = slots[s] \cup {l}
    BY WaitingIs
  <1>3. first[calls + 1] = "none"
    BY <1>1 DEF Firsts
  <1>4. ~Has(inbox[s], calls + 1)
    BY <1>1, AnswerNumber DEF Has, AnswersTo
  <1>5. FirstOf(s, l)'
    BY <1>2, <1>3, <1>4, LeadsNone DEF FirstOf
  <1>6. ASSUME NEW u \in Services, NEW k \in slots'[u] PROVE FirstOf(u, k)'
    <2>1. CASE u = s /\ k = l
      BY <1>5, <2>1
    <2>2. CASE k \in slots[u]
      BY <2>2 DEF Firsts, FirstOf
    <2>3. QED
      BY <1>1, <1>2, <2>1, <2>2
  <1>7. \A c \in 1..MaxEvents : c > calls' => first'[c] = "none"
    BY <1>1 DEF Firsts
  <1>8. QED
    BY <1>6, <1>7 DEF Firsts

(* The head of an inbox is taken, and a session that it does not answer.   *)
LEMMA FirstsTail ==
    ASSUME Types, Firsts, NEW s \in Services, inbox[s] # <<>>, inbox'[s] = Tail(inbox[s]),
           UNCHANGED <<table, first>>, NEW k \in slots[s], ~AnswersTo(Head(inbox[s]), k.call)
    PROVE  FirstOf(s, k)'
  <1>1. inbox[s] \in Seq(Messages) /\ FirstOf(s, k)
    BY DEF Types, BoxTyped, Firsts
  <1>2. Elems(inbox[s]) = Elems(inbox'[s]) \cup {Head(inbox[s])}
    BY <1>1, TailElems
  <1>3. Has(inbox[s], k.call) => Has(inbox'[s], k.call)
    BY <1>2 DEF Has
  <1>4. Leads(inbox[s], k.call, first[k.call]) => Leads(inbox'[s], k.call, first[k.call])
    BY <1>1, LeadsTail
  <1>5. QED
    BY <1>1, <1>3, <1>4 DEF FirstOf

(* Every step keeps first answers first. *)
LEMMA FirstsStep ==
    ASSUME Types, Control, TaskBooks, SessionBooks, Book, Firsts, [Next]_vars
    PROVE  Firsts'
  <1>1. ASSUME NEW s \in Services, ForeignWake(s) PROVE Firsts'
    <2>1. UNCHANGED <<calls, first, inbox, slots, table>>
      BY <1>1 DEF ForeignWake, OtherEvent, lives, boxes, sets, execs, count, hist
    <2>2. QED
      BY <2>1, FirstsShrink
  <1>2. ASSUME NEW s \in Services, ForeignPush(s) PROVE Firsts'
    <2>1. UNCHANGED <<calls, first, inbox, slots, table>>
      BY <1>2 DEF ForeignPush, lives, boxes, sets, execs, count, hist
    <2>2. QED
      BY <2>1, FirstsShrink
  <1>3. ASSUME NEW t \in tokens, NEW kind \in Answers, ExternalReply(t, kind) PROVE Firsts'
    <2>1. Asked(t) /\ SendReply(kind, t) /\ UNCHANGED <<calls, slots, table>>
      BY <1>3, AskedToken DEF ExternalReply, sets, count, lives
    <2>2. QED
      BY <2>1, FirstsReply
  <1>4. ASSUME NEW s \in Services, Kill(s) PROVE Firsts'
    <2>1. table' \subseteq table /\ UNCHANGED <<calls, first, inbox, slots>>
      BY <1>4 DEF Kill, boxes, sets, count, hist
    <2>2. QED
      BY <2>1, FirstsShrink
  <1>5. ASSUME NEW s \in Services, MarkDead(s) PROVE Firsts'
    <2>1. UNCHANGED <<calls, first, inbox, slots, table>>
      BY <1>5 DEF MarkDead, lives, boxes, sets, execs, count, hist
    <2>2. QED
      BY <2>1, FirstsShrink
  <1>6. ASSUME NEW s \in Services, TakeMessage(s) PROVE Firsts'
    <2> DEFINE m == Head(inbox[s])
    <2>1. /\ UNCHANGED <<calls, first, table>> /\ m \in Messages /\ inbox[s] # <<>>
          /\ inbox'[s] = Tail(inbox[s]) /\ \A u \in Services \ {s} : inbox'[u] = inbox[u]
          /\ Elems(inbox[s]) = Elems(inbox'[s]) \cup {m}
      BY <1>6, TakeIs DEF count, lives
    <2>2. \A u \in Services : \A a \in Elems(inbox'[u]) : a.kind \in Answers => first'[a.call] # "none"
      BY <2>1 DEF Firsts
    <2>3. SUFFICES ASSUME NEW u \in Services, NEW k \in slots'[u] PROVE FirstOf(u, k)'
      BY <2>1, <2>2 DEF Firsts
    <2>4. CASE u # s
      <3>1. slots'[u] = slots[u]
        BY <1>6, <2>1, <2>4, TakeIs, CompleteIs
      <3>2. QED
        BY <2>1, <2>4, <3>1 DEF Firsts, FirstOf
    <2>5. CASE u = s /\ m.kind \in Requests /\ UNCHANGED slots
      <3>1. ~AnswersTo(m, k.call)
        BY <2>5 DEF AnswersTo, Requests, Answers
      <3>2. QED
        BY <2>1, <2>5, <3>1, FirstsTail
    <2>6. CASE u = s /\ m.kind \in Answers /\ Complete(s, m)
      <3>1. \A i \in slots[s] : m.session = i.session <=> m.call = i.call
        BY <2>1, <2>6, SameCall
      <3>2. CASE k \in slots[s] /\ k.session # m.session
        <4>1. ~AnswersTo(m, k.call)
          BY <3>1, <3>2 DEF AnswersTo
        <4>2. QED
          BY <2>1, <2>6, <3>2, <4>1, FirstsTail
      <3>3. CASE k \in slots[s] /\ k.session = m.session /\ k.result # "none"
        BY <2>1, <2>6, <3>3 DEF Firsts, FirstOf
      <3>4. CASE \E i \in slots[s] : /\ i.session = m.session /\ i.result = "none"
                                     /\ k.call = i.call /\ k.result = m.kind
        <4>1. PICK i \in slots[s] : /\ i.session = m.session /\ i.result = "none"
                                     /\ k.call = i.call /\ k.result = m.kind
          BY <3>4
        <4>2. AnswersTo(m, i.call) /\ Leads(inbox[s], i.call, first[i.call])
          BY <2>6, <3>1, <4>1 DEF AnswersTo, Firsts, FirstOf
        <4>3. m.kind = first[i.call]
          BY <2>1, <4>2, LeadsTail DEF Types, BoxTyped
        <4>4. k.result # "none"
          BY <2>6, <4>1 DEF Answers
        <4>5. QED
          BY <2>1, <4>1, <4>3, <4>4 DEF FirstOf
      <3>5. \/ k \in slots[s] /\ (k.session = m.session => k.result # "none")
            \/ \E i \in slots[s] : /\ i.session = m.session /\ i.result = "none"
                                   /\ k.call = i.call /\ k.result = m.kind
        <4>1. CASE UNCHANGED slots
          BY <2>1, <2>6, <4>1, CompleteIs
        <4>2. CASE slots' # slots
          <5>1. PICK i \in slots[s], l \in Sessions :
                   /\ i.session = m.session /\ i.result = "none" /\ l.call = i.call
                   /\ l.result = m.kind /\ slots'[s] = (slots[s] \ {i}) \cup {l}
            BY <2>1, <2>6, <4>2, CompleteIs
          <5>2. QED
            BY <2>6, <5>1 DEF SessionBooks
        <4>3. QED
          BY <4>1, <4>2
      <3>6. QED
        BY <3>2, <3>3, <3>4, <3>5
    <2>7. QED
      BY <1>6, <2>4, <2>5, <2>6, TakeIs
  <1>7. ASSUME NEW s \in Services, TakePending(s) PROVE Firsts'
    <2>1. UNCHANGED <<calls, first, inbox, slots, table>>
      BY <1>7 DEF TakePending, lives, boxes, sets, execs, count, hist
    <2>2. QED
      BY <2>1, FirstsShrink
  <1>8. ASSUME NEW s \in Services, TakeReady(s) PROVE Firsts'
    <2>1. UNCHANGED <<calls, first, inbox, slots, table>>
      BY <1>8 DEF TakeReady, lives, boxes, sets, execs, count, hist
    <2>2. QED
      BY <2>1, FirstsShrink
  <1>9. ASSUME NEW s \in Services, PollCall(s) PROVE Firsts'
    <2>1. /\ UNCHANGED <<calls, first, inbox, table>>
          /\ \A u \in Services : slots'[u] \subseteq slots[u]
      BY <1>9, PollIs DEF boxes, count, hist, lives
    <2>2. QED
      BY <2>1, FirstsShrink
  <1>10. ASSUME NEW s \in Services, Abandon(s) PROVE Firsts'
    <2>1. /\ UNCHANGED <<calls, first, inbox, table>>
          /\ \A u \in Services : slots'[u] \subseteq slots[u]
      BY <1>10, AbandonIs DEF boxes, count, hist, lives
    <2>2. QED
      BY <2>1, FirstsShrink
  <1>11. ASSUME NEW s \in Services, NEW d \in Services, Call(s, d) PROVE Firsts'
    <2>1. /\ pc[s] \in PollPC /\ NewCall(s) /\ UNCHANGED <<table, first, inbox>>
          /\ calls \in Nat /\ calls' = calls + 1
          /\ Waiting(s) \/ UNCHANGED slots
      BY <1>11, CallIs DEF boxes, hist, lives
    <2>2. CASE UNCHANGED slots
      <3>1. \A u \in Services : \A k \in slots'[u] : FirstOf(u, k)'
        BY <2>1, <2>2 DEF Firsts, FirstOf
      <3>2. \A c \in 1..MaxEvents : c > calls' => first'[c] = "none"
        BY <2>1 DEF Firsts
      <3>3. QED
        BY <2>1, <3>1, <3>2 DEF Firsts
    <2>3. QED
      BY <2>1, <2>2, FirstsCall
  <1>12. ASSUME NEW s \in Services, NEW d \in Services, Post(s, d) PROVE Firsts'
    <2>1. UNCHANGED <<calls, first, inbox, slots, table>>
      BY <1>12 DEF Post, OtherEvent, lives, boxes, sets, execs, count, hist
    <2>2. QED
      BY <2>1, FirstsShrink
  <1>13. ASSUME NEW s \in Services, Push(s) PROVE Firsts'
    <2> DEFINE d == out[s].to
               x == Stamped(s)
    <2>1. /\ UNCHANGED <<calls, first, slots, table>> /\ d \in Services
          /\ out[s].msg.kind \in Requests /\ x \in Messages /\ x.kind = out[s].msg.kind
          /\ \A u \in Services \ {d} : inbox'[u] = inbox[u]
          /\ inbox'[d] = Append(inbox[d], x) /\ Elems(inbox'[d]) = Elems(inbox[d]) \cup {x}
      BY <1>13, PushIs DEF sets, count, lives
    <2>2. x.kind \notin Answers
      BY <2>1 DEF Requests, Answers
    <2> HIDE DEF d, x
    <2>3. \A u \in Services : \A m \in Elems(inbox'[u]) : m.kind \in Answers => first'[m.call] # "none"
      BY <2>1, <2>2 DEF Firsts
    <2>4. ASSUME NEW u \in Services, NEW k \in slots[u] PROVE FirstOf(u, k)'
      <3>1. inbox[u] \in Seq(Messages) /\ FirstOf(u, k)
        BY DEF Types, BoxTyped, Firsts
      <3>2. Has(inbox[u], k.call) => Has(inbox'[u], k.call)
        BY <2>1 DEF Has
      <3>3. Leads(inbox[u], k.call, first[k.call]) => Leads(inbox'[u], k.call, first[k.call])
        <4>1. ~AnswersTo(x, k.call)
          BY <2>2 DEF AnswersTo
        <4>2. QED
          BY <2>1, <3>1, <4>1, LeadsAppend
      <3>4. QED
        BY <2>1, <3>1, <3>2, <3>3 DEF FirstOf
    <2>5. QED
      BY <2>1, <2>3, <2>4 DEF Firsts
  <1>14. ASSUME NEW s \in Services, CallExternal(s) PROVE Firsts'
    <2>1. pc[s] \in PollPC /\ NewCall(s) /\ Waiting(s) /\ UNCHANGED <<table, first, inbox>>
      BY <1>14, ExternalIs DEF boxes, hist, lives
    <2>2. QED
      BY <2>1, FirstsCall
  <1>15. ASSUME NEW s \in Services, NEW kind \in Answers, UserReply(s, kind) PROVE Firsts'
    <2>1. /\ Asked(Current(s).msg) /\ SendReply(kind, Current(s).msg)
          /\ UNCHANGED <<calls, slots, table>>
      BY <1>15, UserReplyIs DEF count, lives
    <2>2. QED
      BY <2>1, FirstsReply
  <1>16. ASSUME NEW s \in Services, Spawn(s) PROVE Firsts'
    <2>1. UNCHANGED <<calls, first, inbox, slots, table>>
      BY <1>16 DEF Spawn, OtherEvent, lives, boxes, sets, execs, count, hist
    <2>2. QED
      BY <2>1, FirstsShrink
  <1>17. ASSUME NEW s \in Services, Exit(s) PROVE Firsts'
    <2>1. table' \subseteq table /\ UNCHANGED <<calls, first, inbox, slots>>
      BY <1>17 DEF Exit, Retired, boxes, sets, count, hist
    <2>2. QED
      BY <2>1, FirstsShrink
  <1>18. ASSUME NEW s \in Services, FailOne(s) PROVE Firsts'
    <2>1. UNCHANGED <<calls, slots, table>>
      BY <1>18 DEF FailOne, count, lives
    <2>2. PICK k \in tasks[s] : Asked(k.msg) /\ SendReply("ERROR", k.msg)
      BY <1>18, Failed
    <2>3. QED
      BY <2>1, <2>2, FirstsReply DEF Answers
  <1>19. ASSUME NEW s \in Services, ExitFails(s), ~FailOne(s) PROVE Firsts'
    <2>1. UNCHANGED <<calls, first, inbox, slots, table>>
      BY <1>19 DEF ExitFails, lives, boxes, sets, execs, count, hist
    <2>2. QED
      BY <2>1, FirstsShrink
  <1>20. ASSUME NEW s \in Services, InitFails(s) PROVE Firsts'
    <2>1. table' \subseteq table /\ UNCHANGED <<calls, first, inbox, slots>>
      BY <1>20 DEF InitFails, Retired, boxes, sets, count, hist
    <2>2. QED
      BY <2>1, FirstsShrink
  <1>21. ASSUME NEW s \in Services, Return(s) PROVE Firsts'
    <2>1. UNCHANGED <<calls, first, inbox, slots, table>>
      BY <1>21 DEF Return, lives, boxes, sets, execs, count, hist
    <2>2. QED
      BY <2>1, FirstsShrink
  <1>22. ASSUME NEW s \in Services, Cleanup(s) PROVE Firsts'
    <2>1. UNCHANGED <<calls, first, inbox, slots, table>>
      BY <1>22 DEF Cleanup, lives, boxes, sets, execs, count, hist
    <2>2. QED
      BY <2>1, FirstsShrink
  <1>23. ASSUME NEW s \in Services, CleanDrops(s) PROVE Firsts'
    <2>1. /\ UNCHANGED <<calls, first, table>> /\ slots'[s] = {} /\ inbox'[s] = <<>>
          /\ \A u \in Services \ {s} : slots'[u] = slots[u] /\ inbox'[u] = inbox[u]
      BY <1>23, DropIs DEF count, hist, lives
    <2>2. \A u \in Services : \A k \in slots'[u] : FirstOf(u, k)'
      BY <2>1 DEF Firsts, FirstOf
    <2>3. \A u \in Services : \A m \in Elems(inbox'[u]) : m.kind \in Answers => first'[m.call] # "none"
      BY <2>1, NoElems DEF Firsts
    <2>4. QED
      BY <2>1, <2>2, <2>3 DEF Firsts
  <1>24. ASSUME NEW s \in Services, CleanRefuses(s) PROVE Firsts'
    <2>1. UNCHANGED <<calls, slots, table>>
      BY <1>24, RefuseIs DEF count, lives, sets
    <2>2. CASE UNCHANGED <<inbox, first>>
      BY <2>1, <2>2, FirstsShrink
    <2>3. CASE Asked(Head(kept[s])) /\ SendReply("ERROR", Head(kept[s]))
      BY <2>1, <2>3, FirstsReply DEF Answers
    <2>4. QED
      BY <1>24, <2>2, <2>3, RefuseIs
  <1>25. ASSUME NEW s \in Services, CleanReleases(s) PROVE Firsts'
    <2>1. UNCHANGED <<calls, first, inbox, slots, table>>
      BY <1>25 DEF CleanReleases, lives, boxes, sets, execs, count, hist
    <2>2. QED
      BY <2>1, FirstsShrink
  <1>26. ASSUME UNCHANGED vars PROVE Firsts'
    <2>1. UNCHANGED <<calls, first, inbox, slots, table>>
      BY <1>26 DEF vars, lives, boxes, sets, execs, count, hist
    <2>2. QED
      BY <2>1, FirstsShrink
  <1>27. QED
    BY <1>1, <1>2, <1>3, <1>4, <1>5, <1>6, <1>7, <1>8, <1>9, <1>10, <1>11, <1>12, <1>13,
       <1>14, <1>15, <1>16, <1>17, <1>18, <1>19, <1>20, <1>21, <1>22, <1>23, <1>24, <1>25,
       <1>26
    DEF Next, Environment, Execute, User, CleanFails, ExitFails

-----------------------------------------------------------------------------
(* A step that answers no waiting call without saying so, and leaves every *)
(* unanswered request with somebody.                                       *)
LEMMA PendingKept ==
    ASSUME Pending,
           \A u \in Services : \A k \in slots'[u] : first'[k.call] = "none" =>
             /\ \E i \in slots[u] : i.call = k.call
             /\ first[k.call] = "none"
             /\ Cared(u, k.call) => Cared(u, k.call)'
    PROVE  Pending'
  BY DEF Pending

(* Requests stay where they are, or move. *)
LEMMA CaredKept ==
    ASSUME NEW u \in Services, NEW c, Cared(u, c), forgotten \subseteq forgotten',
           \A t \in tokens : t.call = c => t \in tokens',
           out[u].msg.kind = "call" /\ out[u].msg.call = c => Cared(u, c)',
           \A d \in Services : With(d, c) => Cared(u, c)'
    PROVE  Cared(u, c)'
  <1>1. CASE c \in forgotten
    BY <1>1 DEF Cared
  <1>2. CASE \E t \in tokens : t.call = c
    BY <1>2 DEF Cared
  <1>3. CASE out[u].msg.kind = "call" /\ out[u].msg.call = c
    BY <1>3
  <1>4. CASE \E d \in Services : With(d, c)
    BY <1>4
  <1>5. QED
    BY <1>1, <1>2, <1>3, <1>4 DEF Cared

(* A request that somebody has is cared for, *)
LEMMA WithCared ==
    ASSUME NEW u, NEW d \in Services, NEW c
    PROVE  With(d, c)' => Cared(u, c)'
  BY DEF Cared

(* and so is one its caller is about to push. *)
LEMMA OutCared ==
    ASSUME NEW u \in Services, NEW c, out'[u] = out[u], out[u].msg.kind = "call", out[u].msg.call = c
    PROVE  Cared(u, c)'
  BY DEF Cared

(* An answer is sent to the request m, which need not be kept any longer.  *)
LEMMA RepliesKeep ==
    ASSUME Types, NEW kind \in Answers, NEW m, Asked(m), SendReply(kind, m)
    PROVE  /\ \A u \in Services : Elems(inbox[u]) \subseteq Elems(inbox'[u])
           /\ \A c \in 1..MaxEvents : first'[c] = "none" => first[c] = "none" /\ c # m.call
  <1>1. \A u \in Services : u # m.from \/ u \notin table => inbox'[u] = inbox[u]
    BY Replies
  <1>2. m.from \in table => Elems(inbox'[m.from]) = Elems(inbox[m.from]) \cup {Reply(kind, m)}
    BY Replies
  <1>3. \A c \in 1..MaxEvents : first'[c] = IF c = m.call /\ first[c] = "none" THEN kind ELSE first[c]
    BY Replies
  <1>4. kind # "none"
    BY DEF Answers
  <1>5. QED
    BY <1>1, <1>2, <1>3, <1>4

(* Requests outside the inboxes, and the one that is answered. *)
LEMMA PendingReply ==
    ASSUME Types, Book, Pending, NEW kind \in Answers, NEW m, Asked(m), SendReply(kind, m),
           UNCHANGED <<slots, out, forgotten>>,
           \A t \in tokens : t \in tokens' \/ t.call = m.call,
           \A u \in Services : \A a \in Elems(kept[u]) :
             a \in Elems(kept'[u]) \/ a.kind # "call" \/ a.call = m.call,
           \A u \in Services : \A k \in tasks[u] : k.owed =>
             k.msg.call = m.call \/ \E j \in tasks'[u] : j.owed /\ j.msg = k.msg
    PROVE  Pending'
  <1>1. \A u \in Services : Elems(inbox[u]) \subseteq Elems(inbox'[u])
    BY RepliesKeep
  <1>2. \A c \in 1..MaxEvents : first'[c] = "none" => first[c] = "none" /\ c # m.call
    BY RepliesKeep
  <1>3. ASSUME NEW d \in Services, NEW c, c # m.call, With(d, c) PROVE With(d, c)'
    BY <1>1, <1>3 DEF With
  <1>4. ASSUME NEW u \in Services, NEW k \in slots'[u], first'[k.call] = "none"
        PROVE  /\ \E i \in slots[u] : i.call = k.call
               /\ first[k.call] = "none"
               /\ Cared(u, k.call) => Cared(u, k.call)'
    <2>1. k \in slots[u] /\ k.call \in 1..MaxEvents
      BY SlotNamed
    <2>2. first[k.call] = "none" /\ k.call # m.call
      BY <1>2, <1>4, <2>1
    <2>3. \A d \in Services : With(d, k.call) => Cared(u, k.call)'
      BY <1>3, <2>2, WithCared
    <2>4. out[u].msg.kind = "call" /\ out[u].msg.call = k.call => Cared(u, k.call)'
      BY OutCared
    <2>5. Cared(u, k.call) => Cared(u, k.call)'
      BY <2>2, <2>3, <2>4, CaredKept
    <2>6. QED
      BY <2>1, <2>2, <2>5
  <1>5. QED
    BY <1>4, PendingKept

(* Nobody answers, and requests stay or move from one holder to another.   *)
LEMMA PendingMove ==
    ASSUME Pending, UNCHANGED <<first, tokens>>, forgotten \subseteq forgotten',
           \A u \in Services : \A k \in slots'[u] : \E i \in slots[u] : i.call = k.call,
           \A u \in Services : \A c : out[u].msg.kind = "call" /\ out[u].msg.call = c => Cared(u, c)',
           \A d, u \in Services : \A c : first[c] = "none" /\ With(d, c) => Cared(u, c)'
    PROVE  Pending'
  <1>1. ASSUME NEW u \in Services, NEW k \in slots'[u], first'[k.call] = "none"
        PROVE  /\ \E i \in slots[u] : i.call = k.call
               /\ first[k.call] = "none"
               /\ Cared(u, k.call) => Cared(u, k.call)'
    <2>1. Cared(u, k.call) => Cared(u, k.call)'
      BY <1>1, CaredKept
    <2>2. QED
      BY <1>1, <2>1
  <1>2. QED
    BY <1>1, PendingKept

(* A new call is with its caller, or with a token. *)
LEMMA PendingCall ==
    ASSUME Types, Control, TaskBooks, Book, Pending, NEW s \in Services, pc[s] \in PollPC,
           pc[s] # "push", NewCall(s), Waiting(s),
           UNCHANGED <<first, forgotten, inbox, kept>>, tokens \subseteq tokens',
           \A u \in Services \ {s} : out'[u] = out[u],
           NEW b, b = calls + 1, Cared(s, b)'
    PROVE  Pending'
  <1>1. PICK l \in Sessions : l.call = calls + 1 /\ slots'[s] = slots[s] \cup {l}
    BY WaitingIs
  <1>2. PICK j \in Tasks : /\ j.msg = Current(s).msg /\ j.owed = Current(s).owed
                           /\ tasks'[s] = (tasks[s] \ {Current(s)}) \cup {j}
                           /\ \A u \in Services \ {s} : tasks'[u] = tasks[u]
    BY WaitingIs
  <1>3. \A u \in Services \ {s} : slots'[u] = slots[u]
    BY WaitingIs
  <1>4. ASSUME NEW d \in Services, NEW c, With(d, c) PROVE With(d, c)'
    BY <1>2, <1>4 DEF With
  <1>5. out[s].msg.kind # "call"
    BY DEF Control, Nothing, NoMessage
  <1>6. ASSUME NEW u \in Services, NEW c, Cared(u, c) PROVE Cared(u, c)'
    <2>1. \A d \in Services : With(d, c) => Cared(u, c)'
      BY <1>4, WithCared
    <2>2. out[u].msg.kind = "call" /\ out[u].msg.call = c => Cared(u, c)'
      BY <1>5, OutCared
    <2>3. QED
      BY <1>6, <2>1, <2>2, CaredKept
  <1>7. ASSUME NEW u \in Services, NEW k \in slots'[u], first'[k.call] = "none"
        PROVE  Cared(u, k.call)'
    <2>1. CASE k \in slots[u]
      BY <1>6, <1>7, <2>1 DEF Pending
    <2>2. CASE u = s /\ k = l
      BY <1>1, <2>2
    <2>3. QED
      BY <1>1, <1>3, <2>1, <2>2
  <1>8. QED
    BY <1>7 DEF Pending

(* Every step leaves unanswered requests with somebody. *)
LEMMA PendingStep ==
    ASSUME Types, Control, TaskBooks, SessionBooks, Book, Pending, [Next]_vars
    PROVE  Pending'
  <1>1. ASSUME NEW s \in Services, ForeignWake(s) PROVE Pending'
    <2>1. UNCHANGED <<first, forgotten, inbox, kept, out, slots, tasks, tokens>>
      BY <1>1 DEF ForeignWake, OtherEvent, lives, boxes, sets, execs, count, hist
    <2>2. QED
      BY <2>1 DEF Pending, Cared, With
  <1>2. ASSUME NEW s \in Services, ForeignPush(s) PROVE Pending'
    <2>1. UNCHANGED <<first, forgotten, inbox, kept, out, slots, tasks, tokens>>
      BY <1>2 DEF ForeignPush, lives, boxes, sets, execs, count, hist
    <2>2. QED
      BY <2>1 DEF Pending, Cared, With
  <1>3. ASSUME NEW t \in tokens, NEW kind \in Answers, ExternalReply(t, kind) PROVE Pending'
    <2>1. /\ Asked(t) /\ SendReply(kind, t) /\ tokens' = tokens \ {t}
          /\ UNCHANGED <<slots, out, forgotten, kept, tasks>>
      BY <1>3, AskedToken DEF ExternalReply, sets
    <2>2. QED
      BY <2>1, PendingReply
  <1>4. ASSUME NEW s \in Services, Kill(s) PROVE Pending'
    <2>1. UNCHANGED <<first, forgotten, inbox, kept, out, slots, tasks, tokens>>
      BY <1>4 DEF Kill, lives, boxes, sets, execs, count, hist
    <2>2. QED
      BY <2>1 DEF Pending, Cared, With
  <1>5. ASSUME NEW s \in Services, MarkDead(s) PROVE Pending'
    <2>1. UNCHANGED <<first, forgotten, inbox, kept, out, slots, tasks, tokens>>
      BY <1>5 DEF MarkDead, lives, boxes, sets, execs, count, hist
    <2>2. QED
      BY <2>1 DEF Pending, Cared, With
  <1>6. ASSUME NEW s \in Services, TakeMessage(s) PROVE Pending'
    <2> DEFINE m == Head(inbox[s])
    <2>1. /\ UNCHANGED <<first, tokens, forgotten, out>> /\ m \in Messages
          /\ Elems(inbox[s]) = Elems(inbox'[s]) \cup {m}
          /\ \A u \in Services \ {s} : inbox'[u] = inbox[u]
      BY <1>6, TakeIs DEF execs
    <2>2. \A u \in Services : \A k \in slots'[u] : \E i \in slots[u] : i.call = k.call
      BY <1>6, <2>1, TakeIs, CompleteIs
    <2>3. ASSUME NEW d \in Services, NEW c, With(d, c) PROVE With(d, c)'
      <3>1. CASE m.kind \in Answers /\ UNCHANGED <<kept, tasks>>
        <4>1. m.kind # "call"
          BY <3>1 DEF Answers
        <4>2. QED
          BY <2>1, <2>3, <3>1, <4>1 DEF With
      <3>2. CASE /\ Elems(kept'[s]) = Elems(kept[s]) \cup {m} /\ UNCHANGED tasks
                 /\ \A u \in Services \ {s} : kept'[u] = kept[u]
        BY <2>1, <2>3, <3>2 DEF With
      <3>3. CASE InstallTask(s, m) /\ UNCHANGED kept
        <4>1. /\ NewTask(s, m).msg = m /\ (m.kind = "call" => NewTask(s, m).owed)
              /\ tasks'[s] = tasks[s] \cup {NewTask(s, m)}
              /\ \A u \in Services \ {s} : tasks'[u] = tasks[u]
          BY <2>1, <3>3, InstallIs
        <4>2. QED
          BY <2>1, <2>3, <3>3, <4>1 DEF With
      <3>4. QED
        BY <1>6, <3>1, <3>2, <3>3, TakeIs
    <2>4. QED
      BY <2>1, <2>2, <2>3, WithCared, OutCared, PendingMove
  <1>7. ASSUME NEW s \in Services, TakePending(s) PROVE Pending'
    <2> DEFINE m == Head(kept[s])
    <2>1. /\ UNCHANGED <<inbox, slots, first, tokens, forgotten, out>> /\ m \in Messages
          /\ Elems(kept[s]) = Elems(kept'[s]) \cup {m} /\ InstallTask(s, m)
          /\ \A u \in Services \ {s} : kept'[u] = kept[u]
      BY <1>7, PendingIs DEF execs
    <2>2. /\ NewTask(s, m).msg = m /\ (m.kind = "call" => NewTask(s, m).owed)
          /\ tasks'[s] = tasks[s] \cup {NewTask(s, m)}
          /\ \A u \in Services \ {s} : tasks'[u] = tasks[u]
      BY <2>1, InstallIs
    <2>3. ASSUME NEW d \in Services, NEW c, With(d, c) PROVE With(d, c)'
      BY <2>1, <2>2, <2>3 DEF With
    <2>4. QED
      BY <2>1, <2>3, WithCared, OutCared, PendingMove
  <1>8. ASSUME NEW s \in Services, TakeReady(s) PROVE Pending'
    <2>1. UNCHANGED <<first, forgotten, inbox, kept, out, slots, tasks, tokens>>
      BY <1>8 DEF TakeReady, lives, boxes, sets, execs, count, hist
    <2>2. QED
      BY <2>1 DEF Pending, Cared, With
  <1>9. ASSUME NEW s \in Services, PollCall(s) PROVE Pending'
    <2>1. /\ pc[s] \in PollPC /\ UNCHANGED <<inbox, kept, first, tokens, forgotten, out>>
          /\ \A u \in Services : slots'[u] \subseteq slots[u]
      BY <1>9, PollIs DEF boxes, hist
    <2>2. \A u \in Services : \A k \in tasks[u] : k.owed => \E j \in tasks'[u] : j.owed /\ j.msg = k.msg
      BY <1>9, PollIs
    <2>3. ASSUME NEW d \in Services, NEW c, With(d, c) PROVE With(d, c)'
      BY <2>1, <2>2, <2>3 DEF With
    <2>4. QED
      BY <2>1, <2>3, WithCared, OutCared, PendingMove
  <1>10. ASSUME NEW s \in Services, Abandon(s) PROVE Pending'
    <2>1. /\ pc[s] \in PollPC /\ UNCHANGED <<inbox, kept, first, forgotten, out>>
          /\ \A u \in Services \ {s} : slots'[u] = slots[u]
          /\ slots'[s] = {k \in slots[s] : k.session # Current(s).wait}
          /\ \A t \in tokens : t \in tokens' \/ (t.from = s /\ t.session = Current(s).wait)
      BY <1>10, AbandonIs DEF boxes, hist
    <2>2. \A u \in Services : \A k \in tasks[u] : k.owed => \E j \in tasks'[u] : j.owed /\ j.msg = k.msg
      BY <1>10, AbandonIs
    <2>3. ASSUME NEW d \in Services, NEW c, With(d, c) PROVE With(d, c)'
      BY <2>1, <2>2, <2>3 DEF With
    <2>4. ASSUME NEW u \in Services, NEW k \in slots'[u], NEW t \in tokens, t.call = k.call
          PROVE  t \in tokens'
      <3>1. k \in slots[u] /\ (u = s => k.session # Current(s).wait)
        BY <2>1
      <3>2. k.session \in Nat /\ k.call \in Nat /\ Names(u, k.session, k.call)
        BY <3>1, SlotNamed
      <3>3. t.from \in Services /\ t.session \in Nat /\ Names(t.from, t.session, t.call)
        BY AskedToken DEF Asked
      <3>4. t.from = u /\ t.session = k.session
        BY <2>4, <3>2, <3>3 DEF Book
      <3>5. QED
        BY <2>1, <3>1, <3>4
    <2>5. ASSUME NEW u \in Services, NEW k \in slots'[u], Cared(u, k.call)
          PROVE  Cared(u, k.call)'
      BY <2>1, <2>3, <2>4, <2>5, WithCared, OutCared, CaredKept
    <2>6. QED
      BY <2>1, <2>5, PendingKept
  <1>11. ASSUME NEW s \in Services, NEW d \in Services, Call(s, d) PROVE Pending'
    <2>1. /\ pc[s] \in PollPC /\ pc[s] # "push" /\ NewCall(s)
          /\ UNCHANGED <<first, forgotten, inbox, kept, tokens>>
          /\ \A u \in Services \ {s} : out'[u] = out[u]
      BY <1>11, CallIs DEF boxes, hist
    <2>2. CASE Waiting(s) /\ out'[s].msg.kind = "call" /\ out'[s].msg.call = calls + 1
      <3>1. PICK b : b = calls + 1
        OBVIOUS
      <3>2. Cared(s, b)'
        BY <2>2, <3>1 DEF Cared
      <3>3. QED
        BY <2>1, <2>2, <3>1, <3>2, PendingCall
    <2>3. CASE UNCHANGED <<slots, tasks, out>>
      BY <2>1, <2>3 DEF Pending, Cared, With
    <2>4. QED
      BY <1>11, <2>2, <2>3, CallIs
  <1>12. ASSUME NEW s \in Services, NEW d \in Services, Post(s, d) PROVE Pending'
    <2>1. /\ UNCHANGED <<inbox, kept, first, tokens, forgotten, slots, tasks>> /\ pc[s] = "user"
          /\ \A u \in Services \ {s} : out'[u] = out[u]
      BY <1>12 DEF Post, Goto, boxes, sets, hist, Types, ExecTyped
    <2>2. out[s].msg.kind # "call"
      BY <2>1 DEF Control, Nothing, NoMessage
    <2>3. ASSUME NEW u \in Services, NEW c, With(u, c) PROVE With(u, c)'
      BY <2>1, <2>3 DEF With
    <2>4. QED
      BY <2>1, <2>2, <2>3, WithCared, OutCared, PendingMove
  <1>13. ASSUME NEW s \in Services, Push(s) PROVE Pending'
    <2>0. PICK d : d = out[s].to
      OBVIOUS
    <2>1. /\ UNCHANGED <<kept, first, tokens, forgotten, slots, tasks>> /\ d \in Services
          /\ \A u \in Services \ {s} : out'[u] = out[u]
          /\ Stamped(s).kind = out[s].msg.kind /\ Stamped(s).call = out[s].msg.call
          /\ \A u \in Services \ {d} : inbox'[u] = inbox[u]
          /\ Elems(inbox'[d]) = Elems(inbox[d]) \cup {Stamped(s)}
      BY <1>13, <2>0, PushIs DEF sets
    <2>2. ASSUME NEW u \in Services, NEW c, With(u, c) PROVE With(u, c)'
      BY <2>1, <2>2 DEF With
    <2>3. ASSUME NEW c, out[s].msg.kind = "call" /\ out[s].msg.call = c PROVE With(d, c)'
      BY <2>1, <2>3 DEF With
    <2>4. \A u \in Services : \A c : out[u].msg.kind = "call" /\ out[u].msg.call = c => Cared(u, c)'
      BY <2>1, <2>3, WithCared, OutCared
    <2>5. QED
      BY <2>1, <2>2, <2>4, WithCared, PendingMove
  <1>14. ASSUME NEW s \in Services, CallExternal(s) PROVE Pending'
    <2>1. /\ pc[s] \in PollPC /\ pc[s] # "push" /\ NewCall(s) /\ Waiting(s)
          /\ UNCHANGED <<first, forgotten, inbox, kept, out>> /\ tokens \subseteq tokens'
          /\ \E t \in tokens' : t.call = calls + 1
      BY <1>14, ExternalIs DEF boxes, hist
    <2>2. PICK b : b = calls + 1
      OBVIOUS
    <2>3. Cared(s, b)'
      BY <2>1, <2>2 DEF Cared
    <2>4. QED
      BY <2>1, <2>2, <2>3, PendingCall
  <1>15. ASSUME NEW s \in Services, NEW kind \in Answers, UserReply(s, kind) PROVE Pending'
    <2>1. /\ pc[s] \in PollPC /\ Asked(Current(s).msg) /\ SendReply(kind, Current(s).msg)
          /\ UNCHANGED <<slots, out, forgotten, kept, tokens>>
      BY <1>15, UserReplyIs DEF execs
    <2>2. \A u \in Services : \A k \in tasks[u] : k.owed => \E j \in tasks'[u] : j.owed /\ j.msg = k.msg
      BY <1>15, UserReplyIs
    <2>3. QED
      BY <2>1, <2>2, PendingReply
  <1>16. ASSUME NEW s \in Services, Spawn(s) PROVE Pending'
    <2>1. /\ InstallTask(s, NoMessage)
          /\ UNCHANGED <<inbox, kept, first, tokens, forgotten, slots, out>>
      BY <1>16 DEF Spawn, execs, hist
    <2>2. \A u \in Services : tasks[u] \subseteq tasks'[u]
      BY <2>1, RecordsTyped, InstallIs
    <2>3. ASSUME NEW d \in Services, NEW c, With(d, c) PROVE With(d, c)'
      BY <2>1, <2>2, <2>3 DEF With
    <2>4. QED
      BY <2>1, <2>3, WithCared, OutCared, PendingMove
  <1>17. ASSUME NEW s \in Services, Exit(s) PROVE Pending'
    <2>1. UNCHANGED <<first, forgotten, inbox, kept, out, slots, tasks, tokens>>
      BY <1>17 DEF Exit, lives, boxes, sets, execs, count, hist
    <2>2. QED
      BY <2>1 DEF Pending, Cared, With
  <1>18. ASSUME NEW s \in Services, FailOne(s) PROVE Pending'
    <2>1. UNCHANGED <<slots, out, forgotten, kept, tokens>>
      BY <1>18 DEF FailOne, execs
    <2>2. PICK k \in tasks[s], j \in Tasks :
             /\ Asked(k.msg) /\ SendReply("ERROR", k.msg)
             /\ tasks'[s] = (tasks[s] \ {k}) \cup {j}
             /\ \A u \in Services \ {s} : tasks'[u] = tasks[u]
      BY <1>18, Failed
    <2>3. \A u \in Services : \A i \in tasks[u] : i.owed =>
             i.msg.call = k.msg.call \/ \E h \in tasks'[u] : h.owed /\ h.msg = i.msg
      BY <2>2
    <2>4. QED
      BY <2>1, <2>2, <2>3, PendingReply DEF Answers
  <1>19. ASSUME NEW s \in Services, ExitFails(s), ~FailOne(s) PROVE Pending'
    <2>1. UNCHANGED <<first, forgotten, inbox, kept, out, slots, tasks, tokens>>
      BY <1>19 DEF ExitFails, lives, boxes, sets, execs, count, hist
    <2>2. QED
      BY <2>1 DEF Pending, Cared, With
  <1>20. ASSUME NEW s \in Services, InitFails(s) PROVE Pending'
    <2>1. UNCHANGED <<first, forgotten, inbox, kept, out, slots, tasks, tokens>>
      BY <1>20 DEF InitFails, lives, boxes, sets, execs, count, hist
    <2>2. QED
      BY <2>1 DEF Pending, Cared, With
  <1>21. ASSUME NEW s \in Services, Return(s) PROVE Pending'
    <2>1. /\ UNCHANGED <<inbox, kept, first, tokens, slots, out>> /\ forgotten \subseteq forgotten'
          /\ tasks'[s] = tasks[s] \ {Current(s)}
          /\ \A u \in Services \ {s} : tasks'[u] = tasks[u]
      BY <1>21, ReturnIs DEF boxes
    <2>2. /\ Current(s).owed /\ first[Current(s).msg.call] = "none"
                => Current(s).msg.call \in forgotten'
      BY <1>21, ReturnIs
    <2>3. ASSUME NEW d \in Services, NEW c, With(d, c), first[c] = "none"
          PROVE  With(d, c)' \/ c \in forgotten'
      BY <2>1, <2>2, <2>3 DEF With
    <2>4. \A d, u \in Services : \A c : first[c] = "none" /\ With(d, c) => Cared(u, c)'
      BY <2>3 DEF Cared
    <2>5. QED
      BY <2>1, <2>4, OutCared, PendingMove
  <1>22. ASSUME NEW s \in Services, Cleanup(s) PROVE Pending'
    <2>1. UNCHANGED <<first, forgotten, inbox, kept, out, slots, tasks, tokens>>
      BY <1>22 DEF Cleanup, lives, boxes, sets, execs, count, hist
    <2>2. QED
      BY <2>1 DEF Pending, Cared, With
  <1>23. ASSUME NEW s \in Services, CleanDrops(s) PROVE Pending'
    <2>1. /\ UNCHANGED <<first, tokens, forgotten, out>> /\ \A k \in tasks[s] : ~k.owed
          /\ Elems(kept'[s]) = Elems(inbox[s]) \cup Elems(kept[s]) /\ slots'[s] = {}
          /\ \A u \in Services \ {s} : /\ tasks'[u] = tasks[u] /\ slots'[u] = slots[u]
                                        /\ inbox'[u] = inbox[u] /\ kept'[u] = kept[u]
      BY <1>23, DropIs DEF hist
    <2>2. ASSUME NEW d \in Services, NEW c, With(d, c) PROVE With(d, c)'
      BY <2>1, <2>2 DEF With
    <2>3. QED
      BY <2>1, <2>2, WithCared, OutCared, PendingMove
  <1>24. ASSUME NEW s \in Services, CleanRefuses(s) PROVE Pending'
    <2> DEFINE m == Head(kept[s])
    <2>1. /\ UNCHANGED <<slots, tasks, tokens, out, forgotten>>
          /\ Elems(kept[s]) = Elems(kept'[s]) \cup {m}
          /\ \A u \in Services \ {s} : kept'[u] = kept[u]
      BY <1>24, RefuseIs DEF sets, execs
    <2>2. CASE m.kind # "call" /\ UNCHANGED <<inbox, first>>
      <3>1. ASSUME NEW d \in Services, NEW c, With(d, c) PROVE With(d, c)'
        BY <2>1, <2>2, <3>1 DEF With
      <3>2. QED
        BY <2>1, <2>2, <3>1, WithCared, OutCared, PendingMove
    <2>3. CASE m.kind = "call" /\ Asked(m) /\ SendReply("ERROR", m)
      BY <2>1, <2>3, PendingReply DEF Answers
    <2>4. QED
      BY <1>24, <2>2, <2>3, RefuseIs
  <1>25. ASSUME NEW s \in Services, CleanReleases(s) PROVE Pending'
    <2>1. UNCHANGED <<first, forgotten, inbox, kept, out, slots, tasks, tokens>>
      BY <1>25 DEF CleanReleases, lives, boxes, sets, execs, count, hist
    <2>2. QED
      BY <2>1 DEF Pending, Cared, With
  <1>26. ASSUME UNCHANGED vars PROVE Pending'
    <2>1. UNCHANGED <<first, forgotten, inbox, kept, out, slots, tasks, tokens>>
      BY <1>26 DEF vars, lives, boxes, sets, execs, count, hist
    <2>2. QED
      BY <2>1 DEF Pending, Cared, With
  <1>27. QED
    BY <1>1, <1>2, <1>3, <1>4, <1>5, <1>6, <1>7, <1>8, <1>9, <1>10, <1>11, <1>12, <1>13,
       <1>14, <1>15, <1>16, <1>17, <1>18, <1>19, <1>20, <1>21, <1>22, <1>23, <1>24, <1>25,
       <1>26
    DEF Next, Environment, Execute, User, CleanFails, ExitFails

-----------------------------------------------------------------------------
(* Queues whose requests rise.                                             *)
LEMMA RisesAppend ==
    ASSUME NEW q \in Seq(Messages), NEW x \in Messages, Rises(q),
           IsRequest(x) => \A m \in Elems(q) : IsRequest(m) => m.seq < x.seq
    PROVE  Rises(Append(q, x))
  <1> DEFINE r == Append(q, x)
  <1>1. /\ Len(q) \in Nat /\ DOMAIN q = 1..Len(q) /\ DOMAIN r = 1..(Len(q) + 1)
        /\ \A i \in 1..Len(q) : r[i] = q[i]
        /\ r[Len(q) + 1] = x
    BY Appended
  <1> HIDE DEF r
  <1>2. SUFFICES ASSUME NEW i \in DOMAIN r, NEW j \in DOMAIN r, i < j, IsRequest(r[i]),
                        IsRequest(r[j])
                 PROVE  r[i].seq < r[j].seq
    BY DEF Rises, r
  <1>3. i \in 1..Len(q) /\ r[i] = q[i] /\ q[i] \in Elems(q)
    BY <1>1, <1>2 DEF Elems
  <1>4. CASE j \in 1..Len(q)
    BY <1>1, <1>2, <1>3, <1>4 DEF Rises
  <1>5. CASE j \notin 1..Len(q)
    <2>1. r[j] = x
      BY <1>1, <1>5
    <2>2. QED
      BY <1>2, <1>3, <2>1
  <1>6. QED
    BY <1>4, <1>5

(* The tail rises, above the head. *)
LEMMA RisesTail ==
    ASSUME NEW q \in Seq(Messages), q # <<>>, Rises(q)
    PROVE  /\ Rises(Tail(q))
           /\ IsRequest(Head(q)) =>
                \A m \in Elems(Tail(q)) : IsRequest(m) => Head(q).seq < m.seq
  <1> DEFINE r == Tail(q)
  <1>1. /\ Head(q) = q[1] /\ Len(q) \in Nat \ {0} /\ DOMAIN q = 1..Len(q)
        /\ DOMAIN r = 1..(Len(q) - 1)
        /\ \A i \in 1..(Len(q) - 1) : r[i] = q[i + 1]
    BY Shortened
  <1> HIDE DEF r
  <1>2. ASSUME NEW i \in DOMAIN r, NEW j \in DOMAIN r, i < j, IsRequest(r[i]), IsRequest(r[j])
        PROVE  r[i].seq < r[j].seq
    <2>1. i + 1 \in DOMAIN q /\ j + 1 \in DOMAIN q /\ i + 1 < j + 1
      BY <1>1, <1>2
    <2>2. r[i] = q[i + 1] /\ r[j] = q[j + 1]
      BY <1>1
    <2>3. QED
      BY <1>2, <2>1, <2>2 DEF Rises
  <1>3. ASSUME IsRequest(Head(q)), NEW i \in DOMAIN r, IsRequest(r[i])
        PROVE  Head(q).seq < r[i].seq
    <2>1. 1 \in DOMAIN q /\ i + 1 \in DOMAIN q /\ 1 < i + 1
      BY <1>1
    <2>2. r[i] = q[i + 1] /\ Head(q) = q[1]
      BY <1>1
    <2>3. QED
      BY <1>3, <2>1, <2>2 DEF Rises
  <1>4. QED
    BY <1>2, <1>3 DEF Rises, Elems, r

(* Numbers of a service. *)
LEMMA Numbers ==
    ASSUME Types, NEW s \in Services
    PROVE  /\ last[s] \in Nat /\ sent[s] \in Nat
           /\ inbox[s] \in Seq(Messages) /\ kept[s] \in Seq(Messages)
           /\ \A m \in Elems(inbox[s]) \cup Elems(kept[s]) : m \in Messages /\ m.seq \in Nat
  <1>1. last[s] \in Nat /\ sent[s] \in Nat /\ inbox[s] \in Seq(Messages) /\ kept[s] \in Seq(Messages)
    BY DEF Types, CountTyped, BoxTyped
  <1>2. \A m \in Elems(inbox[s]) \cup Elems(kept[s]) : m \in Messages
    BY <1>1 DEF Elems
  <1>3. QED
    BY <1>1, <1>2 DEF Messages

(* Answers do not matter. *)
LEMMA OrderReply ==
    ASSUME Types, Order, NEW kind \in Answers, NEW m, Asked(m), SendReply(kind, m),
           UNCHANGED <<dead, sent, last>>,
           \A u \in Services \ dead : kept'[u] = kept[u]
    PROVE  Order'
  <1> DEFINE x == Reply(kind, m)
             f == m.from
  <1>1. x \in Messages /\ x.kind = kind
    BY Replies
  <1>2. /\ \A u \in Services : u # f \/ u \notin table => inbox'[u] = inbox[u]
        /\ f \in table => inbox'[f] = Append(inbox[f], x)
    BY Replies
  <1>3. f \in table => Elems(inbox'[f]) = Elems(inbox[f]) \cup {x}
    BY Replies
  <1>4. ~IsRequest(x)
    BY <1>1 DEF IsRequest, Requests, Answers
  <1> HIDE DEF x, f
  <1>5. ASSUME NEW u \in Services \ dead PROVE OrderOf(u)'
    <2>1. OrderOf(u) /\ inbox[u] \in Seq(Messages)
      BY Numbers DEF Order
    <2>2. CASE inbox'[u] = inbox[u]
      BY <2>1, <2>2 DEF OrderOf
    <2>3. CASE inbox'[u] = Append(inbox[u], x) /\ Elems(inbox'[u]) = Elems(inbox[u]) \cup {x}
      <3>1. Rises(inbox'[u])
        BY <1>1, <1>4, <2>1, <2>3, RisesAppend DEF OrderOf
      <3>2. Within(inbox'[u], last[u], sent[u]) /\ Before(kept[u], inbox'[u])
        BY <1>4, <2>1, <2>3 DEF OrderOf, Within, Before
      <3>3. QED
        BY <2>1, <3>1, <3>2 DEF OrderOf
    <2>4. QED
      BY <1>2, <1>3, <2>2, <2>3
  <1>6. QED
    BY <1>5 DEF Order

(* Queues and counters stay; services may die. *)
LEMMA OrderSame ==
    ASSUME Order, dead \subseteq dead', UNCHANGED <<inbox, kept, last, sent>>
    PROVE  Order'
  BY DEF Order, OrderOf

(* A request is dispatched: the next one in order. *)
LEMMA DispatchLater ==
    ASSUME Types, Order, NEW s \in Services,
           \/ TakeMessage(s) /\ last' # last
           \/ TakePending(s)
    PROVE  /\ s \notin dead /\ last[s] \in Nat /\ last'[s] \in Nat /\ last[s] < last'[s]
           /\ \A u \in Services \ {s} : last'[u] = last[u]
  <1>1. PICK m : m \in Messages /\ IsRequest(m) /\ s \notin dead /\ last' = [last EXCEPT ![s] = m.seq]
                 /\ (m \in Elems(inbox[s]) \/ m \in Elems(kept[s]))
    <2>1. CASE TakeMessage(s) /\ last' # last
      BY <2>1, TakeIs DEF IsRequest
    <2>2. CASE TakePending(s)
      <3>1. /\ Head(kept[s]) \in Messages /\ s \notin dead /\ Head(kept[s]) \in Elems(kept[s])
            /\ last' = [last EXCEPT ![s] = Head(kept[s]).seq]
        BY <2>2, PendingIs
      <3>2. IsRequest(Head(kept[s]))
        BY <3>1 DEF Order, OrderOf
      <3>3. QED
        BY <3>1, <3>2
    <2>3. QED
      BY <2>1, <2>2
  <1>2. last[s] \in Nat /\ m.seq \in Nat
    BY <1>1, Numbers DEF Messages
  <1>3. last[s] < m.seq
    BY <1>1 DEF Order, OrderOf, Within
  <1>4. last'[s] = m.seq /\ \A u \in Services \ {s} : last'[u] = last[u]
    BY <1>1 DEF Types, CountTyped
  <1>5. QED
    BY <1>1, <1>2, <1>3, <1>4

(* Every step keeps requests in order. *)
LEMMA OrderStep ==
    ASSUME Types, Control, TaskBooks, SessionBooks, Book, Order, [Next]_vars
    PROVE  Order'
  <1>1. ASSUME NEW s \in Services, ForeignWake(s) PROVE Order'
    <2>1. UNCHANGED <<dead, inbox, kept, last, sent>>
      BY <1>1 DEF ForeignWake, OtherEvent, lives, boxes, sets, execs, count, hist
    <2>2. QED
      BY <2>1, OrderSame
  <1>2. ASSUME NEW s \in Services, ForeignPush(s) PROVE Order'
    <2>1. UNCHANGED <<dead, inbox, kept, last, sent>>
      BY <1>2 DEF ForeignPush, lives, boxes, sets, execs, count, hist
    <2>2. QED
      BY <2>1, OrderSame
  <1>3. ASSUME NEW t \in tokens, NEW kind \in Answers, ExternalReply(t, kind) PROVE Order'
    <2>1. Asked(t) /\ SendReply(kind, t) /\ UNCHANGED <<dead, sent, last, kept>>
      BY <1>3, AskedToken DEF ExternalReply, lives
    <2>2. QED
      BY <2>1, OrderReply
  <1>4. ASSUME NEW s \in Services, Kill(s) PROVE Order'
    <2>1. UNCHANGED <<dead, inbox, kept, last, sent>>
      BY <1>4 DEF Kill, lives, boxes, sets, execs, count, hist
    <2>2. QED
      BY <2>1, OrderSame
  <1>5. ASSUME NEW s \in Services, MarkDead(s) PROVE Order'
    <2>1. dead \subseteq dead' /\ UNCHANGED <<inbox, kept, last, sent>>
      BY <1>5 DEF MarkDead, boxes, hist
    <2>2. QED
      BY <2>1, OrderSame
  <1>6. ASSUME NEW s \in Services, TakeMessage(s) PROVE Order'
    <2>0. PICK m : m = Head(inbox[s])
      OBVIOUS
    <2>1. /\ UNCHANGED <<dead, sent>> /\ s \notin dead /\ m \in Messages /\ inbox[s] # <<>>
          /\ inbox'[s] = Tail(inbox[s]) /\ \A u \in Services \ {s} : inbox'[u] = inbox[u]
          /\ Elems(inbox[s]) = Elems(inbox'[s]) \cup {m}
      BY <1>6, <2>0, TakeIs DEF lives
    <2>2. /\ OrderOf(s) /\ inbox[s] \in Seq(Messages) /\ kept[s] \in Seq(Messages)
          /\ last[s] \in Nat /\ sent[s] \in Nat
          /\ \A a \in Elems(inbox[s]) \cup Elems(kept[s]) : a.seq \in Nat
      BY <2>1, Numbers DEF Order
    <2>3. /\ Rises(inbox'[s])
          /\ IsRequest(m) => \A a \in Elems(inbox'[s]) : IsRequest(a) => m.seq < a.seq
      BY <2>0, <2>1, <2>2, RisesTail DEF OrderOf
    <2>4. /\ \A u \in Services \ {s} : kept'[u] = kept[u] /\ last'[u] = last[u]
      BY <1>6, <2>0, TakeIs DEF Types, CountTyped
    <2>5. CASE UNCHANGED <<kept, last>>
      <3>1. Within(inbox'[s], last[s], sent[s]) /\ Before(kept[s], inbox'[s])
        BY <2>1, <2>2 DEF OrderOf, Within, Before
      <3>2. QED
        BY <2>1, <2>2, <2>3, <2>4, <2>5, <3>1 DEF Order, OrderOf
    <2>6. CASE /\ m.kind \in Requests /\ kept'[s] = Append(kept[s], m)
               /\ Elems(kept'[s]) = Elems(kept[s]) \cup {m} /\ UNCHANGED last
      <3>1. IsRequest(m) /\ \A a \in Elems(kept[s]) : IsRequest(a) => a.seq < m.seq
        BY <2>1, <2>2, <2>6 DEF OrderOf, Before, IsRequest
      <3>2. Rises(kept'[s])
        BY <2>1, <2>2, <2>6, <3>1, RisesAppend DEF OrderOf
      <3>3. Within(inbox'[s], last[s], sent[s]) /\ Within(kept'[s], last[s], sent[s])
        BY <2>1, <2>2, <2>6 DEF OrderOf, Within
      <3>4. Before(kept'[s], inbox'[s])
        BY <2>1, <2>2, <2>3, <2>6 DEF OrderOf, Before
      <3>5. \A a \in Elems(kept'[s]) : IsRequest(a)
        BY <2>2, <2>6, <3>1 DEF OrderOf
      <3>6. OrderOf(s)'
        BY <2>1, <2>2, <2>3, <2>6, <3>2, <3>3, <3>4, <3>5 DEF OrderOf
      <3>7. QED
        BY <2>1, <2>4, <3>6 DEF Order, OrderOf
    <2>7. CASE /\ m.kind \in Requests /\ kept[s] = <<>> /\ UNCHANGED kept
               /\ last' = [last EXCEPT ![s] = m.seq]
      <3>1. IsRequest(m) /\ last'[s] = m.seq
        BY <2>7 DEF IsRequest, Types, CountTyped
      <3>2. Elems(kept'[s]) = {}
        BY <2>7, NoElems
      <3>3. m.seq <= sent[s] /\ \A a \in Elems(inbox'[s]) : IsRequest(a)
               => m.seq < a.seq /\ a.seq <= sent[s]
        BY <2>1, <2>2, <2>3, <3>1 DEF OrderOf, Within
      <3>4. OrderOf(s)'
        BY <2>1, <2>2, <2>3, <2>7, <3>1, <3>2, <3>3 DEF OrderOf, Within, Before
      <3>5. QED
        BY <2>1, <2>4, <3>4 DEF Order, OrderOf
    <2>8. QED
      BY <1>6, <2>0, <2>5, <2>6, <2>7, TakeIs
  <1>7. ASSUME NEW s \in Services, TakePending(s) PROVE Order'
    <2>0. PICK m : m = Head(kept[s])
      OBVIOUS
    <2>1. /\ UNCHANGED <<dead, sent, inbox>> /\ s \notin dead /\ m \in Messages /\ kept[s] # <<>>
          /\ kept'[s] = Tail(kept[s]) /\ \A u \in Services \ {s} : kept'[u] = kept[u]
          /\ Elems(kept[s]) = Elems(kept'[s]) \cup {m} /\ last' = [last EXCEPT ![s] = m.seq]
      BY <1>7, <2>0, PendingIs DEF lives
    <2>2. /\ OrderOf(s) /\ kept[s] \in Seq(Messages)
          /\ last[s] \in Nat /\ sent[s] \in Nat
          /\ \A a \in Elems(inbox[s]) \cup Elems(kept[s]) : a.seq \in Nat
      BY <2>1, Numbers DEF Order
    <2>3. last'[s] = m.seq /\ \A u \in Services \ {s} : last'[u] = last[u]
      BY <2>1 DEF Types, CountTyped
    <2>4. IsRequest(m)
      BY <2>1, <2>2 DEF OrderOf
    <2>5. /\ Rises(kept'[s]) /\ \A a \in Elems(kept'[s]) : IsRequest(a) => m.seq < a.seq
      BY <2>0, <2>1, <2>2, <2>4, RisesTail DEF OrderOf
    <2>6. \A a \in Elems(inbox[s]) : IsRequest(a) => m.seq < a.seq
      BY <2>1, <2>2, <2>4 DEF OrderOf, Before
    <2>7. Within(kept'[s], m.seq, sent[s]) /\ Within(inbox[s], m.seq, sent[s]) /\ m.seq <= sent[s]
      BY <2>1, <2>2, <2>4, <2>5, <2>6 DEF OrderOf, Within
    <2>8. Before(kept'[s], inbox[s]) /\ \A a \in Elems(kept'[s]) : IsRequest(a)
      BY <2>1, <2>2 DEF OrderOf, Before
    <2>9. OrderOf(s)'
      BY <2>1, <2>2, <2>3, <2>5, <2>7, <2>8 DEF OrderOf
    <2>10. QED
      BY <2>1, <2>3, <2>9 DEF Order, OrderOf
  <1>8. ASSUME NEW s \in Services, TakeReady(s) PROVE Order'
    <2>1. UNCHANGED <<dead, inbox, kept, last, sent>>
      BY <1>8 DEF TakeReady, lives, boxes, sets, execs, count, hist
    <2>2. QED
      BY <2>1, OrderSame
  <1>9. ASSUME NEW s \in Services, PollCall(s) PROVE Order'
    <2>1. UNCHANGED <<dead, inbox, kept, last, sent>>
      BY <1>9 DEF PollCall, lives, boxes, sets, execs, count, hist
    <2>2. QED
      BY <2>1, OrderSame
  <1>10. ASSUME NEW s \in Services, Abandon(s) PROVE Order'
    <2>1. UNCHANGED <<dead, inbox, kept, last, sent>>
      BY <1>10 DEF Abandon, lives, boxes, sets, execs, count, hist
    <2>2. QED
      BY <2>1, OrderSame
  <1>11. ASSUME NEW s \in Services, NEW d \in Services, Call(s, d) PROVE Order'
    <2>1. UNCHANGED <<dead, inbox, kept, last, sent>>
      BY <1>11 DEF Call, NewCall, lives, boxes, sets, execs, count, hist
    <2>2. QED
      BY <2>1, OrderSame
  <1>12. ASSUME NEW s \in Services, NEW d \in Services, Post(s, d) PROVE Order'
    <2>1. UNCHANGED <<dead, inbox, kept, last, sent>>
      BY <1>12 DEF Post, OtherEvent, lives, boxes, sets, execs, count, hist
    <2>2. QED
      BY <2>1, OrderSame
  <1>13. ASSUME NEW s \in Services, Push(s) PROVE Order'
    <2>0. PICK d, x : d = out[s].to /\ x = Stamped(s)
      OBVIOUS
    <2>1. /\ UNCHANGED <<dead, kept, last>> /\ d \in Services
          /\ x \in Messages /\ x.seq = sent[d] + 1 /\ sent'[d] = sent[d] + 1
          /\ \A u \in Services \ {d} : inbox'[u] = inbox[u] /\ sent'[u] = sent[u]
          /\ inbox'[d] = Append(inbox[d], x) /\ Elems(inbox'[d]) = Elems(inbox[d]) \cup {x}
      BY <1>13, <2>0, PushIs DEF lives
    <2>2. ASSUME d \notin dead PROVE OrderOf(d)'
      <3>1. /\ OrderOf(d) /\ inbox[d] \in Seq(Messages) /\ last[d] \in Nat /\ sent[d] \in Nat
            /\ \A m \in Elems(inbox[d]) \cup Elems(kept[d]) : m.seq \in Nat
        BY <2>1, <2>2, Numbers DEF Order
      <3>2. /\ \A m \in Elems(inbox[d]) : IsRequest(m) => last[d] < m.seq /\ m.seq < x.seq
            /\ \A m \in Elems(kept[d]) : IsRequest(m) => last[d] < m.seq /\ m.seq < x.seq
            /\ last[d] < x.seq /\ x.seq <= sent'[d]
        BY <2>1, <3>1 DEF OrderOf, Within
      <3>3. Rises(inbox'[d])
        BY <2>1, <3>1, <3>2, RisesAppend DEF OrderOf
      <3>4. /\ Within(kept[d], last[d], sent'[d]) /\ Within(inbox'[d], last[d], sent'[d])
            /\ last[d] <= sent'[d]
        BY <2>1, <3>1, <3>2 DEF Within
      <3>5. Before(kept[d], inbox'[d])
        BY <2>1, <3>1, <3>2 DEF Before, OrderOf
      <3>6. QED
        BY <2>1, <3>1, <3>3, <3>4, <3>5 DEF OrderOf
    <2>3. ASSUME NEW u \in Services \ dead, u # d PROVE OrderOf(u)'
      BY <2>1, <2>3 DEF Order, OrderOf
    <2>4. QED
      BY <2>1, <2>2, <2>3 DEF Order
  <1>14. ASSUME NEW s \in Services, CallExternal(s) PROVE Order'
    <2>1. UNCHANGED <<dead, inbox, kept, last, sent>>
      BY <1>14 DEF CallExternal, NewCall, lives, boxes, sets, execs, count, hist
    <2>2. QED
      BY <2>1, OrderSame
  <1>15. ASSUME NEW s \in Services, NEW kind \in Answers, UserReply(s, kind) PROVE Order'
    <2>1. /\ Asked(Current(s).msg) /\ SendReply(kind, Current(s).msg)
          /\ UNCHANGED <<dead, sent, last, kept>>
      BY <1>15, UserReplyIs DEF lives
    <2>2. QED
      BY <2>1, OrderReply
  <1>16. ASSUME NEW s \in Services, Spawn(s) PROVE Order'
    <2>1. UNCHANGED <<dead, inbox, kept, last, sent>>
      BY <1>16 DEF Spawn, OtherEvent, lives, boxes, sets, execs, count, hist
    <2>2. QED
      BY <2>1, OrderSame
  <1>17. ASSUME NEW s \in Services, Exit(s) PROVE Order'
    <2>1. dead \subseteq dead' /\ UNCHANGED <<inbox, kept, last, sent>>
      BY <1>17 DEF Exit, Retired, boxes, hist
    <2>2. QED
      BY <2>1, OrderSame
  <1>18. ASSUME NEW s \in Services, FailOne(s) PROVE Order'
    <2>1. UNCHANGED <<dead, sent, last, kept>>
      BY <1>18 DEF FailOne, lives
    <2>2. PICK k \in tasks[s] : Asked(k.msg) /\ SendReply("ERROR", k.msg)
      BY <1>18, Failed
    <2>3. QED
      BY <2>1, <2>2, OrderReply DEF Answers
  <1>19. ASSUME NEW s \in Services, ExitFails(s), ~FailOne(s) PROVE Order'
    <2>1. UNCHANGED <<dead, inbox, kept, last, sent>>
      BY <1>19 DEF ExitFails, lives, boxes, sets, execs, count, hist
    <2>2. QED
      BY <2>1, OrderSame
  <1>20. ASSUME NEW s \in Services, InitFails(s) PROVE Order'
    <2>1. dead \subseteq dead' /\ UNCHANGED <<inbox, kept, last, sent>>
      BY <1>20 DEF InitFails, Retired, boxes, hist
    <2>2. QED
      BY <2>1, OrderSame
  <1>21. ASSUME NEW s \in Services, Return(s) PROVE Order'
    <2>1. UNCHANGED <<dead, inbox, kept, last, sent>>
      BY <1>21 DEF Return, lives, boxes, sets, execs, count, hist
    <2>2. QED
      BY <2>1, OrderSame
  <1>22. ASSUME NEW s \in Services, Cleanup(s) PROVE Order'
    <2>1. UNCHANGED <<dead, inbox, kept, last, sent>>
      BY <1>22 DEF Cleanup, lives, boxes, sets, execs, count, hist
    <2>2. QED
      BY <2>1, OrderSame
  <1>23. ASSUME NEW s \in Services, CleanDrops(s) PROVE Order'
    <2>1. /\ s \in dead /\ UNCHANGED <<dead, sent, last>>
          /\ \A u \in Services \ {s} : kept'[u] = kept[u] /\ inbox'[u] = inbox[u]
      BY <1>23, DropIs DEF lives, hist
    <2>2. QED
      BY <2>1 DEF Order, OrderOf
  <1>24. ASSUME NEW s \in Services, CleanRefuses(s) PROVE Order'
    <2>1. /\ s \in dead /\ UNCHANGED <<dead, sent, last>>
          /\ \A u \in Services \ {s} : kept'[u] = kept[u]
      BY <1>24, RefuseIs DEF lives
    <2>2. CASE UNCHANGED inbox
      BY <2>1, <2>2 DEF Order, OrderOf
    <2>3. CASE Asked(Head(kept[s])) /\ SendReply("ERROR", Head(kept[s]))
      BY <2>1, <2>3, OrderReply DEF Answers
    <2>4. QED
      BY <1>24, <2>2, <2>3, RefuseIs
  <1>25. ASSUME NEW s \in Services, CleanReleases(s) PROVE Order'
    <2>1. UNCHANGED <<dead, inbox, kept, last, sent>>
      BY <1>25 DEF CleanReleases, lives, boxes, sets, execs, count, hist
    <2>2. QED
      BY <2>1, OrderSame
  <1>26. ASSUME UNCHANGED vars PROVE Order'
    <2>1. UNCHANGED <<dead, inbox, kept, last, sent>>
      BY <1>26 DEF vars, lives, boxes, sets, execs, count, hist
    <2>2. QED
      BY <2>1, OrderSame
  <1>27. QED
    BY <1>1, <1>2, <1>3, <1>4, <1>5, <1>6, <1>7, <1>8, <1>9, <1>10, <1>11, <1>12, <1>13,
       <1>14, <1>15, <1>16, <1>17, <1>18, <1>19, <1>20, <1>21, <1>22, <1>23, <1>24, <1>25,
       <1>26
    DEF Next, Environment, Execute, User, CleanFails, ExitFails

-----------------------------------------------------------------------------
(* Every service starts with its init task queued, and nothing else.       *)
LEMMA RpcInit == Init => RpcInv
  <1> SUFFICES ASSUME Init PROVE RpcInv
    OBVIOUS
  <1> DEFINE k0 == [id |-> INIT_TASK, msg |-> NoMessage, owed |-> FALSE, replied |-> FALSE,
                    wait |-> 0]
             q0 == <<INIT_TASK>>
  <1>1. k0 \in Tasks /\ k0.id = 1 /\ ~k0.owed /\ k0.msg = NoMessage /\ k0.wait = 0
    BY RecordsTyped DEF Tasks, INIT_TASK
  <1>2. q0 \in Seq(Nat) /\ DOMAIN q0 = {1} /\ q0[1] = 1 /\ q0 = <<1>>
    BY DEF INIT_TASK
  <1>3. Elems(q0) = {1} /\ Once(q0, 1)
    BY <1>2 DEF Elems, Once
  <1>4. NoMessage.kind = "none" /\ Nothing.msg = NoMessage /\ Nothing.to = Outside
    BY DEF NoMessage, Nothing
  <1> HIDE DEF k0, q0
  <1>5. /\ table = Services /\ dead = {} /\ destroyed = {} /\ selfExit = {} /\ tokens = {}
        /\ waking = {} /\ calls = 0 /\ others = 0 /\ forgotten = {}
        /\ life = [s \in Services |-> "INITIALIZING"]
        /\ first = [c \in 1..MaxEvents |-> "none"]
        /\ inbox = [s \in Services |-> <<>>] /\ kept = [s \in Services |-> <<>>]
        /\ ready = [s \in Services |-> q0] /\ tasks = [s \in Services |-> {k0}]
        /\ signal = [s \in Services |-> {1}] /\ generation = [s \in Services |-> 1]
        /\ slots = [s \in Services |-> {}] /\ next = [s \in Services |-> 0]
        /\ pc = [s \in Services |-> "free"] /\ run = [s \in Services |-> 0]
        /\ out = [s \in Services |-> Nothing]
        /\ sent = [s \in Services |-> 0] /\ last = [s \in Services |-> 0]
    BY DEF Init, INIT_TASK, k0, q0
  <1>6. \A s \in Services : /\ inbox[s] = <<>> /\ kept[s] = <<>> /\ ready[s] = q0
                            /\ tasks[s] = {k0} /\ signal[s] = {1} /\ generation[s] = 1
                            /\ slots[s] = {} /\ next[s] = 0 /\ pc[s] = "free" /\ run[s] = 0
                            /\ out[s] = Nothing /\ sent[s] = 0 /\ last[s] = 0
    BY <1>5
  <1>7. LifeTyped /\ SetTyped /\ CountTyped
    BY <1>1, <1>5, RpcAssumption DEF LifeTyped, SetTyped, CountTyped
  <1>8. BoxTyped /\ ExecTyped
    BY <1>2, <1>5, EmptyTyped, RecordsTyped DEF BoxTyped, ExecTyped
  <1>9. Control
    BY <1>5, <1>6 DEF Control, PollPC, CleanPC
  <1>10. TaskBooks /\ SessionBooks
    BY <1>1, <1>6 DEF TaskBooks, SessionBooks
  <1>11. Signals
    <2>1. SUFFICES ASSUME NEW s \in Services PROVE SignalsOf(s)
      BY DEF Signals
    <2>2. Elems(ready[s]) = {1} /\ Once(ready[s], 1)
      BY <1>3, <1>6
    <2>3. QED
      BY <1>1, <1>5, <1>6, <2>2 DEF SignalsOf, Entry
  <1>12. Results /\ Pending
    BY <1>6 DEF Results, Pending
  <1>13. Book
    <2>1. ASSUME NEW f \in Services, NEW n, NEW c PROVE ~Names(f, n, c)
      BY <1>1, <1>4, <1>5, <1>6, NoElems DEF Names, AsksFor
    <2>2. QED
      BY <1>4, <1>6, <2>1 DEF Book
  <1>14. Firsts
    BY <1>5, <1>6, NoElems DEF Firsts
  <1>15. Order
    <2>1. Rises(<<>>)
      BY DEF Rises
    <2>2. SUFFICES ASSUME NEW s \in Services PROVE OrderOf(s)
      BY DEF Order
    <2>3. /\ Within(kept[s], last[s], sent[s]) /\ Within(inbox[s], last[s], sent[s])
          /\ Before(kept[s], inbox[s]) /\ \A m \in Elems(kept[s]) : IsRequest(m)
      BY <1>6, NoElems DEF Within, Before
    <2>4. QED
      BY <1>6, <2>1, <2>3 DEF OrderOf
  <1>16. QED
    BY <1>7, <1>8, <1>9, <1>10, <1>11, <1>12, <1>13, <1>14, <1>15 DEF RpcInv, Types

(* The invariant is inductive. *)
LEMMA RpcStep == RpcInv /\ [Next]_vars => RpcInv'
  <1> SUFFICES ASSUME RpcInv, [Next]_vars PROVE RpcInv'
    OBVIOUS
  <1>1. /\ Types /\ Control /\ TaskBooks /\ SessionBooks /\ Signals /\ Results
        /\ Book /\ Firsts /\ Pending /\ Order
    BY DEF RpcInv
  <1>2. Types'
    BY <1>1, LifeStep, BoxStep, SetStep, ExecStep, CountStep DEF Types
  <1>3. Control' /\ TaskBooks' /\ SessionBooks'
    BY <1>1, ControlStep, BooksStep, SessionsStep
  <1>4. Signals' /\ Results' /\ Book'
    BY <1>1, SignalsStep, ResultsStep, BookStep
  <1>5. Firsts' /\ Pending' /\ Order'
    BY <1>1, FirstsStep, PendingStep, OrderStep
  <1>6. QED
    BY <1>2, <1>3, <1>4, <1>5 DEF RpcInv

(* RpcInv holds always, for any services, calls, posts and wake-ups.       *)
THEOREM RpcInductive == Spec => []RpcInv
  <1>1. QED
    BY RpcInit, RpcStep, PTL DEF Spec

-----------------------------------------------------------------------------
(* The invariant gives the properties of run rpc.  The entries of a task:  *)
LEMMA EntriesCounted ==
    ASSUME RpcInv, NEW s \in Services, NEW j \in tasks[s]
    PROVE  /\ Entries(s, j.id) # {} <=> Entry(s, j.id)
           /\ Cardinality(Entries(s, j.id)) = IF Entry(s, j.id) THEN 1 ELSE 0
  <1>1. Entries(s, j.id) # {} <=> Entry(s, j.id)
    BY DEF Entries, Entry, Elems
  <1>2. Once(ready[s], j.id)
    BY DEF RpcInv, Signals, SignalsOf
  <1>3. CASE ~Entry(s, j.id)
    BY <1>1, <1>3, FS_EmptySet
  <1>4. CASE Entry(s, j.id)
    <2>1. PICK i : i \in Entries(s, j.id)
      BY <1>1, <1>4
    <2>2. Entries(s, j.id) = {i}
      BY <1>2, <2>1 DEF Once, Entries
    <2>3. Cardinality({i}) = 1
      BY FS_Singleton
    <2>4. QED
      BY <1>1, <1>4, <2>2, <2>3
  <1>5. QED
    BY <1>3, <1>4, <1>1

(* The invariant gives TasksSound, *)
LEMMA InvTasks == RpcInv => TasksSound
  <1> SUFFICES ASSUME RpcInv PROVE TasksSound
    OBVIOUS
  <1>1. TypeOK
    BY DEF TypeOK, RpcInv, Types, LifeTyped, ExecTyped, Control, TaskBooks, SessionBooks,
           PollPC, CleanPC
  <1>2. ReadyOnce
    <2>1. SUFFICES ASSUME NEW s \in Services, NEW j \in tasks[s]
                   PROVE  Cardinality(Entries(s, j.id)) + (IF <<s, j.id>> \in waking THEN 1 ELSE 0)
                            = (IF j.id \in signal[s] THEN 1 ELSE 0)
      BY DEF ReadyOnce
    <2>2. /\ j.id \in signal[s] <=> (Entry(s, j.id) \/ <<s, j.id>> \in waking)
          /\ ~(Entry(s, j.id) /\ <<s, j.id>> \in waking)
      BY DEF RpcInv, Signals, SignalsOf
    <2>3. Cardinality(Entries(s, j.id)) = IF Entry(s, j.id) THEN 1 ELSE 0
      BY EntriesCounted
    <2>4. QED
      BY <2>2, <2>3
  <1>3. NoLostResult
    BY EntriesCounted DEF NoLostResult, RpcInv, Results
  <1>4. QED
    BY <1>1, <1>2, <1>3 DEF TasksSound

(* NoCrossTalk, *)
LEMMA InvCrossTalk == RpcInv => NoCrossTalk
  <1> SUFFICES ASSUME RpcInv, NEW s \in Services, NEW i \in DOMAIN inbox[s], NEW k \in slots[s],
                      inbox[s][i].kind \in Answers, inbox[s][i].session = k.session
               PROVE  inbox[s][i].call = k.call
    BY DEF NoCrossTalk
  <1>1. inbox[s][i] \in Elems(inbox[s])
    BY DEF Elems
  <1>2. QED
    BY <1>1, SameCall DEF RpcInv

(* A dead service at rest has been destroyed and has nothing left. *)
LEMMA InvDead == RpcInv => DeadAnswers
  <1> SUFFICES ASSUME RpcInv, AtRest, NEW c \in 1..MaxEvents, NEW d \in dead, Holds(d, c)
               PROVE  FALSE
    BY DEF DeadAnswers, DeadOwes
  <1>1. d \in Services /\ pc[d] = "free" /\ ~NeedsCleanup(d)
    BY DEF RpcInv, Types, LifeTyped, AtRest
  <1>2. d \in destroyed /\ inbox[d] = <<>>
    BY <1>1 DEF NeedsCleanup
  <1>3. tasks[d] = {} /\ kept[d] = <<>>
    BY <1>1, <1>2 DEF RpcInv, Control
  <1>4. QED
    BY <1>2, <1>3 DEF Holds, In

(* and CallsSettled. *)
LEMMA InvCalls == RpcInv => CallsSettled
  <1> SUFFICES ASSUME RpcInv PROVE CallsSettled
    OBVIOUS
  <1>1. AnswerStands
    BY DEF AnswerStands, RpcInv, Firsts, FirstOf
  <1>2. ASSUME NEW s \in table, NEW k \in slots[s], k.result = "none"
        PROVE  k.call \in forgotten \/ UnderWay(s, k.call)
    <2>1. s \in Services /\ FirstOf(s, k)
      BY DEF RpcInv, Types, LifeTyped, Firsts
    <2>2. CASE first[k.call] # "none"
      <3>1. Has(inbox[s], k.call)
        BY <1>2, <2>1, <2>2 DEF FirstOf
      <3>2. In(inbox[s], Answers, k.call)
        BY <3>1 DEF Has, AnswersTo, In, Elems
      <3>3. QED
        BY <3>2 DEF UnderWay
    <2>3. CASE first[k.call] = "none"
      <3>1. Cared(s, k.call)
        BY <2>1, <2>3 DEF RpcInv, Pending
      <3>2. ASSUME NEW d \in Services, With(d, k.call) PROVE Holds(d, k.call)
        BY <2>3, <3>2 DEF With, Holds, In, Elems
      <3>3. QED
        BY <3>1, <3>2 DEF Cared, UnderWay
    <2>4. QED
      BY <2>2, <2>3
  <1>3. QED
    BY <1>1, <1>2, InvDead DEF CallsSettled, NoOrphanedCall

(* A task has one ready entry, or one waker about to queue it, exactly     *)
(* while its signal is set, and the task of a settled call is about to be  *)
(* polled (TaskSignal, SessionTable::complete, poll_task).                 *)
THEOREM TasksSoundAlways == Spec => []TasksSound
  <1>1. QED
    BY RpcInductive, InvTasks, PTL

(* Every call that waits is waited for or was forgotten by its handler, it *)
(* keeps its first answer, and at rest the dead owe none (complete,        *)
(* fail_inflight, cleanup, destroy).                                       *)
THEOREM CallsSettledAlways == Spec => []CallsSettled
  <1>1. QED
    BY RpcInductive, InvCalls, PTL

(* A late answer never meets a session of another call (alloc, abandon).   *)
THEOREM NoCrossTalkAlways == Spec => []NoCrossTalk
  <1>1. QED
    BY RpcInductive, InvCrossTalk, PTL

(* The number of the last request dispatched does not fall. *)
LastGrows == \A u \in Services : last'[u] >= last[u]

(* Nothing is dispatched. *)
LEMMA LastSame ==
    ASSUME Types, UNCHANGED <<last>>
    PROVE  LastGrows
  BY Numbers DEF LastGrows

(* The number of the last request dispatched only grows. *)
LEMMA LastStep ==
    ASSUME Types, Order, [Next]_vars
    PROVE  LastGrows
  <1>1. ASSUME NEW s \in Services, ForeignWake(s) PROVE LastGrows
    <2>1. UNCHANGED <<last>>
      BY <1>1 DEF ForeignWake, OtherEvent, lives, boxes, sets, execs, count, hist
    <2>2. QED
      BY <2>1, LastSame
  <1>2. ASSUME NEW s \in Services, ForeignPush(s) PROVE LastGrows
    <2>1. UNCHANGED <<last>>
      BY <1>2 DEF ForeignPush, lives, boxes, sets, execs, count, hist
    <2>2. QED
      BY <2>1, LastSame
  <1>3. ASSUME NEW t \in tokens, NEW kind \in Answers, ExternalReply(t, kind) PROVE LastGrows
    <2>1. UNCHANGED <<last>>
      BY <1>3 DEF ExternalReply, lives, boxes, sets, execs, count, hist
    <2>2. QED
      BY <2>1, LastSame
  <1>4. ASSUME NEW s \in Services, Kill(s) PROVE LastGrows
    <2>1. UNCHANGED <<last>>
      BY <1>4 DEF Kill, lives, boxes, sets, execs, count, hist
    <2>2. QED
      BY <2>1, LastSame
  <1>5. ASSUME NEW s \in Services, MarkDead(s) PROVE LastGrows
    <2>1. UNCHANGED <<last>>
      BY <1>5 DEF MarkDead, lives, boxes, sets, execs, count, hist
    <2>2. QED
      BY <2>1, LastSame
  <1>6. ASSUME NEW s \in Services, TakeMessage(s) PROVE LastGrows
    <2>1. CASE last' = last
      BY <2>1, Numbers DEF LastGrows
    <2>2. CASE last' # last
      BY <1>6, <2>2, DispatchLater, Numbers DEF LastGrows
    <2>3. QED
      BY <2>1, <2>2
  <1>7. ASSUME NEW s \in Services, TakePending(s) PROVE LastGrows
    BY <1>7, DispatchLater, Numbers DEF LastGrows
  <1>8. ASSUME NEW s \in Services, TakeReady(s) PROVE LastGrows
    <2>1. UNCHANGED <<last>>
      BY <1>8 DEF TakeReady, lives, boxes, sets, execs, count, hist
    <2>2. QED
      BY <2>1, LastSame
  <1>9. ASSUME NEW s \in Services, PollCall(s) PROVE LastGrows
    <2>1. UNCHANGED <<last>>
      BY <1>9 DEF PollCall, lives, boxes, sets, execs, count, hist
    <2>2. QED
      BY <2>1, LastSame
  <1>10. ASSUME NEW s \in Services, Abandon(s) PROVE LastGrows
    <2>1. UNCHANGED <<last>>
      BY <1>10 DEF Abandon, lives, boxes, sets, execs, count, hist
    <2>2. QED
      BY <2>1, LastSame
  <1>11. ASSUME NEW s \in Services, NEW d \in Services, Call(s, d) PROVE LastGrows
    <2>1. UNCHANGED <<last>>
      BY <1>11 DEF Call, NewCall, lives, boxes, sets, execs, count, hist
    <2>2. QED
      BY <2>1, LastSame
  <1>12. ASSUME NEW s \in Services, NEW d \in Services, Post(s, d) PROVE LastGrows
    <2>1. UNCHANGED <<last>>
      BY <1>12 DEF Post, OtherEvent, lives, boxes, sets, execs, count, hist
    <2>2. QED
      BY <2>1, LastSame
  <1>13. ASSUME NEW s \in Services, Push(s) PROVE LastGrows
    <2>1. UNCHANGED <<last>>
      BY <1>13 DEF Push, lives, boxes, sets, execs, count, hist
    <2>2. QED
      BY <2>1, LastSame
  <1>14. ASSUME NEW s \in Services, CallExternal(s) PROVE LastGrows
    <2>1. UNCHANGED <<last>>
      BY <1>14 DEF CallExternal, NewCall, lives, boxes, sets, execs, count, hist
    <2>2. QED
      BY <2>1, LastSame
  <1>15. ASSUME NEW s \in Services, NEW kind \in Answers, UserReply(s, kind) PROVE LastGrows
    <2>1. UNCHANGED <<last>>
      BY <1>15 DEF UserReply, lives, boxes, sets, execs, count, hist
    <2>2. QED
      BY <2>1, LastSame
  <1>16. ASSUME NEW s \in Services, Spawn(s) PROVE LastGrows
    <2>1. UNCHANGED <<last>>
      BY <1>16 DEF Spawn, OtherEvent, lives, boxes, sets, execs, count, hist
    <2>2. QED
      BY <2>1, LastSame
  <1>17. ASSUME NEW s \in Services, Exit(s) PROVE LastGrows
    <2>1. UNCHANGED <<last>>
      BY <1>17 DEF Exit, lives, boxes, sets, execs, count, hist
    <2>2. QED
      BY <2>1, LastSame
  <1>18. ASSUME NEW s \in Services, FailOne(s) PROVE LastGrows
    <2>1. UNCHANGED <<last>>
      BY <1>18 DEF FailOne, lives, boxes, sets, execs, count, hist
    <2>2. QED
      BY <2>1, LastSame
  <1>19. ASSUME NEW s \in Services, ExitFails(s), ~FailOne(s) PROVE LastGrows
    <2>1. UNCHANGED <<last>>
      BY <1>19 DEF ExitFails, lives, boxes, sets, execs, count, hist
    <2>2. QED
      BY <2>1, LastSame
  <1>20. ASSUME NEW s \in Services, InitFails(s) PROVE LastGrows
    <2>1. UNCHANGED <<last>>
      BY <1>20 DEF InitFails, lives, boxes, sets, execs, count, hist
    <2>2. QED
      BY <2>1, LastSame
  <1>21. ASSUME NEW s \in Services, Return(s) PROVE LastGrows
    <2>1. UNCHANGED <<last>>
      BY <1>21 DEF Return, lives, boxes, sets, execs, count, hist
    <2>2. QED
      BY <2>1, LastSame
  <1>22. ASSUME NEW s \in Services, Cleanup(s) PROVE LastGrows
    <2>1. UNCHANGED <<last>>
      BY <1>22 DEF Cleanup, lives, boxes, sets, execs, count, hist
    <2>2. QED
      BY <2>1, LastSame
  <1>23. ASSUME NEW s \in Services, CleanDrops(s) PROVE LastGrows
    <2>1. UNCHANGED <<last>>
      BY <1>23 DEF CleanDrops, DropAll, lives, boxes, sets, execs, count, hist
    <2>2. QED
      BY <2>1, LastSame
  <1>24. ASSUME NEW s \in Services, CleanRefuses(s) PROVE LastGrows
    <2>1. UNCHANGED <<last>>
      BY <1>24 DEF CleanRefuses, lives, boxes, sets, execs, count, hist
    <2>2. QED
      BY <2>1, LastSame
  <1>25. ASSUME NEW s \in Services, CleanReleases(s) PROVE LastGrows
    <2>1. UNCHANGED <<last>>
      BY <1>25 DEF CleanReleases, lives, boxes, sets, execs, count, hist
    <2>2. QED
      BY <2>1, LastSame
  <1>26. ASSUME UNCHANGED vars PROVE LastGrows
    <2>1. UNCHANGED <<last>>
      BY <1>26 DEF vars, lives, boxes, sets, execs, count, hist
    <2>2. QED
      BY <2>1, LastSame
  <1>27. QED
    BY <1>1, <1>2, <1>3, <1>4, <1>5, <1>6, <1>7, <1>8, <1>9, <1>10, <1>11, <1>12, <1>13,
       <1>14, <1>15, <1>16, <1>17, <1>18, <1>19, <1>20, <1>21, <1>22, <1>23, <1>24, <1>25,
       <1>26
    DEF Next, Environment, Execute, User, CleanFails, ExitFails

(* Requests open their tasks in the order in which they were queued, also  *)
(* those kept until init ended (run_service, take_pending).                *)
THEOREM FifoDispatchAlways == Spec => FifoDispatch
  <1>1. RpcInv /\ [Next]_vars => [\A s \in Services : last'[s] >= last[s]]_last
    BY LastStep DEF RpcInv, LastGrows
  <1>2. QED
    BY <1>1, RpcInductive, PTL DEF Spec, FifoDispatch

=============================================================================
