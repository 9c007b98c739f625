--------------------------- MODULE AppCommands_proofs ---------------------------
(***************************************************************************)
(* Proofs about AppCommands: the window keeps the contract CommandLife, no *)
(* command is lost in it, and none sleeps without a frame asked for, for   *)
(* any number of commands, any mailbox and any batch.                      *)
(***************************************************************************)
EXTENDS AppCommands, SequenceTheorems, TLAPS

(* Queues in which no command is twice *)

Member(q, x) == \E k \in DOMAIN q : q[k] = x
Distinct(q) == \A j, k \in DOMAIN q : q[j] = q[k] => j = k

\* Nothing is a member of the empty sequence.
LEMMA EmptyDistinct == Distinct(<<>>) /\ \A x : ~Member(<<>>, x)
<1>1. DOMAIN <<>> = {}
  BY EmptySeq
<1> QED BY <1>1 DEF Distinct, Member

\* Taking the first element away leaves the others.
LEMMA TailDistinct ==
  ASSUME NEW S, NEW q \in Seq(S), q # <<>>, Distinct(q)
  PROVE  /\ Head(q) \in S /\ Member(q, Head(q))
         /\ Tail(q) \in Seq(S) /\ Len(Tail(q)) = Len(q) - 1 /\ Distinct(Tail(q))
         /\ \A x : Member(Tail(q), x) <=> x # Head(q) /\ Member(q, x)
<1> USE DEF Member, Distinct
<1>1. /\ Head(q) \in S /\ Tail(q) \in Seq(S)
      /\ Len(q) \in Nat \ {0} /\ Len(Tail(q)) = Len(q) - 1
      /\ \A k \in 1 .. Len(Tail(q)) : Tail(q)[k] = q[k + 1]
  BY HeadTailProperties, EmptySeq, LenProperties
<1>2. DOMAIN q = 1 .. Len(q) /\ DOMAIN Tail(q) = 1 .. Len(q) - 1 /\ Head(q) = q[1]
  BY <1>1, LenProperties, HeadTailProperties
<1>3. ASSUME NEW x
      PROVE  Member(Tail(q), x) <=> x # Head(q) /\ Member(q, x)
  <2>1. ASSUME NEW k \in DOMAIN Tail(q), Tail(q)[k] = x
        PROVE  x # Head(q) /\ Member(q, x)
    <3>1. k \in 1 .. Len(q) - 1 /\ k + 1 \in DOMAIN q /\ 1 \in DOMAIN q
      BY <1>1, <1>2
    <3>2. x = q[k + 1] /\ k + 1 # 1
      BY <1>1, <1>2, <2>1, <3>1
    <3> QED BY <1>2, <3>1, <3>2
  <2>2. ASSUME NEW k \in DOMAIN q, q[k] = x, x # Head(q)
        PROVE  Member(Tail(q), x)
    <3>1. k \in 2 .. Len(q)
      BY <1>1, <1>2, <2>2
    <3>2. k - 1 \in DOMAIN Tail(q) /\ Tail(q)[k - 1] = q[k]
      BY <1>1, <1>2, <3>1
    <3> QED BY <2>2, <3>2
  <2> QED BY <2>1, <2>2
<1>4. ASSUME NEW j \in DOMAIN Tail(q), NEW k \in DOMAIN Tail(q), Tail(q)[j] = Tail(q)[k]
      PROVE  j = k
  <2>1. j \in 1 .. Len(q) - 1 /\ k \in 1 .. Len(q) - 1
    BY <1>2
  <2>2. j + 1 \in DOMAIN q /\ k + 1 \in DOMAIN q /\ q[j + 1] = q[k + 1]
    BY <1>1, <1>2, <1>4, <2>1
  <2>3. j + 1 = k + 1
    BY <2>2
  <2> QED BY <2>1, <2>3
<1>5. Member(q, Head(q))
  BY <1>1, <1>2
<1> QED BY <1>1, <1>3, <1>4, <1>5

\* A new element at the end joins the others.
LEMMA AppendDistinct ==
  ASSUME NEW S, NEW q \in Seq(S), NEW n \in S, Distinct(q), ~Member(q, n)
  PROVE  /\ Append(q, n) \in Seq(S) /\ Len(Append(q, n)) = Len(q) + 1
         /\ Distinct(Append(q, n))
         /\ \A x : Member(Append(q, n), x) <=> x = n \/ Member(q, x)
<1> USE DEF Member, Distinct
<1> DEFINE r == Append(q, n)
<1>1. /\ r \in Seq(S) /\ Len(r) = Len(q) + 1 /\ Len(q) \in Nat
      /\ \A k \in 1 .. Len(q) : r[k] = q[k]
      /\ r[Len(q) + 1] = n
  BY AppendProperties, LenProperties
<1>2. DOMAIN q = 1 .. Len(q) /\ DOMAIN r = 1 .. Len(q) + 1
  BY <1>1, LenProperties
<1> HIDE DEF r
<1>3. ASSUME NEW x
      PROVE  Member(r, x) <=> x = n \/ Member(q, x)
  <2>1. ASSUME NEW k \in DOMAIN r, r[k] = x
        PROVE  x = n \/ Member(q, x)
    <3>1. CASE k = Len(q) + 1
      BY <1>1, <2>1, <3>1
    <3>2. CASE k # Len(q) + 1
      <4>1. k \in DOMAIN q /\ r[k] = q[k]
        BY <1>1, <1>2, <3>2
      <4> QED BY <2>1, <4>1
    <3> QED BY <3>1, <3>2
  <2>2. ASSUME x = n PROVE Member(r, x)
    BY <1>1, <1>2, <2>2
  <2>3. ASSUME NEW k \in DOMAIN q, q[k] = x PROVE Member(r, x)
    <3>1. k \in DOMAIN r /\ r[k] = q[k]
      BY <1>1, <1>2
    <3> QED BY <2>3, <3>1
  <2> QED BY <2>1, <2>2, <2>3
<1>4. ASSUME NEW j \in DOMAIN r, NEW k \in DOMAIN r, r[j] = r[k]
      PROVE  j = k
  <2>1. \A m \in 1 .. Len(q) : m \in DOMAIN q /\ r[m] = q[m] /\ r[m] # n
    BY <1>1, <1>2
  <2>2. CASE j = Len(q) + 1
    BY <1>1, <1>2, <1>4, <2>1, <2>2
  <2>3. CASE k = Len(q) + 1
    BY <1>1, <1>2, <1>4, <2>1, <2>3
  <2>4. CASE j # Len(q) + 1 /\ k # Len(q) + 1
    <3>1. j \in 1 .. Len(q) /\ k \in 1 .. Len(q)
      BY <1>1, <1>2, <2>4
    <3>2. j \in DOMAIN q /\ k \in DOMAIN q /\ q[j] = q[k]
      BY <1>4, <2>1, <3>1
    <3> QED BY <3>2
  <2> QED BY <2>2, <2>3, <2>4
<1> QED BY <1>1, <1>3, <1>4 DEF r

\* The members of both parts are members of the whole.
LEMMA MemberConcat ==
  ASSUME NEW S, NEW q \in Seq(S), NEW r \in Seq(S), NEW x, Member(q, x) \/ Member(r, x)
  PROVE  q \o r \in Seq(S) /\ Member(q \o r, x)
<1>1. /\ q \o r \in Seq(S) /\ Len(q \o r) = Len(q) + Len(r)
      /\ \A i \in 1 .. Len(q) + Len(r) :
           (q \o r)[i] = IF i <= Len(q) THEN q[i] ELSE r[i - Len(q)]
  BY ConcatProperties
<1>2. /\ Len(q) \in Nat /\ Len(r) \in Nat
      /\ DOMAIN q = 1 .. Len(q) /\ DOMAIN r = 1 .. Len(r)
      /\ DOMAIN (q \o r) = 1 .. Len(q) + Len(r)
  BY <1>1, LenProperties
<1>3. CASE Member(q, x)
  <2>1. PICK k \in DOMAIN q : q[k] = x
    BY <1>3 DEF Member
  <2>2. k \in DOMAIN (q \o r) /\ (q \o r)[k] = x
    BY <1>1, <1>2, <2>1
  <2> QED BY <1>1, <2>2 DEF Member
<1>4. CASE Member(r, x)
  <2>1. PICK k \in DOMAIN r : r[k] = x
    BY <1>4 DEF Member
  <2>2. Len(q) + k \in DOMAIN (q \o r) /\ (q \o r)[Len(q) + k] = x
    BY <1>1, <1>2, <2>1
  <2> QED BY <1>1, <2>2 DEF Member
<1> QED BY <1>3, <1>4

--------------------------------------------------------------------------------

(* The inductive invariant *)

Working == {"ready", "running", "preparing"}
Results == Life!Answers \cup {"none", "empty", "prepared"}

Types ==
  /\ token \in [Ids -> {"pending", "started", "cancelled"}]
  /\ response \in [Ids -> Life!Answers \cup {"none", "empty"}]
  /\ queue \in Seq(Ids) /\ Len(queue) <= Capacity
  /\ open \in BOOLEAN /\ wake \in BOOLEAN /\ owed \subseteq Ids
  /\ phase \in {"idle", "frame", "dropped", "draining"} /\ drained \in 0 .. Batch
  /\ todo \in Seq(Ids) /\ pending \in Seq(Ids) /\ current \subseteq Ids
  /\ worker \in [Ids -> {"none", "sent", "gone"} \cup Working]
  /\ result \in [Ids -> Results]
  /\ late \subseteq Ids

\* A command is in one place at a time.
OnePlace ==
  /\ Distinct(queue) /\ Distinct(todo) /\ Distinct(pending)
  /\ \A i \in Ids :
       /\ Member(queue, i) => ~Member(todo, i) /\ ~Member(pending, i) /\ i \notin current
       /\ Member(todo, i) => ~Member(pending, i) /\ i \notin current
       /\ Member(pending, i) => i \notin current
       /\ \A j \in Ids : i \in current /\ j \in current => i = j

InHand(i) == Member(queue, i) \/ Member(todo, i) \/ Member(pending, i) \/ i \in current

\* The window holds exactly the commands it owes an answer.
Holding == \A i \in Ids : response[i] = "empty" <=> InHand(i)

\* What worker, token and place of a command say of each other.
Workers ==
  \A i \in Ids :
    /\ worker[i] = "none" <=> result[i] = "none"
    /\ worker[i] \in Working <=> result[i] = "empty"
    /\ response[i] = "none" \/ Member(queue, i) => worker[i] = "none" /\ token[i] # "started"
    /\ Member(todo, i) \/ Member(pending, i) => worker[i] # "none"
    /\ worker[i] = "ready" /\ token[i] = "pending" => Member(todo, i) \/ Member(pending, i)
    /\ result[i] \in Life!Stops => token[i] # "started"

\* Between frames nothing is polled or run; after the drop nothing pending is
\* left to start.
Between ==
  /\ phase # "frame" => todo = <<>> /\ current = {}
  /\ phase \in {"dropped", "draining"} => \A i \in Ids : Member(pending, i) => token[i] # "pending"

\* A result that nobody will collect has a frame asked for.
Asked ==
  /\ phase = "idle" /\ ~wake => \A i \in Ids : Member(queue, i) => i \in owed
  /\ phase \in {"idle", "frame"} /\ ~wake => \A i \in Ids : Member(pending, i) => worker[i] # "gone"

IInv == Types /\ OnePlace /\ Holding /\ Workers /\ Between /\ Asked

--------------------------------------------------------------------------------
(* What the window's steps do to its sequences *)

\* A request leaves the mailbox.
LEMMA TakingFacts ==
  ASSUME Types, OnePlace, NEW i \in Ids, Taking(i)
  PROVE  /\ queue' \in Seq(Ids) /\ Len(queue') <= Capacity /\ drained' \in 0 .. Batch
         /\ Distinct(queue') /\ Member(queue, i)
         /\ \A j \in Ids : Member(queue', j) <=> j # i /\ Member(queue, j)
         /\ phase = "frame" /\ current = {} /\ \A j \in Ids : ~Member(todo, j)
<1>1. /\ queue # <<>> /\ i = Head(queue) /\ queue' = Tail(queue)
      /\ drained < Batch /\ drained' = drained + 1
      /\ phase = "frame" /\ current = {} /\ todo = <<>>
  BY DEF Taking
<1>2. queue \in Seq(Ids) /\ Distinct(queue) /\ Len(queue) \in Nat /\ Len(queue) <= Capacity
  BY LenProperties DEF Types, OnePlace
<1>3. /\ Member(queue, Head(queue)) /\ Tail(queue) \in Seq(Ids)
      /\ Len(Tail(queue)) = Len(queue) - 1 /\ Distinct(Tail(queue))
      /\ \A x : Member(Tail(queue), x) <=> x # Head(queue) /\ Member(queue, x)
  BY <1>1, <1>2, TailDistinct
<1>4. Len(queue') <= Capacity
  <2>1. Len(queue') = Len(queue) - 1
    BY <1>1, <1>3
  <2> QED BY <1>2, <2>1, WindowAssumption
<1>5. drained' \in 0 .. Batch
  BY <1>1, WindowAssumption DEF Types
<1>6. \A j \in Ids : ~Member(todo, j)
  BY <1>1, EmptyDistinct
<1>7. queue' \in Seq(Ids) /\ Distinct(queue') /\ Member(queue, i)
  BY <1>1, <1>3
<1>8. \A j \in Ids : Member(queue', j) <=> j # i /\ Member(queue, j)
  BY <1>1, <1>3
<1> QED BY <1>1, <1>4, <1>5, <1>6, <1>7, <1>8

\* A pending command leaves the list of this frame.
LEMMA PollingFacts ==
  ASSUME Types, OnePlace, NEW i \in Ids, Polling(i)
  PROVE  /\ todo' \in Seq(Ids) /\ Distinct(todo') /\ Member(todo, i)
         /\ \A j \in Ids : Member(todo', j) <=> j # i /\ Member(todo, j)
         /\ phase = "frame" /\ current = {}
<1>1. /\ todo # <<>> /\ i = Head(todo) /\ todo' = Tail(todo)
      /\ phase = "frame" /\ current = {}
  BY DEF Polling
<1>2. todo \in Seq(Ids) /\ Distinct(todo)
  BY DEF Types, OnePlace
<1>3. /\ Member(todo, Head(todo)) /\ Tail(todo) \in Seq(Ids) /\ Distinct(Tail(todo))
      /\ \A x : Member(Tail(todo), x) <=> x # Head(todo) /\ Member(todo, x)
  BY <1>1, <1>2, TailDistinct
<1> QED BY <1>1, <1>3

\* A command joins the pending ones.
LEMMA PendingFacts ==
  ASSUME Types, OnePlace, NEW i \in Ids, ~Member(pending, i), pending' = Append(pending, i)
  PROVE  /\ pending' \in Seq(Ids) /\ Distinct(pending')
         /\ \A j \in Ids : Member(pending', j) <=> j = i \/ Member(pending, j)
<1>1. pending \in Seq(Ids) /\ Distinct(pending)
  BY DEF Types, OnePlace
<1>2. /\ Append(pending, i) \in Seq(Ids) /\ Distinct(Append(pending, i))
      /\ \A x : Member(Append(pending, i), x) <=> x = i \/ Member(pending, x)
  BY <1>1, AppendDistinct
<1> QED BY <1>2

\* A submission joins the mailbox, within its limit.
LEMMA SubmitFacts ==
  ASSUME IInv, NEW i \in Ids, Submit(i)
  PROVE  /\ queue' \in Seq(Ids) /\ Len(queue') <= Capacity /\ Distinct(queue')
         /\ response[i] = "none" /\ ~InHand(i)
         /\ \A j \in Ids : Member(queue', j) <=> j = i \/ Member(queue, j)
<1>1. /\ Len(queue) < Capacity /\ queue' = Append(queue, i) /\ response[i] = "none"
  BY DEF Submit, Life!Submit
<1>2. ~InHand(i)
  BY <1>1 DEF IInv, Holding
<1>3. /\ queue \in Seq(Ids) /\ Distinct(queue) /\ Len(queue) \in Nat /\ ~Member(queue, i)
  BY <1>2, LenProperties DEF IInv, Types, OnePlace, InHand
<1>4. /\ Append(queue, i) \in Seq(Ids) /\ Len(Append(queue, i)) = Len(queue) + 1
      /\ Distinct(Append(queue, i))
      /\ \A x : Member(Append(queue, i), x) <=> x = i \/ Member(queue, x)
  BY <1>3, AppendDistinct
<1>5. Len(queue') <= Capacity
  <2>1. Len(queue') = Len(queue) + 1
    BY <1>1, <1>4
  <2> QED BY <1>1, <1>3, <2>1, WindowAssumption
<1> QED BY <1>1, <1>2, <1>4, <1>5

\* The closing window answers what it still holds, first the mailbox.
LEMMA DrainFacts ==
  ASSUME Types, OnePlace, DrainMailbox
  PROVE  /\ Head(queue) \in Ids /\ Member(queue, Head(queue))
         /\ queue' \in Seq(Ids) /\ Len(queue') <= Capacity /\ Distinct(queue')
         /\ \A j \in Ids : Member(queue', j) <=> j # Head(queue) /\ Member(queue, j)
<1>1. queue # <<>> /\ queue' = Tail(queue)
  BY DEF DrainMailbox
<1>2. queue \in Seq(Ids) /\ Distinct(queue) /\ Len(queue) \in Nat /\ Len(queue) <= Capacity
  BY LenProperties DEF Types, OnePlace
<1>3. /\ Head(queue) \in Ids /\ Member(queue, Head(queue)) /\ Tail(queue) \in Seq(Ids)
      /\ Len(Tail(queue)) = Len(queue) - 1 /\ Distinct(Tail(queue))
      /\ \A x : Member(Tail(queue), x) <=> x # Head(queue) /\ Member(queue, x)
  BY <1>1, <1>2, TailDistinct
<1>4. Len(queue') <= Capacity
  <2>1. Len(queue') = Len(queue) - 1
    BY <1>1, <1>3
  <2> QED BY <1>2, <2>1, WindowAssumption
<1> QED BY <1>1, <1>3, <1>4

\* Then the pending commands.
LEMMA DropFacts ==
  ASSUME Types, OnePlace, DropPending
  PROVE  /\ Head(pending) \in Ids /\ Member(pending, Head(pending))
         /\ pending' \in Seq(Ids) /\ Distinct(pending')
         /\ \A j \in Ids : Member(pending', j) <=> j # Head(pending) /\ Member(pending, j)
<1>1. pending # <<>> /\ pending' = Tail(pending)
  BY DEF DropPending
<1>2. pending \in Seq(Ids) /\ Distinct(pending)
  BY DEF Types, OnePlace
<1>3. /\ Head(pending) \in Ids /\ Member(pending, Head(pending)) /\ Tail(pending) \in Seq(Ids)
      /\ Distinct(Tail(pending))
      /\ \A x : Member(Tail(pending), x) <=> x # Head(pending) /\ Member(pending, x)
  BY <1>1, <1>2, TailDistinct
<1> QED BY <1>1, <1>3

--------------------------------------------------------------------------------
(* Every step keeps the invariant *)

\* try_send.
LEMMA SubmitKeeps ==
  ASSUME IInv, NEW i \in Ids, Submit(i)
  PROVE  IInv'
<1>0. Types /\ OnePlace /\ Holding /\ Workers /\ Between /\ Asked
  BY DEF IInv
<1>1. /\ queue' \in Seq(Ids) /\ Len(queue') <= Capacity /\ Distinct(queue')
      /\ response[i] = "none" /\ ~InHand(i)
      /\ \A j \in Ids : Member(queue', j) <=> j = i \/ Member(queue, j)
  BY SubmitFacts
<1>2. Types'
  BY <1>0, <1>1
     DEF Submit, Life!Submit, frameVars, Types
<1>3. OnePlace'
  BY <1>0, <1>1
     DEF Submit, frameVars, OnePlace, InHand
<1>4. Holding'
  BY <1>0, <1>1
     DEF Submit, Life!Submit, frameVars, Holding, InHand, Types
<1>5. Workers'
  BY <1>0, <1>1
     DEF Submit, Life!Submit, frameVars, Workers
<1>6. Between'
  BY <1>0, <1>1
     DEF Submit, Life!Submit, frameVars, Between
<1>7. Asked'
  BY <1>0, <1>1
     DEF Submit, frameVars, Asked
<1> QED BY <1>2, <1>3, <1>4, <1>5, <1>6, <1>7 DEF IInv

\* Its wake.
LEMMA WakeKeeps ==
  ASSUME IInv, NEW i \in Ids, Wake(i)
  PROVE  IInv'
<1>0. Types /\ OnePlace /\ Holding /\ Workers /\ Between /\ Asked
  BY DEF IInv
<1>1. Types'
  BY <1>0
     DEF Wake, lifeVars, frameVars, Types
<1>2. OnePlace'
  BY <1>0
     DEF Wake, frameVars, OnePlace
<1>3. Holding'
  BY <1>0
     DEF Wake, lifeVars, frameVars, Holding, InHand
<1>4. Workers'
  BY <1>0
     DEF Wake, lifeVars, frameVars, Workers
<1>5. Between'
  BY <1>0
     DEF Wake, lifeVars, frameVars, Between
<1>6. Asked'
  BY <1>0
     DEF Wake, Asked
<1> QED BY <1>1, <1>2, <1>3, <1>4, <1>5, <1>6 DEF IInv

\* cancel() by the sender.
LEMMA CancelBySenderKeeps ==
  ASSUME IInv, NEW i \in Ids, CancelBySender(i)
  PROVE  IInv'
<1>0. Types /\ OnePlace /\ Holding /\ Workers /\ Between /\ Asked
  BY DEF IInv
<1>1. Types'
  BY <1>0
     DEF CancelBySender, Life!Cancel, boxVars, frameVars, Types
<1>2. OnePlace'
  BY <1>0
     DEF CancelBySender, boxVars, frameVars, OnePlace
<1>3. Holding'
  BY <1>0
     DEF CancelBySender, Life!Cancel, boxVars, frameVars, Holding, InHand
<1>4. Workers'
  BY <1>0
     DEF CancelBySender, Life!Cancel, boxVars, frameVars, Workers
<1>5. Between'
  BY <1>0
     DEF CancelBySender, Life!Cancel, frameVars, Between
<1>6. Asked'
  BY <1>0
     DEF CancelBySender, boxVars, frameVars, Asked
<1> QED BY <1>1, <1>2, <1>3, <1>4, <1>5, <1>6 DEF IInv

\* A deadline passes.
LEMMA ExpireKeeps ==
  ASSUME IInv, NEW i \in Ids, Expire(i)
  PROVE  IInv'
<1>0. Types /\ OnePlace /\ Holding /\ Workers /\ Between /\ Asked
  BY DEF IInv
<1>1. Types'
  BY <1>0
     DEF Expire, lifeVars, boxVars, frameVars, Types
<1>2. OnePlace'
  BY <1>0
     DEF Expire, boxVars, frameVars, OnePlace
<1>3. Holding'
  BY <1>0
     DEF Expire, lifeVars, boxVars, frameVars, Holding, InHand
<1>4. Workers'
  BY <1>0
     DEF Expire, lifeVars, boxVars, frameVars, Workers
<1>5. Between'
  BY <1>0
     DEF Expire, lifeVars, frameVars, Between
<1>6. Asked'
  BY <1>0
     DEF Expire, boxVars, frameVars, Asked
<1> QED BY <1>1, <1>2, <1>3, <1>4, <1>5, <1>6 DEF IInv

\* A worker wins the token.
LEMMA WorkerBeginsKeeps ==
  ASSUME IInv, NEW i \in Ids, WorkerBegins(i)
  PROVE  IInv'
<1>0. Types /\ OnePlace /\ Holding /\ Workers /\ Between /\ Asked
  BY DEF IInv
<1>1. Types'
  BY <1>0
     DEF WorkerBegins, WorkerStep, Started, boxVars, frameVars, Types, Working
<1>2. OnePlace'
  BY <1>0
     DEF WorkerBegins, boxVars, frameVars, OnePlace
<1>3. Holding'
  BY <1>0
     DEF WorkerBegins, boxVars, frameVars, Holding, InHand
<1>4. Workers'
  BY <1>0
     DEF WorkerBegins, WorkerStep, Started, boxVars, frameVars, Workers, Working,
         Life!Stops
<1>5. Between'
  BY <1>0
     DEF WorkerBegins, Started, frameVars, Between
<1>6. Asked'
  BY <1>0
     DEF WorkerBegins, WorkerStep, boxVars, frameVars, Asked
<1> QED BY <1>1, <1>2, <1>3, <1>4, <1>5, <1>6 DEF IInv

\* A worker finds its command stopped.
LEMMA WorkerRefusedKeeps ==
  ASSUME IInv, NEW i \in Ids, WorkerRefused(i)
  PROVE  IInv'
<1>0. Types /\ OnePlace /\ Holding /\ Workers /\ Between /\ Asked
  BY DEF IInv
<1>1. Types'
  BY <1>0
     DEF WorkerRefused, WorkerStep, Cancelled, boxVars, frameVars, Types, Results,
         Life!Answers, Life!Stops
<1>2. OnePlace'
  BY <1>0
     DEF WorkerRefused, boxVars, frameVars, OnePlace
<1>3. Holding'
  BY <1>0
     DEF WorkerRefused, boxVars, frameVars, Holding, InHand
<1>4. Workers'
  BY <1>0
     DEF WorkerRefused, WorkerStep, Cancelled, boxVars, frameVars, Workers, Working,
         Types
<1>5. Between'
  BY <1>0
     DEF WorkerRefused, Cancelled, frameVars, Between, Types
<1>6. Asked'
  BY <1>0
     DEF WorkerRefused, WorkerStep, boxVars, frameVars, Asked
<1> QED BY <1>1, <1>2, <1>3, <1>4, <1>5, <1>6 DEF IInv

\* Its work ends.
LEMMA WorkerEndsKeeps ==
  ASSUME IInv, NEW i \in Ids, WorkerEnds(i)
  PROVE  IInv'
<1>0. Types /\ OnePlace /\ Holding /\ Workers /\ Between /\ Asked
  BY DEF IInv
<1>1. Types'
  BY <1>0
     DEF WorkerEnds, WorkerStep, lifeVars, boxVars, frameVars, Types, Results,
         Life!Answers
<1>2. OnePlace'
  BY <1>0
     DEF WorkerEnds, boxVars, frameVars, OnePlace
<1>3. Holding'
  BY <1>0
     DEF WorkerEnds, lifeVars, boxVars, frameVars, Holding, InHand
<1>4. Workers'
  BY <1>0
     DEF WorkerEnds, WorkerStep, lifeVars, boxVars, frameVars, Workers, Working, Types,
         Life!Stops
<1>5. Between'
  BY <1>0
     DEF WorkerEnds, lifeVars, frameVars, Between
<1>6. Asked'
  BY <1>0
     DEF WorkerEnds, WorkerStep, boxVars, frameVars, Asked
<1> QED BY <1>1, <1>2, <1>3, <1>4, <1>5, <1>6 DEF IInv

\* Its preparation ends.
LEMMA WorkerPreparedKeeps ==
  ASSUME IInv, NEW i \in Ids, WorkerPrepared(i)
  PROVE  IInv'
<1>0. Types /\ OnePlace /\ Holding /\ Workers /\ Between /\ Asked
  BY DEF IInv
<1>1. Types'
  BY <1>0
     DEF WorkerPrepared, WorkerStep, lifeVars, boxVars, frameVars, Types, Results,
         Life!Answers
<1>2. OnePlace'
  BY <1>0
     DEF WorkerPrepared, boxVars, frameVars, OnePlace
<1>3. Holding'
  BY <1>0
     DEF WorkerPrepared, lifeVars, boxVars, frameVars, Holding, InHand
<1>4. Workers'
  BY <1>0
     DEF WorkerPrepared, WorkerStep, lifeVars, boxVars, frameVars, Workers, Working,
         Types, Life!Stops
<1>5. Between'
  BY <1>0
     DEF WorkerPrepared, lifeVars, frameVars, Between
<1>6. Asked'
  BY <1>0
     DEF WorkerPrepared, WorkerStep, boxVars, frameVars, Asked
<1> QED BY <1>1, <1>2, <1>3, <1>4, <1>5, <1>6 DEF IInv

\* It asks for a frame.
LEMMA WorkerRepaintsKeeps ==
  ASSUME IInv, NEW i \in Ids, WorkerRepaints(i)
  PROVE  IInv'
<1>0. Types /\ OnePlace /\ Holding /\ Workers /\ Between /\ Asked
  BY DEF IInv
<1>1. Types'
  BY <1>0
     DEF WorkerRepaints, WorkerStep, lifeVars, boxVars, frameVars, Types
<1>2. OnePlace'
  BY <1>0
     DEF WorkerRepaints, boxVars, frameVars, OnePlace
<1>3. Holding'
  BY <1>0
     DEF WorkerRepaints, lifeVars, boxVars, frameVars, Holding, InHand
<1>4. Workers'
  BY <1>0
     DEF WorkerRepaints, WorkerStep, lifeVars, boxVars, frameVars, Workers, Working
<1>5. Between'
  BY <1>0
     DEF WorkerRepaints, lifeVars, frameVars, Between
<1>6. Asked'
  BY <1>0
     DEF WorkerRepaints, Asked
<1> QED BY <1>1, <1>2, <1>3, <1>4, <1>5, <1>6 DEF IInv

\* A pending command is stopped.
LEMMA PollStoppedKeeps ==
  ASSUME IInv, NEW i \in Ids, PollStopped(i)
  PROVE  IInv'
<1>0. Types /\ OnePlace /\ Holding /\ Workers /\ Between /\ Asked
  BY DEF IInv
<1>1. /\ todo' \in Seq(Ids) /\ Distinct(todo') /\ Member(todo, i)
      /\ \A j \in Ids : Member(todo', j) <=> j # i /\ Member(todo, j)
      /\ phase = "frame" /\ current = {}
  <2>1. Polling(i)
    BY DEF PollStopped
  <2> QED BY <1>0, <2>1, PollingFacts
<1>2. Types'
  BY <1>0, <1>1
     DEF PollStopped, Stop, Cancelled, Respond, boxVars, Types, Life!Answers, Life!Stops
<1>3. OnePlace'
  BY <1>0, <1>1
     DEF PollStopped, boxVars, OnePlace
<1>4. Holding'
  BY <1>0, <1>1
     DEF PollStopped, Stop, Respond, boxVars, Holding, InHand, OnePlace, Types
<1>5. Workers'
  BY <1>0, <1>1
     DEF PollStopped, Stop, Cancelled, Respond, boxVars, Workers, Types
<1>6. Between'
  BY <1>0, <1>1
     DEF PollStopped, Between
<1>7. Asked'
  BY <1>0, <1>1
     DEF PollStopped, Asked
<1> QED BY <1>2, <1>3, <1>4, <1>5, <1>6, <1>7 DEF IInv

\* A pending command is kept.
LEMMA PollWorkingKeeps ==
  ASSUME IInv, NEW i \in Ids, PollWorking(i)
  PROVE  IInv'
<1>0. Types /\ OnePlace /\ Holding /\ Workers /\ Between /\ Asked
  BY DEF IInv
<1>1. /\ todo' \in Seq(Ids) /\ Distinct(todo') /\ Member(todo, i)
      /\ \A j \in Ids : Member(todo', j) <=> j # i /\ Member(todo, j)
      /\ phase = "frame" /\ current = {}
  <2>1. Polling(i)
    BY DEF PollWorking
  <2> QED BY <1>0, <2>1, PollingFacts
<1>2. /\ pending' \in Seq(Ids) /\ Distinct(pending')
      /\ \A j \in Ids : Member(pending', j) <=> j = i \/ Member(pending, j)
  <2>1. ~Member(pending, i) /\ pending' = Append(pending, i)
    BY <1>0, <1>1 DEF PollWorking, OnePlace
  <2> QED BY <1>0, <2>1, PendingFacts
<1>3. Types'
  BY <1>0, <1>1, <1>2
     DEF PollWorking, lifeVars, boxVars, Types
<1>4. OnePlace'
  BY <1>0, <1>1, <1>2
     DEF PollWorking, boxVars, OnePlace
<1>5. Holding'
  BY <1>0, <1>1, <1>2
     DEF PollWorking, lifeVars, boxVars, Holding, InHand
<1>6. Workers'
  BY <1>0, <1>1, <1>2
     DEF PollWorking, lifeVars, boxVars, Workers
<1>7. Between'
  BY <1>0, <1>1, <1>2
     DEF PollWorking, Between
<1>8. Asked'
  BY <1>0, <1>1, <1>2
     DEF PollWorking, Asked, Workers, Working
<1> QED BY <1>3, <1>4, <1>5, <1>6, <1>7, <1>8 DEF IInv

\* A pending command is answered.
LEMMA PollEndedKeeps ==
  ASSUME IInv, NEW i \in Ids, PollEnded(i)
  PROVE  IInv'
<1>0. Types /\ OnePlace /\ Holding /\ Workers /\ Between /\ Asked
  BY DEF IInv
<1>1. /\ todo' \in Seq(Ids) /\ Distinct(todo') /\ Member(todo, i)
      /\ \A j \in Ids : Member(todo', j) <=> j # i /\ Member(todo, j)
      /\ phase = "frame" /\ current = {}
  <2>1. Polling(i)
    BY DEF PollEnded
  <2> QED BY <1>0, <2>1, PollingFacts
<1>2. Types'
  BY <1>0, <1>1
     DEF PollEnded, Respond, boxVars, Types, Results
<1>3. OnePlace'
  BY <1>0, <1>1
     DEF PollEnded, boxVars, OnePlace
<1>4. Holding'
  BY <1>0, <1>1
     DEF PollEnded, Respond, boxVars, Holding, InHand, OnePlace, Types
<1>5. Workers'
  BY <1>0, <1>1
     DEF PollEnded, Respond, boxVars, Workers, Working
<1>6. Between'
  BY <1>0, <1>1
     DEF PollEnded, Between
<1>7. Asked'
  BY <1>0, <1>1
     DEF PollEnded, Asked
<1> QED BY <1>2, <1>3, <1>4, <1>5, <1>6, <1>7 DEF IInv

\* A prepared command is run.
LEMMA PollPreparedKeeps ==
  ASSUME IInv, NEW i \in Ids, PollPrepared(i)
  PROVE  IInv'
<1>0. Types /\ OnePlace /\ Holding /\ Workers /\ Between /\ Asked
  BY DEF IInv
<1>1. /\ todo' \in Seq(Ids) /\ Distinct(todo') /\ Member(todo, i)
      /\ \A j \in Ids : Member(todo', j) <=> j # i /\ Member(todo, j)
      /\ phase = "frame" /\ current = {}
  <2>1. Polling(i)
    BY DEF PollPrepared
  <2> QED BY <1>0, <2>1, PollingFacts
<1>2. Types'
  BY <1>0, <1>1
     DEF PollPrepared, Started, boxVars, Types
<1>3. OnePlace'
  BY <1>0, <1>1
     DEF PollPrepared, boxVars, OnePlace
<1>4. Holding'
  BY <1>0, <1>1
     DEF PollPrepared, boxVars, Holding, InHand
<1>5. Workers'
  BY <1>0, <1>1
     DEF PollPrepared, Started, boxVars, Workers, Working, Life!Stops
<1>6. Between'
  BY <1>0, <1>1
     DEF PollPrepared, Between
<1>7. Asked'
  BY <1>0, <1>1
     DEF PollPrepared, Asked
<1> QED BY <1>2, <1>3, <1>4, <1>5, <1>6, <1>7 DEF IInv

\* A request is stopped.
LEMMA TakeStoppedKeeps ==
  ASSUME IInv, NEW i \in Ids, TakeStopped(i)
  PROVE  IInv'
<1>0. Types /\ OnePlace /\ Holding /\ Workers /\ Between /\ Asked
  BY DEF IInv
<1>1. /\ queue' \in Seq(Ids) /\ Len(queue') <= Capacity /\ drained' \in 0 .. Batch
      /\ Distinct(queue') /\ Member(queue, i)
      /\ \A j \in Ids : Member(queue', j) <=> j # i /\ Member(queue, j)
      /\ phase = "frame" /\ current = {} /\ \A j \in Ids : ~Member(todo, j)
  <2>1. Taking(i)
    BY DEF TakeStopped
  <2> QED BY <1>0, <2>1, TakingFacts
<1>2. Types'
  BY <1>0, <1>1
     DEF TakeStopped, Stop, Cancelled, Respond, Types, Life!Answers, Life!Stops
<1>3. OnePlace'
  BY <1>0, <1>1
     DEF TakeStopped, OnePlace
<1>4. Holding'
  BY <1>0, <1>1
     DEF TakeStopped, Stop, Respond, Holding, InHand, OnePlace, Types
<1>5. Workers'
  BY <1>0, <1>1
     DEF TakeStopped, Stop, Cancelled, Respond, Workers
<1>6. Between'
  BY <1>0, <1>1
     DEF TakeStopped, Between
<1>7. Asked'
  BY <1>0, <1>1
     DEF TakeStopped, Asked
<1> QED BY <1>2, <1>3, <1>4, <1>5, <1>6, <1>7 DEF IInv

\* A request is rejected.
LEMMA TakeRejectedKeeps ==
  ASSUME IInv, NEW i \in Ids, TakeRejected(i)
  PROVE  IInv'
<1>0. Types /\ OnePlace /\ Holding /\ Workers /\ Between /\ Asked
  BY DEF IInv
<1>1. /\ queue' \in Seq(Ids) /\ Len(queue') <= Capacity /\ drained' \in 0 .. Batch
      /\ Distinct(queue') /\ Member(queue, i)
      /\ \A j \in Ids : Member(queue', j) <=> j # i /\ Member(queue, j)
      /\ phase = "frame" /\ current = {} /\ \A j \in Ids : ~Member(todo, j)
  <2>1. Taking(i)
    BY DEF TakeRejected
  <2> QED BY <1>0, <2>1, TakingFacts
<1>2. Types'
  BY <1>0, <1>1
     DEF TakeRejected, Respond, Types, Life!Answers
<1>3. OnePlace'
  BY <1>0, <1>1
     DEF TakeRejected, OnePlace
<1>4. Holding'
  BY <1>0, <1>1
     DEF TakeRejected, Respond, Holding, InHand, OnePlace, Types
<1>5. Workers'
  BY <1>0, <1>1
     DEF TakeRejected, Respond, Workers
<1>6. Between'
  BY <1>0, <1>1
     DEF TakeRejected, Between
<1>7. Asked'
  BY <1>0, <1>1
     DEF TakeRejected, Asked
<1> QED BY <1>2, <1>3, <1>4, <1>5, <1>6, <1>7 DEF IInv

\* A request is run.
LEMMA TakeAndRunKeeps ==
  ASSUME IInv, NEW i \in Ids, TakeAndRun(i)
  PROVE  IInv'
<1>0. Types /\ OnePlace /\ Holding /\ Workers /\ Between /\ Asked
  BY DEF IInv
<1>1. /\ queue' \in Seq(Ids) /\ Len(queue') <= Capacity /\ drained' \in 0 .. Batch
      /\ Distinct(queue') /\ Member(queue, i)
      /\ \A j \in Ids : Member(queue', j) <=> j # i /\ Member(queue, j)
      /\ phase = "frame" /\ current = {} /\ \A j \in Ids : ~Member(todo, j)
  <2>1. Taking(i)
    BY DEF TakeAndRun
  <2> QED BY <1>0, <2>1, TakingFacts
<1>2. Types'
  BY <1>0, <1>1
     DEF TakeAndRun, Started, Types
<1>3. OnePlace'
  BY <1>0, <1>1
     DEF TakeAndRun, OnePlace
<1>4. Holding'
  BY <1>0, <1>1
     DEF TakeAndRun, Holding, InHand
<1>5. Workers'
  BY <1>0, <1>1
     DEF TakeAndRun, Started, Workers, Life!Stops, Holding, InHand
<1>6. Between'
  BY <1>0, <1>1
     DEF TakeAndRun, Between
<1>7. Asked'
  BY <1>0, <1>1
     DEF TakeAndRun, Asked
<1> QED BY <1>2, <1>3, <1>4, <1>5, <1>6, <1>7 DEF IInv

\* A request is given to a worker.
LEMMA TakeToWorkerKeeps ==
  ASSUME IInv, NEW i \in Ids, TakeToWorker(i)
  PROVE  IInv'
<1>0. Types /\ OnePlace /\ Holding /\ Workers /\ Between /\ Asked
  BY DEF IInv
<1>1. /\ queue' \in Seq(Ids) /\ Len(queue') <= Capacity /\ drained' \in 0 .. Batch
      /\ Distinct(queue') /\ Member(queue, i)
      /\ \A j \in Ids : Member(queue', j) <=> j # i /\ Member(queue, j)
      /\ phase = "frame" /\ current = {} /\ \A j \in Ids : ~Member(todo, j)
  <2>1. Taking(i)
    BY DEF TakeToWorker
  <2> QED BY <1>0, <2>1, TakingFacts
<1>2. /\ pending' \in Seq(Ids) /\ Distinct(pending')
      /\ \A j \in Ids : Member(pending', j) <=> j = i \/ Member(pending, j)
  <2>1. ~Member(pending, i) /\ pending' = Append(pending, i)
    BY <1>0, <1>1 DEF TakeToWorker, OnePlace
  <2> QED BY <1>0, <2>1, PendingFacts
<1>3. Types'
  BY <1>0, <1>1, <1>2
     DEF TakeToWorker, lifeVars, Types, Working, Results
<1>4. OnePlace'
  BY <1>0, <1>1, <1>2
     DEF TakeToWorker, OnePlace
<1>5. Holding'
  BY <1>0, <1>1, <1>2
     DEF TakeToWorker, lifeVars, Holding, InHand
<1>6. Workers'
  BY <1>0, <1>1, <1>2
     DEF TakeToWorker, lifeVars, Workers, Working, Types, Holding, InHand
<1>7. Between'
  BY <1>0, <1>1, <1>2
     DEF TakeToWorker, Between
<1>8. Asked'
  BY <1>0, <1>1, <1>2
     DEF TakeToWorker, Asked, Workers
<1> QED BY <1>3, <1>4, <1>5, <1>6, <1>7, <1>8 DEF IInv

\* A command that ran is answered.
LEMMA CompleteKeeps ==
  ASSUME IInv, NEW i \in Ids, Complete(i)
  PROVE  IInv'
<1>0. Types /\ OnePlace /\ Holding /\ Workers /\ Between /\ Asked
  BY DEF IInv
<1>1. Types'
  BY <1>0
     DEF Complete, Respond, boxVars, Types, Life!Answers
<1>2. OnePlace'
  BY <1>0
     DEF Complete, boxVars, OnePlace
<1>3. Holding'
  BY <1>0
     DEF Complete, Respond, boxVars, Holding, InHand, OnePlace, Types
<1>4. Workers'
  BY <1>0
     DEF Complete, Respond, boxVars, Workers
<1>5. Between'
  BY <1>0
     DEF Complete, Between
<1>6. Asked'
  BY <1>0
     DEF Complete, boxVars, Asked
<1> QED BY <1>1, <1>2, <1>3, <1>4, <1>5, <1>6 DEF IInv

\* A frame begins.
LEMMA FrameKeeps ==
  ASSUME IInv, Frame
  PROVE  IInv'
<1>0. Types /\ OnePlace /\ Holding /\ Workers /\ Between /\ Asked
  BY DEF IInv
<1>1. <<>> \in Seq(Ids) /\ Distinct(<<>>) /\ \A j \in Ids : ~Member(<<>>, j)
  BY EmptySeq, EmptyDistinct
<1>2. Types'
  BY <1>0, <1>1
     DEF Frame, lifeVars, boxVars, Types
<1>3. OnePlace'
  BY <1>0, <1>1
     DEF Frame, boxVars, OnePlace
<1>4. Holding'
  BY <1>0, <1>1
     DEF Frame, lifeVars, boxVars, Holding, InHand, Between
<1>5. Workers'
  BY <1>0, <1>1
     DEF Frame, lifeVars, boxVars, Workers, Between
<1>6. Between'
  BY <1>0, <1>1
     DEF Frame, Between
<1>7. Asked'
  BY <1>0, <1>1
     DEF Frame, Asked
<1> QED BY <1>2, <1>3, <1>4, <1>5, <1>6, <1>7 DEF IInv

\* A frame ends.
LEMMA EndFrameKeeps ==
  ASSUME IInv, EndFrame
  PROVE  IInv'
<1>0. Types /\ OnePlace /\ Holding /\ Workers /\ Between /\ Asked
  BY DEF IInv
<1>1. <<>> \in Seq(Ids) /\ Distinct(<<>>) /\ \A j \in Ids : ~Member(<<>>, j)
  BY EmptySeq, EmptyDistinct
<1>2. Types'
  BY <1>0, <1>1, WindowAssumption
     DEF EndFrame, lifeVars, boxVars, Types
<1>3. OnePlace'
  BY <1>0, <1>1
     DEF EndFrame, boxVars, OnePlace
<1>4. Holding'
  BY <1>0, <1>1
     DEF EndFrame, lifeVars, boxVars, Holding, InHand
<1>5. Workers'
  BY <1>0, <1>1
     DEF EndFrame, lifeVars, boxVars, Workers
<1>6. Between'
  BY <1>0, <1>1
     DEF EndFrame, Between
<1>7. Asked'
  BY <1>0, <1>1
     DEF EndFrame, boxVars, Asked
<1> QED BY <1>2, <1>3, <1>4, <1>5, <1>6, <1>7 DEF IInv

\* The runtime is dropped.
LEMMA DropRuntimeKeeps ==
  ASSUME IInv, DropRuntime
  PROVE  IInv'
<1>0. Types /\ OnePlace /\ Holding /\ Workers /\ Between /\ Asked
  BY DEF IInv
<1>1. \A j \in Ids : j \in ToSet(pending) <=> Member(pending, j)
  BY DEF ToSet, Member
<1>2. Types'
  BY <1>0, <1>1
     DEF DropRuntime, boxVars, Types
<1>3. OnePlace'
  BY <1>0, <1>1
     DEF DropRuntime, boxVars, OnePlace
<1>4. Holding'
  BY <1>0, <1>1
     DEF DropRuntime, boxVars, Holding, InHand
<1>5. Workers'
  BY <1>0, <1>1
     DEF DropRuntime, boxVars, Workers
<1>6. Between'
  BY <1>0, <1>1
     DEF DropRuntime, Between
<1>7. Asked'
  BY <1>0, <1>1
     DEF DropRuntime, Asked
<1> QED BY <1>2, <1>3, <1>4, <1>5, <1>6, <1>7 DEF IInv

\* The mailbox closes.
LEMMA CloseMailboxKeeps ==
  ASSUME IInv, CloseMailbox
  PROVE  IInv'
<1>0. Types /\ OnePlace /\ Holding /\ Workers /\ Between /\ Asked
  BY DEF IInv
<1>1. Types'
  BY <1>0
     DEF CloseMailbox, lifeVars, Types
<1>2. OnePlace'
  BY <1>0
     DEF CloseMailbox, OnePlace
<1>3. Holding'
  BY <1>0
     DEF CloseMailbox, lifeVars, Holding, InHand
<1>4. Workers'
  BY <1>0
     DEF CloseMailbox, lifeVars, Workers
<1>5. Between'
  BY <1>0
     DEF CloseMailbox, lifeVars, Between
<1>6. Asked'
  BY <1>0
     DEF CloseMailbox, Asked
<1> QED BY <1>1, <1>2, <1>3, <1>4, <1>5, <1>6 DEF IInv

\* The mailbox is drained.
LEMMA DrainMailboxKeeps ==
  ASSUME IInv, DrainMailbox
  PROVE  IInv'
<1>0. Types /\ OnePlace /\ Holding /\ Workers /\ Between /\ Asked
  BY DEF IInv
<1>1. /\ Head(queue) \in Ids /\ Member(queue, Head(queue))
      /\ queue' \in Seq(Ids) /\ Len(queue') <= Capacity /\ Distinct(queue')
      /\ \A j \in Ids : Member(queue', j) <=> j # Head(queue) /\ Member(queue, j)
  BY <1>0, DrainFacts
<1>2. Types'
  BY <1>0, <1>1
     DEF DrainMailbox, Respond, frameVars, Types, Life!Answers, Life!Stops
<1>3. OnePlace'
  BY <1>0, <1>1
     DEF DrainMailbox, frameVars, OnePlace
<1>4. Holding'
  BY <1>0, <1>1
     DEF DrainMailbox, Respond, frameVars, Holding, InHand, OnePlace, Types
<1>5. Workers'
  BY <1>0, <1>1
     DEF DrainMailbox, Respond, frameVars, Workers
<1>6. Between'
  BY <1>0, <1>1
     DEF DrainMailbox, frameVars, Between
<1>7. Asked'
  BY <1>0, <1>1
     DEF DrainMailbox, frameVars, Asked
<1> QED BY <1>2, <1>3, <1>4, <1>5, <1>6, <1>7 DEF IInv

\* The pending commands are dropped.
LEMMA DropPendingKeeps ==
  ASSUME IInv, DropPending
  PROVE  IInv'
<1>0. Types /\ OnePlace /\ Holding /\ Workers /\ Between /\ Asked
  BY DEF IInv
<1>1. /\ Head(pending) \in Ids /\ Member(pending, Head(pending))
      /\ pending' \in Seq(Ids) /\ Distinct(pending')
      /\ \A j \in Ids : Member(pending', j) <=> j # Head(pending) /\ Member(pending, j)
  BY <1>0, DropFacts
<1>2. Types'
  BY <1>0, <1>1
     DEF DropPending, Respond, boxVars, Types, Life!Answers
<1>3. OnePlace'
  BY <1>0, <1>1
     DEF DropPending, boxVars, OnePlace
<1>4. Holding'
  BY <1>0, <1>1
     DEF DropPending, Respond, boxVars, Holding, InHand, OnePlace, Types
<1>5. Workers'
  BY <1>0, <1>1
     DEF DropPending, Respond, boxVars, Workers, Between
<1>6. Between'
  BY <1>0, <1>1
     DEF DropPending, Between
<1>7. Asked'
  BY <1>0, <1>1
     DEF DropPending, Asked
<1> QED BY <1>2, <1>3, <1>4, <1>5, <1>6, <1>7 DEF IInv

\* A stuttering step.
LEMMA StutterKeeps == ASSUME IInv, UNCHANGED vars PROVE IInv'
BY DEF IInv, Types, OnePlace, Holding, Workers, Between, Asked, InHand, vars, lifeVars,
       boxVars, frameVars

\* The invariant holds at the start.
LEMMA InitKeeps == ASSUME Init PROVE IInv
<1>1. <<>> \in Seq(Ids) /\ Len(<<>>) = 0 /\ Distinct(<<>>) /\ \A j : ~Member(<<>>, j)
  BY EmptySeq, EmptyDistinct
<1>2. Types
  <2>1. Len(<<>>) <= Capacity /\ 0 \in 0 .. Batch
    BY <1>1, WindowAssumption
  <2>2. token \in [Ids -> {"pending", "started", "cancelled"}]
    BY DEF Init, Life!Init
  <2>3. response \in [Ids -> Life!Answers \cup {"none", "empty"}]
    BY DEF Init, Life!Init
  <2>4. /\ worker \in [Ids -> {"none", "sent", "gone"} \cup Working]
        /\ result \in [Ids -> Results]
    BY DEF Init, Results
  <2> QED BY <1>1, <2>1, <2>2, <2>3, <2>4 DEF Init, Types
<1>3. OnePlace /\ Holding
  BY <1>1 DEF Init, Life!Init, OnePlace, Holding, InHand
<1>4. Workers
  BY <1>1 DEF Init, Life!Init, Workers, Working, Life!Stops
<1>5. Between /\ Asked
  BY <1>1 DEF Init, Between, Asked
<1> QED BY <1>2, <1>3, <1>4, <1>5 DEF IInv

LEMMA Inductive == Spec => []IInv
<1>1. Init => IInv
  BY InitKeeps
<1>2. ASSUME IInv, [Next]_vars PROVE IInv'
  <2>1. CASE UNCHANGED vars
    BY <1>2, <2>1, StutterKeeps
  <2>2. ASSUME NEW i \in Ids,
               \/ Submit(i) \/ Wake(i) \/ CancelBySender(i) \/ Expire(i) \/ Threads(i)
               \/ WorkerEnds(i) \/ WorkerPrepared(i)
        PROVE  IInv'
    BY <1>2, <2>2, SubmitKeeps, WakeKeeps, CancelBySenderKeeps, ExpireKeeps,
       WorkerBeginsKeeps, WorkerRefusedKeeps, WorkerRepaintsKeeps, WorkerEndsKeeps,
       WorkerPreparedKeeps
       DEF Threads
  <2>3. CASE Window
    BY <1>2, <2>3, PollStoppedKeeps, PollWorkingKeeps, PollEndedKeeps, PollPreparedKeeps,
       TakeStoppedKeeps, TakeRejectedKeeps, TakeAndRunKeeps, TakeToWorkerKeeps,
       CompleteKeeps, EndFrameKeeps, CloseMailboxKeeps, DrainMailboxKeeps, DropPendingKeeps
       DEF Window
  <2>4. CASE Frame \/ DropRuntime
    BY <1>2, <2>4, FrameKeeps, DropRuntimeKeeps
  <2> QED BY <1>2, <2>1, <2>2, <2>3, <2>4 DEF Next
<1> QED BY <1>1, <1>2, PTL DEF Spec

--------------------------------------------------------------------------------
(* The theorems *)

\* In every reachable state a command that is unanswered is queued, pending,
\* about to be polled or running; the mailbox and the batch keep their limits;
\* and while the window is idle, a queued command or an uncollected result has
\* a frame asked for, or a sender about to ask.
THEOREM NothingIsStranded == Spec => []NothingStranded
<1>1. ASSUME IInv PROVE NothingStranded
  <2>1. Types /\ Holding /\ Asked
    BY <1>1 DEF IInv
  <2>2. TypeOK
    BY <2>1 DEF Types, TypeOK, Working, Results
  <2>3. NothingLost
    <3>1. SUFFICES ASSUME NEW i \in Ids, response[i] = "empty"
                   PROVE  i \in ToSet(queue \o todo \o pending) \cup current
      BY DEF NothingLost
    <3>2. queue \in Seq(Ids) /\ todo \in Seq(Ids) /\ pending \in Seq(Ids)
      BY <2>1 DEF Types
    <3>3. queue \o todo \in Seq(Ids)
      BY <3>2, ConcatProperties
    <3>4. InHand(i)
      BY <2>1, <3>1 DEF Holding
    <3>5. CASE i \in current
      BY <3>5
    <3>6. CASE Member(queue, i) \/ Member(todo, i)
      <4>1. Member(queue \o todo, i)
        BY <3>2, <3>6, MemberConcat
      <4>2. Member(queue \o todo \o pending, i)
        BY <3>2, <3>3, <4>1, MemberConcat
      <4> QED BY <4>2 DEF Member, ToSet
    <3>7. CASE Member(pending, i)
      <4>1. Member(queue \o todo \o pending, i)
        BY <3>2, <3>3, <3>7, MemberConcat
      <4> QED BY <4>1 DEF Member, ToSet
    <3> QED BY <3>4, <3>5, <3>6, <3>7 DEF InHand
  <2>4. NothingSleeps
    <3>1. \A i \in ToSet(queue) : i \in Ids /\ Member(queue, i)
      BY <2>1, ElementOfSeq, LenProperties DEF Types, ToSet, Member
    <3>2. \A i \in ToSet(pending) : i \in Ids /\ Member(pending, i)
      BY <2>1, ElementOfSeq, LenProperties DEF Types, ToSet, Member
    <3> QED BY <2>1, <3>1, <3>2 DEF Asked, NothingSleeps
  <2> QED BY <2>2, <2>3, <2>4 DEF NothingStranded
<1> QED BY <1>1, Inductive, PTL

\* A step of a sender or of a worker is a step of the contract.
LEMMA OutsideKeepsContract ==
  ASSUME IInv, NEW i \in Ids,
         \/ Submit(i) \/ Wake(i) \/ CancelBySender(i) \/ Expire(i) \/ Threads(i)
         \/ WorkerEnds(i) \/ WorkerPrepared(i)
  PROVE  [Life!Next]_<<token, response>>
<1>0. Types /\ Holding /\ Workers
  BY DEF IInv
<1>1. CASE Submit(i)
  BY <1>1 DEF Submit, Life!Next
<1>2. CASE CancelBySender(i)
  BY <1>2 DEF CancelBySender, Life!Next
<1>3. CASE WorkerBegins(i)
  <2>1. response[i] = "empty"
    BY <1>0, <1>3 DEF WorkerBegins, WorkerStep, Started, Workers, Holding, InHand
  <2>2. Life!Start(i)
    BY <1>3, <2>1 DEF WorkerBegins, Started, Life!Start
  <2> QED BY <2>2 DEF Life!Next
<1>4. CASE WorkerRefused(i)
  <2>1. Life!Cancel(i) \/ UNCHANGED <<token, response>>
    BY <1>0, <1>4 DEF WorkerRefused, Cancelled, Life!Cancel, Types
  <2> QED BY <2>1 DEF Life!Next
<1>5. CASE Wake(i) \/ Expire(i) \/ WorkerEnds(i) \/ WorkerPrepared(i) \/ WorkerRepaints(i)
  BY <1>5 DEF Wake, Expire, WorkerEnds, WorkerPrepared, WorkerRepaints, lifeVars
<1> QED BY <1>1, <1>2, <1>3, <1>4, <1>5 DEF Threads

\* A step of a frame for one command is a step of the contract.
LEMMA FrameKeepsContract ==
  ASSUME IInv, NEW i \in Ids,
         \/ PollStopped(i) \/ PollWorking(i) \/ PollEnded(i) \/ PollPrepared(i)
         \/ TakeStopped(i) \/ TakeRejected(i) \/ TakeAndRun(i) \/ TakeToWorker(i)
         \/ Complete(i)
  PROVE  [Life!Next]_<<token, response>>
<1>0. Types /\ OnePlace /\ Holding /\ Workers
  BY DEF IInv
<1>1. ASSUME PollStopped(i) \/ PollEnded(i) \/ PollPrepared(i) PROVE response[i] = "empty"
  <2>1. Polling(i)
    BY <1>1 DEF PollStopped, PollEnded, PollPrepared
  <2>2. Member(todo, i)
    BY <1>0, <2>1, PollingFacts
  <2> QED BY <1>0, <2>2 DEF Holding, InHand
<1>2. ASSUME TakeStopped(i) \/ TakeRejected(i) \/ TakeAndRun(i) PROVE response[i] = "empty"
  <2>1. Taking(i)
    BY <1>2 DEF TakeStopped, TakeRejected, TakeAndRun
  <2>2. Member(queue, i)
    BY <1>0, <2>1, TakingFacts
  <2> QED BY <1>0, <2>2 DEF Holding, InHand
<1>3. CASE PollStopped(i) \/ TakeStopped(i)
  <2>1. Stopped(i) /\ Stop(i) /\ response[i] = "empty"
    BY <1>1, <1>2, <1>3 DEF PollStopped, TakeStopped
  <2>2. Life!Answer(i)
    BY <1>0, <2>1 DEF Stopped, Stop, Cancelled, Respond, Types, Life!Answer,
       Life!Answers, Life!Stops
  <2> QED BY <2>2 DEF Life!Next
<1>4. CASE PollEnded(i)
  <2>1. /\ result[i] \in Life!Answers /\ Respond(i, result[i]) /\ UNCHANGED token
        /\ result[i] \in Life!Stops => token[i] # "started"
    <3>1. Member(todo, i)
      BY <1>0, <1>4, PollingFacts DEF PollEnded
    <3>2. worker[i] # "none" /\ result[i] # "none"
      BY <1>0, <3>1 DEF Workers
    <3> QED BY <1>0, <1>4, <3>2 DEF PollEnded, Types, Results, Workers
  <2>2. Life!Answer(i)
    BY <1>1, <1>4, <2>1 DEF Respond, Life!Answer
  <2> QED BY <2>2 DEF Life!Next
<1>5. CASE PollPrepared(i) \/ TakeAndRun(i)
  <2>1. Life!Start(i)
    BY <1>1, <1>2, <1>5 DEF PollPrepared, TakeAndRun, Started, Life!Start
  <2> QED BY <2>1 DEF Life!Next
<1>6. CASE TakeRejected(i) \/ Complete(i)
  <2>1. response[i] = "empty"
    BY <1>0, <1>2, <1>6 DEF Complete, Holding, InHand
  <2>2. Life!Answer(i)
    BY <1>6, <2>1 DEF TakeRejected, Complete, Respond, Life!Answer, Life!Answers, Life!Stops
  <2> QED BY <2>2 DEF Life!Next
<1>7. CASE PollWorking(i) \/ TakeToWorker(i)
  BY <1>7 DEF PollWorking, TakeToWorker, lifeVars
<1> QED BY <1>3, <1>4, <1>5, <1>6, <1>7

\* A step of the closing window is a step of the contract.
LEMMA CloseKeepsContract ==
  ASSUME IInv,
         Frame \/ EndFrame \/ DropRuntime \/ CloseMailbox \/ DrainMailbox \/ DropPending
  PROVE  [Life!Next]_<<token, response>>
<1>0. Types /\ OnePlace /\ Holding /\ Workers /\ Between
  BY DEF IInv
<1>1. CASE Frame \/ EndFrame \/ CloseMailbox
  BY <1>1 DEF Frame, EndFrame, CloseMailbox, lifeVars
<1>2. CASE DropRuntime
  <2>1. Life!CancelSome
    BY <1>0, <1>2 DEF DropRuntime, Types, Life!CancelSome
  <2> QED BY <2>1 DEF Life!Next
<1>3. CASE DrainMailbox
  <2>1. /\ Head(queue) \in Ids /\ response[Head(queue)] = "empty"
        /\ token[Head(queue)] # "started"
    BY <1>0, <1>3, DrainFacts DEF Holding, InHand, Workers
  <2>2. Life!Answer(Head(queue))
    BY <1>3, <2>1 DEF DrainMailbox, Respond, Life!Answer, Life!Answers, Life!Stops
  <2> QED BY <2>1, <2>2 DEF Life!Next
<1>4. CASE DropPending
  <2>1. Head(pending) \in Ids /\ response[Head(pending)] = "empty"
    BY <1>0, <1>4, DropFacts DEF Holding, InHand
  <2>2. Life!Answer(Head(pending))
    BY <1>4, <2>1 DEF DropPending, Respond, Life!Answer, Life!Answers, Life!Stops
  <2> QED BY <2>1, <2>2 DEF Life!Next
<1> QED BY <1>1, <1>2, <1>3, <1>4

\* The window implements CommandLife: whatever the interleaving of senders,
\* workers, deadlines, frames and closing, a command starts at most once,
\* unanswered and not cancelled, is answered at most once, and never starts
\* after it was answered as stopped.
THEOREM WindowKeepsContract == Spec => KeepsContract
<1>1. Init => Life!Init
  BY DEF Init
<1>2. ASSUME IInv, [Next]_vars PROVE [Life!Next]_<<token, response>>
  <2>1. CASE UNCHANGED vars
    BY <2>1 DEF vars, lifeVars
  <2>2. CASE Next
    <3>1. CASE Window
      BY <1>2, <3>1, FrameKeepsContract, CloseKeepsContract DEF Window
    <3> QED BY <1>2, <2>2, <3>1, OutsideKeepsContract, CloseKeepsContract DEF Next
  <2> QED BY <1>2, <2>1, <2>2
<1> QED BY <1>1, <1>2, Inductive, PTL DEF Spec, KeepsContract, Life!Spec
=================================================================================
