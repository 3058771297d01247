--------------------------- MODULE DeliveryProofs ---------------------------
(***************************************************************************)
(* Proofs about CompletionDelivery, for any number of tasks, sessions,     *)
(* nested parent runs and answers.  The queue is filtered by a function    *)
(* defined by recursion on its length; what it returns is proved by taking *)
(* the least length for which it would be wrong.  The invariant says where *)
(* a settled task is: with the call that waits for it, in the queue, or    *)
(* answered, and never in two of these places.                             *)
(***************************************************************************)
EXTENDS CompletionDelivery, WellFoundedInduction, TLAPS

-----------------------------------------------------------------------------
(* Filtering a sequence.                                                   *)

\* A set of numbers that is not empty has a least one.
LEMMA LeastNumber ==
  ASSUME NEW T \in SUBSET Nat, T # {}
  PROVE  \E m \in T : \A k \in T : m <= k
<1> DEFINE R == {ss \in Nat \X Nat : ss[1] < ss[2]}
<1>1. IsWellFoundedOn(R, Nat)
  BY NatLessThanWellFounded DEF OpToRel
<1> HIDE DEF R
<1>2. PICK m \in T : \A k \in T : <<k, m>> \notin R
  BY <1>1, WFMin, Zenon
<1>3. ASSUME NEW k \in T PROVE m <= k
  <2>1. k \in Nat /\ m \in Nat
    OBVIOUS
  <2>2. k < m => <<k, m>> \in R
    BY <2>1 DEF R
  <2> QED BY <1>2, <2>1, <2>2
<1> QED BY <1>3

\* The entries of S among the first n of q, one by one, as Among builds them.
Keeps(f, q, S, n) ==
  f = [k \in 0..n |-> IF k = 0 THEN <<>> ELSE IF q[k] \in S THEN Append(f[k - 1], q[k]) ELSE f[k - 1]]

\* The filtering of n entries extends to one more.
LEMMA KeepsMore ==
  ASSUME NEW q, NEW S, NEW n \in Nat, NEW g, Keeps(g, q, S, n)
  PROVE  \E f : Keeps(f, q, S, n + 1)
<1> DEFINE f == [k \in 0..n + 1 |-> IF k <= n THEN g[k] ELSE IF q[k] \in S THEN Append(g[k - 1], q[k]) ELSE g[k - 1]]
           h == [k \in 0..n + 1 |-> IF k = 0 THEN <<>> ELSE IF q[k] \in S THEN Append(f[k - 1], q[k]) ELSE f[k - 1]]
<1>1. \A k \in 0..n : g[k] = IF k = 0 THEN <<>> ELSE IF q[k] \in S THEN Append(g[k - 1], q[k]) ELSE g[k - 1]
  BY DEF Keeps
<1>2. ASSUME NEW k \in 0..n + 1 PROVE f[k] = h[k]
  <2>1. CASE k <= n
    <3>1. f[k] = g[k] /\ (k # 0 => k - 1 \in 0..n + 1 /\ k - 1 <= n)
      BY <2>1
    <3>2. k # 0 => f[k - 1] = g[k - 1]
      BY <3>1
    <3> QED BY <2>1, <3>1, <3>2, <1>1
  <2>2. CASE ~(k <= n)
    <3>1. k - 1 \in 0..n + 1 /\ k - 1 <= n /\ k # 0
      BY <2>2
    <3>2. f[k - 1] = g[k - 1]
      BY <3>1
    <3> QED BY <2>2, <3>1, <3>2
  <2> QED BY <2>1, <2>2
<1>3. f = h
  BY <1>2
<1>4. Keeps(f, q, S, n + 1)
  BY <1>3 DEF Keeps
<1> QED BY <1>4

\* The recursion of Among has a solution for every length.
LEMMA KeepsSome ==
  ASSUME NEW q, NEW S, NEW n \in Nat
  PROVE  \E f : Keeps(f, q, S, n)
<1> DEFINE Bad == {k \in Nat : ~\E f : Keeps(f, q, S, k)}
<1>1. SUFFICES ASSUME Bad # {} PROVE FALSE
  OBVIOUS
<1>2. PICK m \in Bad : \A k \in Bad : m <= k
  BY <1>1, LeastNumber
<1>3. CASE m = 0
  <2> DEFINE f == [k \in 0..0 |-> <<>>]
  <2>1. f = [k \in 0..0 |-> IF k = 0 THEN <<>> ELSE IF q[k] \in S THEN Append(f[k - 1], q[k]) ELSE f[k - 1]]
    OBVIOUS
  <2>2. Keeps(f, q, S, 0)
    BY <2>1 DEF Keeps
  <2> QED BY <1>3, <2>2
<1>4. CASE m # 0
  <2>1. m - 1 \in Nat /\ ~(m <= m - 1) /\ m - 1 + 1 = m
    BY <1>4
  <2>2. PICK g : Keeps(g, q, S, m - 1)
    BY <1>2, <2>1
  <2>3. \E f : Keeps(f, q, S, m - 1 + 1)
    BY <2>1, <2>2, KeepsMore
  <2> QED BY <1>2, <2>1, <2>3
<1> QED BY <1>3, <1>4

\* Among is the last value of that solution.
LEMMA AmongKeeps ==
  ASSUME NEW q, NEW S, Len(q) \in Nat
  PROVE  \E f : Keeps(f, q, S, Len(q)) /\ Among(q, S) = f[Len(q)]
<1> DEFINE f == CHOOSE g : Keeps(g, q, S, Len(q))
<1>1. Keeps(f, q, S, Len(q))
  BY KeepsSome
<1>2. Among(q, S) = f[Len(q)]
  BY DEF Among, Keeps
<1> QED BY <1>1, <1>2

\* What keeping the entries of S leaves of the first n entries of q.
KeptRight(g, q, S, n) ==
  /\ g \in Seq(ToSet(q))
  /\ \A i \in DOMAIN g : \E j \in 1..n : q[j] = g[i] /\ q[j] \in S
  /\ \A j \in 1..n : q[j] \in S => \E i \in DOMAIN g : g[i] = q[j]
  /\ IsInjective(q) => IsInjective(g)

\* One more entry is filtered right when those before it were.
LEMMA KeptStep ==
  ASSUME NEW D, NEW q \in Seq(D), NEW S, NEW f, Keeps(f, q, S, Len(q)), NEW n \in 1..Len(q), KeptRight(f[n - 1], q, S, n - 1)
  PROVE  KeptRight(f[n], q, S, n)
<1> DEFINE h == f[n - 1]
           g == f[n]
<1>0. n \in Nat /\ n # 0 /\ n \in 0..Len(q) /\ n - 1 \in 0..Len(q) /\ DOMAIN q = 1..Len(q) /\ q[n] \in ToSet(q)
  BY DEF ToSet
<1>1. g = IF q[n] \in S THEN Append(h, q[n]) ELSE h
  BY <1>0 DEF Keeps
<1>2. KeptRight(h, q, S, n - 1)
  OBVIOUS
<1>d. 1..n = (1..(n - 1)) \cup {n} /\ n \notin 1..(n - 1) /\ \A j \in 1..(n - 1) : j \in 1..n
  BY <1>0
<1> HIDE DEF h, g
<1>3. ASSUME q[n] \notin S PROVE KeptRight(g, q, S, n)
  <2>1. g = h
    BY <1>1, <1>3
  <2> QED BY <2>1, <1>2, <1>d, <1>3 DEF KeptRight
<1>4. ASSUME q[n] \in S PROVE KeptRight(g, q, S, n)
  <2>1. g = Append(h, q[n]) /\ h \in Seq(ToSet(q))
    BY <1>1, <1>2, <1>4 DEF KeptRight
  <2>2. g \in Seq(ToSet(q)) /\ Len(h) \in Nat /\ DOMAIN h = 1..Len(h) /\ DOMAIN g = 1..(Len(h) + 1) /\ g[Len(h) + 1] = q[n]
        /\ \A i \in 1..Len(h) : g[i] = h[i]
    BY <2>1, <1>0
  <2>3. \A i \in DOMAIN g : i \in DOMAIN h \/ i = Len(h) + 1
    BY <2>2
  <2>4. ASSUME NEW i \in DOMAIN g PROVE \E j \in 1..n : q[j] = g[i] /\ q[j] \in S
    <3>1. CASE i \in DOMAIN h
      <4>1. g[i] = h[i]
        BY <2>2, <3>1
      <4> QED BY <4>1, <3>1, <1>2, <1>d DEF KeptRight
    <3>2. CASE i = Len(h) + 1
      BY <3>2, <2>2, <1>4, <1>d
    <3> QED BY <3>1, <3>2, <2>3
  <2>5. ASSUME NEW j \in 1..n, q[j] \in S PROVE \E i \in DOMAIN g : g[i] = q[j]
    <3>1. CASE j = n
      BY <3>1, <2>2
    <3>2. CASE j # n
      <4>1. j \in 1..(n - 1)
        BY <3>2, <1>d
      <4>2. PICK i \in DOMAIN h : h[i] = q[j]
        BY <4>1, <2>5, <1>2 DEF KeptRight
      <4> QED BY <4>2, <2>2
    <3> QED BY <3>1, <3>2
  <2>6. ASSUME IsInjective(q) PROVE IsInjective(g)
    <3>1. \A a, b \in DOMAIN h : h[a] = h[b] => a = b
      BY <2>6, <1>2 DEF KeptRight, IsInjective
    <3>2. \A a \in DOMAIN h : h[a] # q[n]
      <4>1. ASSUME NEW a \in DOMAIN h, h[a] = q[n] PROVE FALSE
        <5>1. PICK j \in 1..(n - 1) : q[j] = h[a]
          BY <1>2 DEF KeptRight
        <5>2. j \in DOMAIN q /\ n \in DOMAIN q /\ j # n
          BY <1>0, <1>d
        <5> QED BY <5>1, <5>2, <4>1, <2>6 DEF IsInjective
      <4> QED BY <4>1
    <3>3. ASSUME NEW a \in DOMAIN g, NEW b \in DOMAIN g, g[a] = g[b] PROVE a = b
      <4>1. CASE a \in DOMAIN h /\ b \in DOMAIN h
        BY <4>1, <3>3, <3>1, <2>2
      <4>2. CASE a \in DOMAIN h /\ b = Len(h) + 1
        BY <4>2, <3>3, <3>2, <2>2
      <4>3. CASE b \in DOMAIN h /\ a = Len(h) + 1
        BY <4>3, <3>3, <3>2, <2>2
      <4> QED BY <4>1, <4>2, <4>3, <2>3
    <3> QED BY <3>3 DEF IsInjective
  <2> QED BY <2>2, <2>4, <2>5, <2>6 DEF KeptRight
<1>5. KeptRight(g, q, S, n)
  BY <1>3, <1>4
<1> QED BY <1>5 DEF g

\* Every prefix is filtered right: otherwise there would be a shortest one that is not.
LEMMA AmongRight ==
  ASSUME NEW D, NEW q \in Seq(D), NEW S
  PROVE  KeptRight(Among(q, S), q, S, Len(q))
<1>0. Len(q) \in Nat
  OBVIOUS
<1>1. PICK f : Keeps(f, q, S, Len(q)) /\ Among(q, S) = f[Len(q)]
  BY <1>0, AmongKeeps
<1> DEFINE Bad == {k \in 0..Len(q) : ~KeptRight(f[k], q, S, k)}
<1>2. SUFFICES ASSUME Bad # {} PROVE FALSE
  BY <1>0, <1>1
<1>3. Bad \in SUBSET Nat
  BY <1>0
<1>4. PICK m \in Bad : \A k \in Bad : m <= k
  BY <1>2, <1>3, LeastNumber
<1>5. CASE m = 0
  <2>1. f[0] = <<>>
    BY <1>1, <1>0 DEF Keeps
  <2>2. f[0] \in Seq(ToSet(q)) /\ DOMAIN f[0] = {} /\ 1..0 = {}
    BY <2>1
  <2>3. KeptRight(f[0], q, S, 0)
    BY <2>2 DEF KeptRight, IsInjective
  <2> QED BY <1>4, <1>5, <2>3
<1>6. CASE m # 0
  <2>1. m \in 1..Len(q) /\ m - 1 \in 0..Len(q) /\ ~(m <= m - 1)
    BY <1>6, <1>4, <1>0
  <2>2. KeptRight(f[m - 1], q, S, m - 1)
    BY <2>1, <1>4
  <2>3. KeptRight(f[m], q, S, m)
    BY <2>1, <2>2, <1>1, KeptStep
  <2> QED BY <2>3, <1>4
<1> QED BY <1>5, <1>6

\* Among returns the entries of q that are in S, and no entry twice if q has none twice.
LEMMA AmongSound ==
  ASSUME NEW D, NEW q \in Seq(D), NEW S
  PROVE  /\ Among(q, S) \in Seq(D)
         /\ ToSet(Among(q, S)) = ToSet(q) \cap S
         /\ IsInjective(q) => IsInjective(Among(q, S))
<1> DEFINE g == Among(q, S)
<1>1. KeptRight(g, q, S, Len(q))
  BY AmongRight
<1> HIDE DEF g
<1>2. DOMAIN q = 1..Len(q) /\ ToSet(q) \in SUBSET D
  BY DEF ToSet
<1>3. g \in Seq(D)
  BY <1>1, <1>2 DEF KeptRight
<1>4. ToSet(g) = ToSet(q) \cap S
  BY <1>1, <1>2 DEF KeptRight, ToSet
<1>5. g \in Seq(D) /\ ToSet(g) = ToSet(q) \cap S /\ (IsInjective(q) => IsInjective(g))
  BY <1>1, <1>3, <1>4 DEF KeptRight
<1> QED BY <1>5 DEF g

-----------------------------------------------------------------------------
(***************************************************************************)
(* The invariant.  A settled task is in one place: still to be returned by *)
(* its call, in the queue, or with an answer on its way or gone; the queue *)
(* holds a task only when its call no longer waits for it.                 *)
(***************************************************************************)

StatusOK == status \in [Task -> TaskStatus \cup {"absent"}]

\* A launched task belongs to the session that launched it.
OwnersOK == \A t \in Task : status[t] # "absent" => owner[t] \in ParentSession

\* What the launching call of a task is waiting for.
CallsOK ==
  \A t \in Task :
    /\ call[t] = "awaiting" => Pending(t)
    /\ call[t] = "result" => Finished(status[t]) /\ t \notin Answered
    /\ mode[t] = "background" => call[t] = "none"
    /\ t \in yielded => Pending(t) /\ call[t] # "awaiting"

\* The queue holds finished tasks nobody has answered for, each once.
QueueOK ==
  /\ IsInjective(pending)
  /\ \A t \in ToSet(pending) : Finished(status[t]) /\ t \notin Answered /\ call[t] \in {"none", "yield"}

AnswersOK == \A t \in Answered : t \in Task /\ Finished(status[t])

DeliveryInv ==
  /\ TypeOK
  /\ StatusOK
  /\ OwnersOK
  /\ CallsOK
  /\ QueueOK
  /\ AnswersOK
  /\ OneAnswer

\* A finished task is neither active nor absent.
LEMMA StatusesApart ==
  ASSUME NEW s
  PROVE  /\ s \in ActiveStatus => ~Finished(s) /\ s # "absent"
         /\ Finished(s) => s \notin ActiveStatus /\ s # "absent" /\ s # "queued"
         /\ s \in {"queued", "running"} => s \in ActiveStatus
         /\ s = "cancelled" => Finished(s)
         /\ ~Finished("absent")
         /\ "absent" \notin ActiveStatus
BY DEF ActiveStatus, FinishedStatus, Finished

\* enqueue keeps the entries apart and adds none but t.
LEMMA EnqueueSound ==
  ASSUME TypeOK, QueueOK, NEW t \in Task
  PROVE  /\ Enqueue(t) \in Seq(Task)
         /\ IsInjective(Enqueue(t))
         /\ ToSet(pending) \subseteq ToSet(Enqueue(t))
         /\ ToSet(Enqueue(t)) \subseteq ToSet(pending) \cup {t}
<1> DEFINE q == Append(pending, t)
<1>1. CASE t \in consumed \cup delivered \cup ToSet(pending)
  BY <1>1 DEF Enqueue, TypeOK, QueueOK
<1>2. CASE t \notin consumed \cup delivered \cup ToSet(pending)
  <2>1. Enqueue(t) = q /\ t \notin ToSet(pending) /\ pending \in Seq(Task)
    BY <1>2 DEF Enqueue, TypeOK
  <2>2. q \in Seq(Task) /\ Len(pending) \in Nat /\ DOMAIN pending = 1..Len(pending) /\ DOMAIN q = 1..(Len(pending) + 1)
        /\ q[Len(pending) + 1] = t /\ \A i \in 1..Len(pending) : q[i] = pending[i]
    BY <2>1
  <2> HIDE DEF q
  <2>3. \A i \in DOMAIN q : i \in DOMAIN pending \/ i = Len(pending) + 1
    BY <2>2
  <2>4. \A i \in DOMAIN pending : pending[i] # t
    BY <2>1 DEF ToSet
  <2>5. IsInjective(q)
    BY <2>2, <2>3, <2>4 DEF IsInjective, QueueOK
  <2>6. ToSet(pending) \subseteq ToSet(q) /\ ToSet(q) \subseteq ToSet(pending) \cup {t}
    BY <2>2, <2>3 DEF ToSet
  <2> QED BY <2>1, <2>2, <2>5, <2>6
<1> QED BY <1>1, <1>2

\* What a concatenation holds, entry by entry.
LEMMA Joined ==
  ASSUME NEW T, NEW a \in Seq(T), NEW d \in Seq(T)
  PROVE  /\ a \o d \in Seq(T) /\ DOMAIN (a \o d) = 1..(Len(a) + Len(d))
         /\ \A i \in 1..Len(a) : (a \o d)[i] = a[i]
         /\ \A i \in 1..(Len(a) + Len(d)) : ~(i <= Len(a)) => (a \o d)[i] = d[i - Len(a)] /\ i - Len(a) \in 1..Len(d)
OBVIOUS

\* What one flush adds to the answers.
LEMMA FlushSound ==
  ASSUME TypeOK, OneAnswer, AnswersOK, NEW q \in Seq(Task), IsInjective(q), NEW refused,
         \A t \in ToSet(q) : t \notin Answered /\ owner[t] \in ParentSession,
         FlushOf(q, refused), owner' = owner
  PROVE  /\ answers' \in Seq(ParentAnswer)
         /\ OneAnswer'
         /\ \A t \in Answered' : t \in Answered \/ t \in ToSet(q)
         /\ \A t \in Answered : t \in Answered'
         /\ pending' = <<>> /\ old' = {} /\ delivered' \subseteq Task
         /\ lost' \subseteq Task
<1> DEFINE taken == TakeDeliverable(q)
           S == {t \in Task \ refused : owner[t] = session}
           kept == Among(taken, S)
           D == [i \in DOMAIN kept |->
                   [task |-> kept[i], route |-> IF kept[i] \in old THEN "stale" ELSE "push", to |-> session]]
           a == answers
           n == Len(a)
<1>1. taken \in Seq(Task) /\ ToSet(taken) \subseteq ToSet(q) /\ IsInjective(taken)
  BY AmongSound DEF TakeDeliverable
<1>t. pending' = <<>> /\ old' = {} /\ delivered' = delivered \cup ToSet(taken) /\ answers' = a \o D
      /\ lost' = lost \cup (ToSet(taken) \cap refused)
  BY DEF FlushOf, Delivery
<1> HIDE DEF taken
<1>2. kept \in Seq(Task) /\ ToSet(kept) = ToSet(taken) \cap S /\ IsInjective(kept)
  BY <1>1, AmongSound
<1> HIDE DEF kept
<1>3. Len(kept) \in Nat /\ DOMAIN kept = 1..Len(kept) /\ \A i \in DOMAIN kept : kept[i] \in ToSet(taken) \cap S
  BY <1>2 DEF ToSet
<1>4. \A i \in DOMAIN kept : kept[i] \in Task /\ kept[i] \in ToSet(q) /\ kept[i] \notin Answered
                             /\ owner[kept[i]] = session /\ session \in ParentSession
  BY <1>3, <1>1
<1>5. DOMAIN D = 1..Len(kept) /\ \A i \in 1..Len(kept) : D[i] \in ParentAnswer /\ D[i].task = kept[i] /\ D[i].to = session
  BY <1>3, <1>4 DEF ParentAnswer, Route
<1>6. D \in Seq(ParentAnswer) /\ Len(D) = Len(kept)
  BY <1>3, <1>5
<1> HIDE DEF D
<1>7. a \in Seq(ParentAnswer) /\ n \in Nat /\ DOMAIN a = 1..n
  BY DEF TypeOK
<1>8. answers' \in Seq(ParentAnswer) /\ DOMAIN answers' = 1..(n + Len(kept))
      /\ (\A i \in 1..n : answers'[i] = a[i])
      /\ \A i \in 1..(n + Len(kept)) : ~(i <= n) => answers'[i] = D[i - n] /\ i - n \in 1..Len(kept)
  <2> HIDE DEF a
  <2>1. DOMAIN (a \o D) = 1..(Len(a) + Len(D)) /\ a \o D \in Seq(ParentAnswer)
    BY <1>6, <1>7, Joined
  <2>2. \A i \in 1..Len(a) : (a \o D)[i] = a[i]
    BY <1>6, <1>7, Joined
  <2>3. \A i \in 1..(Len(a) + Len(D)) : ~(i <= Len(a)) => (a \o D)[i] = D[i - Len(a)] /\ i - Len(a) \in 1..Len(D)
    BY <1>6, <1>7, Joined
  <2> QED BY <2>1, <2>2, <2>3, <1>6, <1>t
<1>9. ASSUME NEW i \in DOMAIN answers'
      PROVE  \/ i \in DOMAIN a /\ answers'[i] = a[i] /\ answers'[i].task \in Answered
             \/ i - n \in DOMAIN kept /\ answers'[i].task = kept[i - n] /\ answers'[i].to = session
  <2> HIDE DEF a, n
  <2>1. CASE i <= n
    <3>1. i \in DOMAIN a /\ answers'[i] = a[i]
      BY <2>1, <1>7, <1>8, <1>3
    <3> QED BY <3>1 DEF Answered, a
  <2>2. CASE ~(i <= n)
    BY <2>2, <1>8, <1>5, <1>3
  <2> QED BY <2>1, <2>2
<1>10. DOMAIN answers' \subseteq Nat /\ DOMAIN a \subseteq DOMAIN answers' /\ \A i \in DOMAIN a : answers'[i] = a[i]
  BY <1>8, <1>7, <1>3
<1>11. \A i, j \in DOMAIN answers' : answers'[i].task = answers'[j].task => i = j
  <2> SUFFICES ASSUME NEW i \in DOMAIN answers', NEW j \in DOMAIN answers', answers'[i].task = answers'[j].task
               PROVE i = j
    OBVIOUS
  <2>1. CASE i \in DOMAIN a /\ answers'[i] = a[i] /\ j \in DOMAIN a /\ answers'[j] = a[j]
    BY <2>1 DEF OneAnswer
  <2>2. CASE i - n \in DOMAIN kept /\ answers'[i].task = kept[i - n] /\ j - n \in DOMAIN kept /\ answers'[j].task = kept[j - n]
    <3>1. i - n = j - n
      BY <2>2, <1>2 DEF IsInjective
    <3> QED BY <3>1, <1>10, <1>7
  <2>3. CASE answers'[i].task \in Answered /\ j - n \in DOMAIN kept /\ answers'[j].task = kept[j - n]
    BY <2>3, <1>4
  <2>4. CASE answers'[j].task \in Answered /\ i - n \in DOMAIN kept /\ answers'[i].task = kept[i - n]
    BY <2>4, <1>4
  <2> QED BY <2>1, <2>2, <2>3, <2>4, <1>9
<1>12. \A i \in DOMAIN answers' : answers'[i].to = owner[answers'[i].task]
  BY <1>9, <1>4 DEF OneAnswer
<1>13. OneAnswer'
  BY <1>11, <1>12 DEF OneAnswer
<1>14. (\A t \in Answered' : t \in Answered \/ t \in ToSet(q)) /\ (\A t \in Answered : t \in Answered')
  <2>1. Answered' = {answers'[i].task : i \in DOMAIN answers'}
    BY DEF Answered
  <2>2. Answered = {a[i].task : i \in DOMAIN a}
    BY DEF Answered
  <2>3. ASSUME NEW t \in Answered PROVE t \in Answered'
    <3>1. PICK i \in DOMAIN a : t = a[i].task
      BY <2>2
    <3> QED BY <3>1, <2>1, <1>10
  <2>4. ASSUME NEW t \in Answered' PROVE t \in Answered \/ t \in ToSet(q)
    <3>1. PICK i \in DOMAIN answers' : t = answers'[i].task
      BY <2>1
    <3> QED BY <3>1, <1>9, <1>4
  <2> QED BY <2>3, <2>4
<1>15. ToSet(taken) \subseteq Task
  BY <1>1 DEF ToSet
<1> QED BY <1>t, <1>8, <1>13, <1>14, <1>15 DEF TypeOK

\* A step that neither answers nor enqueues.
LEMMA QuietStep ==
  ASSUME DeliveryInv, UNCHANGED answers, \A t \in Answered : owner'[t] = owner[t]
  PROVE  Answered' = Answered /\ OneAnswer'
<1>1. Answered' = Answered
  BY DEF Answered
<1>2. \A i \in DOMAIN answers : answers[i].task \in Answered
  BY DEF Answered
<1>3. DOMAIN answers' = DOMAIN answers /\ \A i \in DOMAIN answers : answers'[i] = answers[i]
  OBVIOUS
<1>4. \A i \in DOMAIN answers' : answers'[i].to = owner'[answers'[i].task]
  BY <1>2, <1>3 DEF DeliveryInv, OneAnswer
<1> QED BY <1>1, <1>3, <1>4 DEF DeliveryInv, OneAnswer

\* launch(): the new task is in none of the three places.
LEMMA LaunchStep ==
  ASSUME DeliveryInv, NEW t \in Task, NEW m \in Mode, Launch(t, m)
  PROVE  DeliveryInv'
<1> USE DEF DeliveryInv
<1>1. /\ session # NoSession /\ status[t] = "absent" /\ status' = [status EXCEPT ![t] = "queued"]
      /\ owner' = [owner EXCEPT ![t] = session] /\ mode' = [mode EXCEPT ![t] = m]
      /\ call' = [call EXCEPT ![t] = IF m = "task" THEN "awaiting" ELSE "none"]
      /\ session' = session /\ opened' = opened /\ runs' = runs /\ yielded' = yielded
      /\ pending' = pending /\ old' = old /\ consumed' = consumed /\ delivered' = delivered
      /\ answers' = answers /\ settled' = settled /\ pulled' = pulled /\ lost' = lost /\ due' = due
  BY DEF Launch, Create, queueVars, observers
<1>m. m \in {"task", "background"}
  BY DeliveryAssumption
<1>2. TypeOK'
  BY <1>1, <1>m DEF TypeOK
<1>3. StatusOK'
  BY <1>1 DEF StatusOK, TaskStatus, ActiveStatus
<1>f. ~Finished(status[t]) /\ ~Pending(t)
  BY <1>1, StatusesApart DEF Pending
<1>4. t \notin Answered /\ t \notin ToSet(pending) /\ t \notin yielded
  BY <1>f DEF AnswersOK, QueueOK, CallsOK
<1>5. Answered' = Answered /\ OneAnswer'
  <2>1. \A x \in Answered : x # t /\ x \in Task
    BY <1>4 DEF AnswersOK
  <2>2. \A x \in Answered : owner'[x] = owner[x]
    BY <2>1, <1>1 DEF TypeOK
  <2> QED BY <2>2, <1>1, QuietStep
<1>6. OwnersOK'
  BY <1>1 DEF OwnersOK, TypeOK, StatusOK
<1>7. \A x \in Task : x # t => status'[x] = status[x] /\ call'[x] = call[x] /\ mode'[x] = mode[x]
  BY <1>1 DEF TypeOK, StatusOK
<1>8. status'[t] = "queued" /\ mode'[t] = m /\ call'[t] = IF m = "task" THEN "awaiting" ELSE "none"
  BY <1>1 DEF TypeOK, StatusOK
<1>9. CallsOK'
  BY <1>1, <1>4, <1>5, <1>7, <1>8, <1>m, StatusesApart DEF CallsOK, Pending
<1>10. ToSet(pending) \subseteq Task
  BY DEF TypeOK, ToSet
<1>11. QueueOK'
  BY <1>1, <1>4, <1>5, <1>7, <1>10 DEF QueueOK
<1>12. AnswersOK'
  BY <1>4, <1>5, <1>7 DEF AnswersOK
<1> QED BY <1>2, <1>3, <1>5, <1>6, <1>9, <1>11, <1>12

\* The runner starts a task.
LEMMA StartStep ==
  ASSUME DeliveryInv, NEW t \in Task, Start(t)
  PROVE  DeliveryInv'
<1> USE DEF DeliveryInv
<1>1. /\ status[t] = "queued" /\ status' = [status EXCEPT ![t] = "running"]
      /\ UNCHANGED deliveryVars
  BY DEF Start, Progress
<1>2. TypeOK'
  BY <1>1 DEF TypeOK, deliveryVars, queueVars, observers
<1>3. StatusOK'
  BY <1>1 DEF StatusOK, TaskStatus, ActiveStatus
<1>f. ~Finished(status[t]) /\ Pending(t) /\ ~Finished(status'[t]) /\ status'[t] \in ActiveStatus
  BY <1>1, StatusesApart DEF Pending, StatusOK
<1>4. t \notin Answered /\ t \notin ToSet(pending) /\ call[t] # "result"
  BY <1>f DEF AnswersOK, QueueOK, CallsOK
<1>5. Answered' = Answered /\ OneAnswer'
  BY <1>1, QuietStep DEF deliveryVars, observers
<1>7. \A x \in Task : x # t => status'[x] = status[x]
  BY <1>1 DEF StatusOK
<1>6. OwnersOK'
  BY <1>1, <1>7, StatusesApart DEF OwnersOK, deliveryVars
<1>8. CallsOK'
  BY <1>1, <1>f, <1>4, <1>5, <1>7 DEF CallsOK, Pending, deliveryVars
<1>10. ToSet(pending) \subseteq Task
  BY DEF TypeOK, ToSet
<1>11. QueueOK'
  BY <1>1, <1>4, <1>5, <1>7, <1>10 DEF QueueOK, deliveryVars, queueVars
<1>12. AnswersOK'
  BY <1>4, <1>5, <1>7 DEF AnswersOK
<1> QED BY <1>2, <1>3, <1>5, <1>6, <1>8, <1>11, <1>12

\* A question wakes the waiting call, so that the queue may answer later.
LEMMA QueryStep ==
  ASSUME DeliveryInv, NEW t \in Task, Query(t)
  PROVE  DeliveryInv'
<1> USE DEF DeliveryInv
<1>1. /\ status[t] = "running" /\ mode[t] = "task" /\ yielded' = yielded \cup {t}
      /\ call' = [call EXCEPT ![t] = IF call[t] = "awaiting" THEN "yield" ELSE call[t]]
      /\ status' = status /\ session' = session /\ opened' = opened /\ owner' = owner /\ mode' = mode /\ runs' = runs
      /\ pending' = pending /\ old' = old /\ consumed' = consumed /\ delivered' = delivered
      /\ answers' = answers /\ settled' = settled /\ pulled' = pulled /\ lost' = lost /\ due' = due
  BY DEF Query, absVars, queueVars, observers
<1>2. TypeOK'
  BY <1>1 DEF TypeOK
<1>f. ~Finished(status[t]) /\ Pending(t)
  BY <1>1, StatusesApart DEF Pending
<1>4. t \notin Answered /\ t \notin ToSet(pending) /\ call[t] # "result"
  BY <1>f DEF AnswersOK, QueueOK, CallsOK
<1>5. Answered' = Answered /\ OneAnswer'
  BY <1>1, QuietStep
<1>7. (\A x \in Task : x # t => call'[x] = call[x]) /\ call'[t] \notin {"awaiting", "result"}
  BY <1>1, <1>4 DEF TypeOK
<1>8. CallsOK'
  BY <1>1, <1>f, <1>4, <1>5, <1>7 DEF CallsOK, Pending
<1>10. ToSet(pending) \subseteq Task
  BY DEF TypeOK, ToSet
<1>11. QueueOK'
  BY <1>1, <1>4, <1>5, <1>7, <1>10 DEF QueueOK
<1> QED BY <1>1, <1>2, <1>5, <1>8, <1>11 DEF StatusOK, OwnersOK, AnswersOK

\* A task settles: into the queue or for its call, never for both.
LEMMA FinishStep ==
  ASSUME DeliveryInv, NEW t \in Task, FinishTask(t)
  PROVE  DeliveryInv'
<1> USE DEF DeliveryInv
<1>1. /\ Pending(t)
      /\ \E s \in [{t} -> FinishedStatus] : status' = [x \in Task |-> IF x \in {t} THEN s[x] ELSE status[x]]
      /\ IF Queued(t) THEN SettleCompletion(t)
                  ELSE UNCHANGED <<pending, old, delivered, answers, settled, lost>>
      /\ yielded' = yielded \ {t}
      /\ call' = [call EXCEPT ![t] = IF call[t] = "awaiting" THEN "result" ELSE call[t]]
      /\ (due' = due \cup {t} \/ due' = due)
      /\ session' = session /\ opened' = opened /\ owner' = owner /\ mode' = mode /\ runs' = runs
      /\ consumed' = consumed /\ pulled' = pulled
  BY DEF FinishTask, Settle
<1>2. /\ Finished(status'[t]) /\ \A x \in Task : x # t => status'[x] = status[x]
      /\ DOMAIN status' = Task
  BY <1>1 DEF Finished
<1>3. StatusOK'
  <2>1. PICK s \in [{t} -> FinishedStatus] : status' = [x \in Task |-> IF x \in {t} THEN s[x] ELSE status[x]]
    BY <1>1
  <2> QED BY <2>1 DEF StatusOK, TaskStatus
<1>f. ~Finished(status[t]) /\ status[t] # "absent"
  BY <1>1, StatusesApart DEF Pending
<1>4. t \notin Answered /\ t \notin ToSet(pending) /\ call[t] # "result"
  BY <1>f DEF AnswersOK, QueueOK, CallsOK
<1>6. OwnersOK'
  BY <1>1, <1>2, <1>f DEF OwnersOK
<1>7. /\ \A x \in Task : x # t => call'[x] = call[x]
      /\ call'[t] # "awaiting"
      /\ call[t] # "awaiting" => call'[t] = call[t]
      /\ call' \in [Task -> {"none", "awaiting", "yield", "result"}]
  BY <1>1 DEF TypeOK
<1>10. ToSet(pending) \subseteq Task
  BY DEF TypeOK, ToSet
<1>y. yielded' \subseteq Task /\ due' \subseteq Task /\ t \notin yielded'
  BY <1>1 DEF TypeOK
<1>11. CASE ~Queued(t)
  <2>1. pending' = pending /\ old' = old /\ delivered' = delivered /\ answers' = answers /\ settled' = settled /\ lost' = lost
    BY <1>1, <1>11
  <2>2. Answered' = Answered /\ OneAnswer'
    BY <1>1, <2>1, QuietStep
  <2>3. TypeOK'
    BY <1>1, <1>7, <1>y, <2>1 DEF TypeOK
  <2>4. CallsOK'
    BY <1>1, <1>2, <1>4, <1>7, <1>y, <2>2 DEF CallsOK, Pending
  <2>5. QueueOK'
    BY <1>2, <1>4, <1>7, <1>10, <2>1, <2>2 DEF QueueOK
  <2>6. AnswersOK'
    BY <1>2, <2>2 DEF AnswersOK
  <2> QED BY <1>3, <1>6, <2>2, <2>3, <2>4, <2>5, <2>6
<1>12. CASE Queued(t)
  <2>1. call[t] # "awaiting" /\ call'[t] \in {"none", "yield"}
    BY <1>12, <1>4, <1>7 DEF Queued, CallsOK, TypeOK
  <2>2. /\ settled' = Append(settled, t)
        /\ IF runs = 0
           THEN \E refused \in SUBSET {t} : FlushOf(Enqueue(t), refused)
           ELSE pending' = Enqueue(t) /\ old' = old /\ delivered' = delivered /\ answers' = answers /\ lost' = lost
    BY <1>1, <1>12 DEF SettleCompletion
  <2>3. /\ Enqueue(t) \in Seq(Task) /\ IsInjective(Enqueue(t)) /\ ToSet(pending) \subseteq ToSet(Enqueue(t))
        /\ ToSet(Enqueue(t)) \subseteq ToSet(pending) \cup {t}
    BY EnqueueSound
  <2>4. settled' \in Seq(Task)
    BY <2>2 DEF TypeOK
  <2>5. \A x \in ToSet(Enqueue(t)) : x \in Task /\ Finished(status'[x]) /\ x \notin Answered /\ call'[x] \in {"none", "yield"}
    BY <2>1, <2>3, <1>2, <1>4, <1>7, <1>10 DEF QueueOK
  <2>6. CASE runs # 0
    <3>1. pending' = Enqueue(t) /\ old' = old /\ delivered' = delivered /\ answers' = answers /\ lost' = lost
      BY <2>2, <2>6
    <3>2. Answered' = Answered /\ OneAnswer'
      BY <1>1, <3>1, QuietStep
    <3>3. TypeOK'
      BY <1>1, <1>7, <1>y, <2>3, <2>4, <3>1 DEF TypeOK
    <3>4. CallsOK'
      BY <1>1, <1>2, <1>4, <1>7, <1>y, <3>2 DEF CallsOK, Pending
    <3>5. QueueOK'
      BY <2>3, <2>5, <3>1, <3>2 DEF QueueOK
    <3>6. AnswersOK'
      BY <1>2, <3>2 DEF AnswersOK
    <3> QED BY <1>3, <1>6, <3>2, <3>3, <3>4, <3>5, <3>6
  <2>7. CASE runs = 0
    <3>1. PICK refused \in SUBSET {t} : FlushOf(Enqueue(t), refused)
      BY <2>2, <2>7
    <3>o. \A x \in ToSet(Enqueue(t)) : x \notin Answered /\ owner[x] \in ParentSession
      BY <2>3, <2>5, <1>6, <1>1, StatusesApart DEF OwnersOK
    <3>2. /\ answers' \in Seq(ParentAnswer) /\ OneAnswer'
          /\ \A x \in Answered' : x \in Answered \/ x \in ToSet(Enqueue(t))
          /\ \A x \in Answered : x \in Answered'
          /\ pending' = <<>> /\ old' = {} /\ delivered' \subseteq Task
          /\ lost' \subseteq Task
      BY <2>3, <3>1, <3>o, <1>1, FlushSound
    <3>3. TypeOK'
      BY <1>1, <1>7, <1>y, <2>4, <3>2 DEF TypeOK
    <3>4. CallsOK'
      <4> SUFFICES ASSUME NEW x \in Task
                   PROVE /\ call'[x] = "awaiting" => Pending(x)'
                         /\ call'[x] = "result" => Finished(status'[x]) /\ x \notin Answered'
                         /\ mode'[x] = "background" => call'[x] = "none"
                         /\ x \in yielded' => Pending(x)' /\ call'[x] # "awaiting"
        BY DEF CallsOK
      <4>1. CASE x = t
        BY <4>1, <1>1, <1>7, <1>y, <2>1 DEF CallsOK
      <4>2. CASE x # t
        BY <4>2, <1>1, <1>2, <1>7, <2>5, <3>2 DEF CallsOK, Pending
      <4> QED BY <4>1, <4>2
    <3>5. QueueOK'
      <4>1. DOMAIN pending' = {} /\ ToSet(pending') = {}
        BY <3>2 DEF ToSet
      <4> QED BY <4>1 DEF QueueOK, IsInjective
    <3>6. AnswersOK'
      BY <1>2, <2>5, <3>2 DEF AnswersOK
    <3> QED BY <1>3, <1>6, <3>2, <3>3, <3>4, <3>5, <3>6
  <2> QED BY <2>6, <2>7
<1> QED BY <1>11, <1>12

\* The launching call resumes and returns the result, if it waited for it.
LEMMA ReturnStep ==
  ASSUME DeliveryInv, NEW t \in Task, ToolReturns(t)
  PROVE  DeliveryInv'
<1> USE DEF DeliveryInv
<1>1. /\ call[t] \in {"yield", "result"} /\ call' = [call EXCEPT ![t] = "none"]
      /\ status' = status /\ session' = session /\ opened' = opened /\ owner' = owner /\ mode' = mode /\ runs' = runs
      /\ pending' = pending /\ old' = old /\ delivered' = delivered /\ yielded' = yielded
      /\ settled' = settled /\ pulled' = pulled /\ lost' = lost /\ due' = due
  BY DEF ToolReturns, absVars
<1>2. \/ call[t] = "result" /\ consumed' = consumed \cup {t}
         /\ answers' = Append(answers, [task |-> t, route |-> "tool", to |-> owner[t]])
      \/ consumed' = consumed /\ answers' = answers
  BY DEF ToolReturns
<1>7. (\A x \in Task : x # t => call'[x] = call[x]) /\ call'[t] = "none"
      /\ call' \in [Task -> {"none", "awaiting", "yield", "result"}]
  BY <1>1 DEF TypeOK
<1>10. ToSet(pending) \subseteq Task
  BY DEF TypeOK, ToSet
<1>3. CASE consumed' = consumed /\ answers' = answers
  <2>1. Answered' = Answered /\ OneAnswer'
    BY <1>1, <1>3, QuietStep
  <2>2. TypeOK'
    BY <1>1, <1>3, <1>7 DEF TypeOK
  <2>3. CallsOK'
    BY <1>1, <1>7, <2>1 DEF CallsOK, Pending
  <2>4. QueueOK'
    BY <1>1, <1>7, <1>10, <2>1 DEF QueueOK
  <2> QED BY <1>1, <2>1, <2>2, <2>3, <2>4 DEF StatusOK, OwnersOK, AnswersOK
<1>4. CASE /\ call[t] = "result" /\ consumed' = consumed \cup {t}
           /\ answers' = Append(answers, [task |-> t, route |-> "tool", to |-> owner[t]])
  <2> DEFINE e == [task |-> t, route |-> "tool", to |-> owner[t]]
             n == Len(answers)
  <2>1. Finished(status[t]) /\ t \notin Answered /\ t \notin ToSet(pending)
    BY <1>4 DEF CallsOK, QueueOK
  <2>2. owner[t] \in ParentSession
    BY <2>1, StatusesApart DEF OwnersOK
  <2>3. e \in ParentAnswer /\ e.task = t /\ e.to = owner[t]
    BY <2>2 DEF ParentAnswer, Route
  <2>a. answers' = Append(answers, e)
    BY <1>4
  <2> HIDE DEF e
  <2>4. answers' \in Seq(ParentAnswer) /\ n \in Nat /\ DOMAIN answers = 1..n /\ DOMAIN answers' = 1..(n + 1)
        /\ answers'[n + 1] = e /\ \A i \in 1..n : answers'[i] = answers[i]
    BY <2>a, <2>3 DEF TypeOK
  <2> HIDE DEF n
  <2>5. \A i \in DOMAIN answers' : \/ i \in DOMAIN answers /\ answers'[i] = answers[i]
                                   \/ i = n + 1 /\ answers'[i] = e
    BY <2>4
  <2>6. \A i \in DOMAIN answers : answers[i].task \in Answered
    BY DEF Answered
  <2>7. Answered' = Answered \cup {t}
    BY <2>3, <2>4, <2>5 DEF Answered
  <2>8. OneAnswer'
    <3>1. \A i \in DOMAIN answers' : answers'[i].to = owner'[answers'[i].task]
      BY <2>3, <2>5, <1>1 DEF OneAnswer
    <3>2. \A i, j \in DOMAIN answers' : answers'[i].task = answers'[j].task => i = j
      BY <2>1, <2>3, <2>5, <2>6 DEF OneAnswer
    <3> QED BY <3>1, <3>2 DEF OneAnswer
  <2>9. TypeOK'
    BY <1>1, <1>4, <1>7, <2>4 DEF TypeOK
  <2>10. CallsOK'
    BY <1>1, <1>7, <2>7 DEF CallsOK, Pending
  <2>11. QueueOK'
    BY <1>1, <1>7, <1>10, <2>1, <2>7 DEF QueueOK
  <2>12. AnswersOK'
    BY <1>1, <2>1, <2>7 DEF AnswersOK
  <2> QED BY <1>1, <2>8, <2>9, <2>10, <2>11, <2>12 DEF StatusOK, OwnersOK
<1> QED BY <1>2, <1>3, <1>4

\* A step that leaves the tasks, their calls, the queue's order and the answers alone.
LEMMA AsideStep ==
  ASSUME DeliveryInv, TypeOK', UNCHANGED <<status, owner, mode, pending, yielded, call, answers>>
  PROVE  DeliveryInv'
<1>1. Answered' = Answered /\ OneAnswer'
  BY QuietStep
<1> QED BY <1>1 DEF DeliveryInv, StatusOK, OwnersOK, CallsOK, QueueOK, AnswersOK, Pending

\* The parent pulls a finished task.
LEMMA PullStep ==
  ASSUME DeliveryInv, NEW t \in Task, Pull(t)
  PROVE  DeliveryInv'
<1>1. TypeOK'
  BY DEF Pull, DeliveryInv, TypeOK
<1> QED BY <1>1, AsideStep DEF Pull, absVars

\* A held completion becomes stale.
LEMMA AgeStep ==
  ASSUME DeliveryInv, NEW t \in Task, Age(t)
  PROVE  DeliveryInv'
<1>1. TypeOK'
  BY DEF Age, DeliveryInv, TypeOK, observers
<1> QED BY <1>1, AsideStep DEF Age, absVars, observers

\* A parent run starts.
LEMMA AgentStartStep ==
  ASSUME DeliveryInv, AgentStart
  PROVE  DeliveryInv'
<1>1. TypeOK'
  BY DeliveryAssumption DEF AgentStart, DeliveryInv, TypeOK, observers, queueVars
<1> QED BY <1>1, AsideStep DEF AgentStart, absVars, observers, queueVars

\* A turn boundary flushes the queue.
LEMMA FlushStep ==
  ASSUME DeliveryInv, Flush, runs' \in 0 .. MaxRuns,
         UNCHANGED <<absVars, session, opened, owner, mode, consumed, yielded, call, settled, pulled, due>>
  PROVE  DeliveryInv'
<1> USE DEF DeliveryInv
<1>1. /\ status' = status /\ session' = session /\ opened' = opened /\ owner' = owner /\ mode' = mode
      /\ consumed' = consumed /\ yielded' = yielded /\ call' = call /\ settled' = settled /\ pulled' = pulled /\ due' = due
  BY DEF absVars
<1>2. PICK refused \in SUBSET ToSet(pending) : FlushOf(pending, refused)
  BY DEF Flush
<1>10. ToSet(pending) \subseteq Task
  BY DEF TypeOK, ToSet
<1>3. \A x \in ToSet(pending) : x \notin Answered /\ owner[x] \in ParentSession
  BY <1>10, StatusesApart DEF QueueOK, OwnersOK
<1>4. /\ answers' \in Seq(ParentAnswer) /\ OneAnswer'
      /\ \A x \in Answered' : x \in Answered \/ x \in ToSet(pending)
      /\ \A x \in Answered : x \in Answered'
      /\ pending' = <<>> /\ old' = {} /\ delivered' \subseteq Task
      /\ lost' \subseteq Task
  <2>1. pending \in Seq(Task) /\ IsInjective(pending)
    BY DEF TypeOK, QueueOK
  <2> QED BY <2>1, <1>1, <1>2, <1>3, FlushSound
<1>5. TypeOK'
  BY <1>1, <1>4 DEF TypeOK
<1>6. CallsOK'
  BY <1>1, <1>4 DEF CallsOK, QueueOK, Pending
<1>7. QueueOK'
  <2>1. DOMAIN pending' = {} /\ ToSet(pending') = {}
    BY <1>4 DEF ToSet
  <2> QED BY <2>1 DEF QueueOK, IsInjective
<1>8. AnswersOK'
  BY <1>1, <1>4, <1>10 DEF AnswersOK, QueueOK
<1> QED BY <1>1, <1>4, <1>5, <1>6, <1>7, <1>8 DEF StatusOK, OwnersOK

\* An empty queue holds nothing wrong.
LEMMA EmptyQueue ==
  ASSUME pending' = <<>>
  PROVE  QueueOK' /\ pending' \in Seq(Task)
<1>1. DOMAIN pending' = {} /\ ToSet(pending') = {}
  BY DEF ToSet
<1> QED BY <1>1 DEF QueueOK, IsInjective

\* A session opens over an empty queue.
LEMMA OpenSessionStep ==
  ASSUME DeliveryInv, NEW s \in ParentSession, OpenParentSession(s)
  PROVE  DeliveryInv'
<1> USE DEF DeliveryInv
<1>1. /\ session' = s /\ opened < MaxSessions /\ opened' = opened + 1
      /\ pending' = <<>> /\ old' = {} /\ consumed' = {} /\ delivered' = {}
      /\ status' = status /\ owner' = owner /\ mode' = mode /\ runs' = runs /\ yielded' = yielded /\ call' = call
      /\ answers' = answers /\ settled' = settled /\ pulled' = pulled /\ lost' = lost /\ due' = due
  BY DEF OpenParentSession, DropAll, absVars, observers
<1>2. Answered' = Answered /\ OneAnswer'
  BY <1>1, QuietStep
<1>3. TypeOK'
  BY <1>1, DeliveryAssumption DEF TypeOK
<1>4. QueueOK'
  BY <1>1, EmptyQueue
<1> QED BY <1>1, <1>2, <1>3, <1>4 DEF StatusOK, OwnersOK, CallsOK, AnswersOK, Pending

\* A session closes: the queue is dropped and the queued tasks are cancelled.
LEMMA CloseSessionStep ==
  ASSUME DeliveryInv, CloseParentSession
  PROVE  DeliveryInv'
<1> USE DEF DeliveryInv
<1> DEFINE Q == {t \in Task : status[t] = "queued"}
<1>1. /\ session' = NoSession /\ runs' = 0 /\ due' = {}
      /\ pending' = <<>> /\ old' = {} /\ consumed' = {} /\ delivered' = {}
      /\ status' = [t \in Task |-> IF t \in Q THEN "cancelled" ELSE status[t]]
      /\ yielded' = yielded \ Q
      /\ call' = [t \in Task |-> IF t \in Q /\ call[t] = "awaiting" THEN "result" ELSE call[t]]
      /\ opened' = opened /\ owner' = owner /\ mode' = mode /\ answers' = answers
      /\ settled' = settled /\ pulled' = pulled /\ lost' = lost
  BY DEF CloseParentSession, DropAll
<1>2. Answered' = Answered /\ OneAnswer'
  BY <1>1, QuietStep
<1>3. TypeOK'
  BY <1>1, DeliveryAssumption DEF TypeOK
<1>4. QueueOK'
  BY <1>1, EmptyQueue
<1>5. StatusOK'
  BY <1>1 DEF StatusOK, TaskStatus, FinishedStatus
<1>6. OwnersOK'
  BY <1>1, StatusesApart DEF OwnersOK
<1>7. \A t \in Q : ~Finished(status[t]) /\ status[t] # "absent" /\ t \notin Answered /\ call[t] # "result"
  BY StatusesApart DEF AnswersOK, CallsOK
<1>8. \A t \in Task : IF t \in Q THEN /\ status'[t] = "cancelled" /\ t \notin yielded'
                                     /\ call'[t] = IF call[t] = "awaiting" THEN "result" ELSE call[t]
                     ELSE status'[t] = status[t] /\ call'[t] = call[t]
  BY <1>1
<1>c. Finished("cancelled")
  BY DEF Finished, FinishedStatus
<1>9. CallsOK'
  <2> SUFFICES ASSUME NEW x \in Task
               PROVE /\ call'[x] = "awaiting" => Pending(x)'
                     /\ call'[x] = "result" => Finished(status'[x]) /\ x \notin Answered'
                     /\ mode'[x] = "background" => call'[x] = "none"
                     /\ x \in yielded' => Pending(x)' /\ call'[x] # "awaiting"
    BY DEF CallsOK
  <2>1. CASE x \in Q
    BY <2>1, <1>1, <1>2, <1>7, <1>8, <1>c DEF CallsOK
  <2>2. CASE x \notin Q
    BY <2>2, <1>1, <1>2, <1>8 DEF CallsOK, Pending
  <2> QED BY <2>1, <2>2
<1>10. AnswersOK'
  BY <1>2, <1>7, <1>8 DEF AnswersOK
<1> QED BY <1>2, <1>3, <1>4, <1>5, <1>6, <1>9, <1>10

\* Every step keeps the invariant.
LEMMA DeliveryStep ==
  ASSUME DeliveryInv, [Next]_vars
  PROVE  DeliveryInv'
<1>1. CASE \E t \in Task : \E m \in Mode : Launch(t, m)
  BY <1>1, LaunchStep
<1>2. ASSUME NEW t \in Task, Start(t) \/ Query(t) \/ FinishTask(t) \/ ToolReturns(t) \/ Pull(t) \/ Age(t)
      PROVE  DeliveryInv'
  BY <1>2, StartStep, QueryStep, FinishStep, ReturnStep, PullStep, AgeStep
<1>3. CASE AgentStart
  BY <1>3, AgentStartStep
<1>r. runs \in 0 .. MaxRuns
  BY DEF DeliveryInv, TypeOK
<1>4. CASE AgentEnd
  <2>1. runs' \in 0 .. MaxRuns
    BY <1>4, <1>r, DeliveryAssumption DEF AgentEnd
  <2> QED BY <1>4, <2>1, FlushStep DEF AgentEnd
<1>5. CASE TurnEnd
  <2>1. runs' \in 0 .. MaxRuns
    BY <1>5, <1>r DEF TurnEnd
  <2> QED BY <1>5, <2>1, FlushStep DEF TurnEnd
<1>6. CASE CloseParentSession
  BY <1>6, CloseSessionStep
<1>7. CASE \E s \in ParentSession : OpenParentSession(s)
  BY <1>7, OpenSessionStep
<1>8. CASE UNCHANGED vars
  <2>1. TypeOK'
    BY <1>8 DEF DeliveryInv, TypeOK, vars, deliveryVars, queueVars, observers
  <2> QED BY <1>8, <2>1, AsideStep DEF vars, absVars, deliveryVars, queueVars, observers
<1> QED BY <1>1, <1>2, <1>3, <1>4, <1>5, <1>6, <1>7, <1>8 DEF Next

\* The invariant holds before the first session.
LEMMA DeliveryStart == Init => DeliveryInv
<1> SUFFICES ASSUME Init PROVE DeliveryInv
  OBVIOUS
<1>1. Answered = {} /\ ToSet(pending) = {} /\ DOMAIN pending = {} /\ DOMAIN answers = {}
  BY DEF Init, Answered, ToSet
<1>2. TypeOK
  BY <1>1, DeliveryAssumption DEF Init, TypeOK
<1>3. StatusOK /\ OwnersOK
  BY StatusesApart DEF Init, AbsInit, StatusOK, OwnersOK
<1>4. CallsOK /\ QueueOK /\ AnswersOK /\ OneAnswer
  BY <1>1 DEF Init, CallsOK, QueueOK, AnswersOK, OneAnswer, IsInjective
<1> QED BY <1>2, <1>3, <1>4 DEF DeliveryInv

(***************************************************************************)
(* A settled task is answered at most once, by its call or by the queue,   *)
(* and only to the session that launched it, however calls, questions,     *)
(* turns, shutdowns and reopened sessions interleave.                      *)
(***************************************************************************)
THEOREM AnswersAreSingle == Spec => []OneAnswer
<1>1. Init => DeliveryInv
  BY DeliveryStart
<1>2. DeliveryInv /\ [Next]_vars => DeliveryInv'
  BY DeliveryStep
<1>3. DeliveryInv => OneAnswer
  BY DEF DeliveryInv
<1> QED BY <1>1, <1>2, <1>3, PTL DEF Spec

=============================================================================
