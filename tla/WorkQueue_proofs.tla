---------------------------- MODULE WorkQueue_proofs ----------------------------
(***************************************************************************)
(* WorkQueue keeps the promises of WorkItems, for any items and any        *)
(* number of threads.                                                      *)
(***************************************************************************)
EXTENDS WorkQueue, SequenceTheorems, TLAPS

-----------------------------------------------------------------------------
(* std::deque without an item twice.                                       *)

Distinct(s) == \A i, j \in DOMAIN s : s[i] = s[j] => i = j

\* push_back of an item that is not there.
LEMMA PushBack ==
    ASSUME NEW S, NEW s \in Seq(S), NEW e \in S \ ToSet(s), Distinct(s)
    PROVE  /\ Append(s, e) \in Seq(S)
           /\ ToSet(Append(s, e)) = ToSet(s) \cup {e}
           /\ Distinct(Append(s, e))
<1> DEFINE a == Append(s, e)
<1>1. /\ a \in Seq(S)
      /\ DOMAIN a = 1..(Len(s) + 1)
      /\ \A i \in 1..Len(s) : a[i] = s[i]
      /\ a[Len(s) + 1] = e
  OBVIOUS
<1>2. DOMAIN s = 1..Len(s) /\ \A i \in 1..Len(s) : s[i] # e
  BY DEF ToSet
<1> HIDE DEF a
<1>3. ToSet(a) = ToSet(s) \cup {e}
  BY <1>1, <1>2 DEF ToSet
<1>4. Distinct(a)
  BY <1>1, <1>2 DEF Distinct
<1> QED
  BY <1>1, <1>3, <1>4 DEF a

\* push_front of an item that is not there.
LEMMA PushFront ==
    ASSUME NEW S, NEW s \in Seq(S), NEW e \in S \ ToSet(s), Distinct(s)
    PROVE  /\ <<e>> \o s \in Seq(S)
           /\ ToSet(<<e>> \o s) = ToSet(s) \cup {e}
           /\ Distinct(<<e>> \o s)
<1> DEFINE a == <<e>> \o s
<1>1. /\ a \in Seq(S)
      /\ DOMAIN a = 1..(Len(s) + 1)
      /\ a[1] = e
      /\ \A i \in 2..(Len(s) + 1) : a[i] = s[i - 1]
  OBVIOUS
<1>2. DOMAIN s = 1..Len(s) /\ \A i \in 1..Len(s) : s[i] # e
  BY DEF ToSet
<1> HIDE DEF a
<1>3. ToSet(a) = ToSet(s) \cup {e}
  <2>1. ToSet(a) \subseteq ToSet(s) \cup {e}
    BY <1>1, <1>2 DEF ToSet
  <2>2. \A i \in 1..Len(s) : i + 1 \in DOMAIN a /\ a[i + 1] = s[i]
    BY <1>1
  <2>3. 1 \in DOMAIN a
    BY <1>1
  <2> QED
    BY <1>1, <1>2, <2>1, <2>2, <2>3 DEF ToSet
<1>4. Distinct(a)
  <2> SUFFICES ASSUME NEW i \in DOMAIN a, NEW j \in DOMAIN a, a[i] = a[j]
               PROVE  i = j
    BY DEF Distinct
  <2>1. i = 1 \/ (i - 1 \in 1..Len(s) /\ a[i] = s[i - 1])
    BY <1>1
  <2>2. j = 1 \/ (j - 1 \in 1..Len(s) /\ a[j] = s[j - 1])
    BY <1>1
  <2>3. CASE i # 1 /\ j # 1
    <3>1. i - 1 = j - 1
      BY <1>2, <2>1, <2>2, <2>3 DEF Distinct
    <3> QED
      BY <3>1, <1>1
  <2> QED
    BY <1>1, <1>2, <2>1, <2>2, <2>3
<1> QED
  BY <1>1, <1>3, <1>4 DEF a

\* front and pop_front.
LEMMA PopFront ==
    ASSUME NEW S, NEW s \in Seq(S), s # <<>>, Distinct(s)
    PROVE  /\ Head(s) \in S /\ Tail(s) \in Seq(S)
           /\ ToSet(s) = ToSet(Tail(s)) \cup {Head(s)}
           /\ Head(s) \notin ToSet(Tail(s))
           /\ Distinct(Tail(s))
<1> DEFINE r == Tail(s)
<1>1. /\ r \in Seq(S) /\ Head(s) \in S /\ Head(s) = s[1]
      /\ Len(s) >= 1 /\ DOMAIN s = 1..Len(s)
      /\ DOMAIN r = 1..(Len(s) - 1)
      /\ \A i \in 1..(Len(s) - 1) : r[i] = s[i + 1]
  OBVIOUS
<1> HIDE DEF r
<1>2. \A i \in DOMAIN r : i + 1 \in DOMAIN s /\ r[i] = s[i + 1] /\ i + 1 # 1
  BY <1>1
<1>3. \A i \in DOMAIN s : i = 1 \/ (i - 1 \in DOMAIN r /\ r[i - 1] = s[i])
  BY <1>1
<1>4. 1 \in DOMAIN s
  BY <1>1
<1>5. ToSet(s) = ToSet(r) \cup {Head(s)}
  <2>1. ToSet(s) \subseteq ToSet(r) \cup {Head(s)}
    <3> SUFFICES ASSUME NEW i \in DOMAIN s
                 PROVE  s[i] \in ToSet(r) \cup {Head(s)}
      BY DEF ToSet
    <3> QED
      BY <1>1, <1>3 DEF ToSet
  <2>2. ToSet(r) \cup {Head(s)} \subseteq ToSet(s)
    BY <1>1, <1>2, <1>4 DEF ToSet
  <2> QED
    BY <2>1, <2>2
<1>6. Head(s) \notin ToSet(r)
  BY <1>1, <1>2, <1>4 DEF ToSet, Distinct
<1>7. Distinct(r)
  <2> SUFFICES ASSUME NEW i \in DOMAIN r, NEW j \in DOMAIN r, r[i] = r[j]
               PROVE  i = j
    BY DEF Distinct
  <2>1. i + 1 = j + 1
    BY <1>2 DEF Distinct
  <2> QED
    BY <2>1, <1>1
<1> QED
  BY <1>1, <1>5, <1>6, <1>7 DEF r

-----------------------------------------------------------------------------
(* The inductive invariant.                                                *)

Holding == {"work", "signal", "notify"}

\* TypeOK and EachItemOnce, and what they need: a thread has an item from
\* removeWorkItem until it has notified, and the item is done when it notifies.
IInv ==
    /\ TypeOK
    /\ EachItemOnce
    /\ \A t \in Thread : (pc[t] \in Holding) <=> (item[t] # NoItem)
    /\ \A t \in Thread : pc[t] = "notify" => item[t] \in mDone

LEMMA InitIInv == ItemAssumption /\ Init => IInv
<1> SUFFICES ASSUME ItemAssumption, Init
             PROVE  IInv
  OBVIOUS
<1>1. ToSet(mQueue) = {}
  BY DEF Init, ToSet
<1>2. TypeOK
  <2>1. pc \in [Thread -> ThreadPCs] /\ item \in [Thread -> Item \cup {NoItem}]
    BY DEF Init, ThreadPCs
  <2>2. mQueue \in Seq(Item)
    BY EmptySeq DEF Init
  <2> QED
    BY <2>1, <2>2 DEF Init, TypeOK
<1>3. EachItemOnce
  BY <1>1 DEF Init, EachItemOnce, Working
<1> QED
  BY <1>2, <1>3 DEF IInv, Init, Holding

\* Threads that are woken hold nothing and go back to the predicate.
LEMMA Notified ==
    ASSUME IInv, notify_one
    PROVE  /\ pc' \in [Thread -> ThreadPCs]
           /\ \A t \in Thread : pc'[t] = pc[t] \/ (pc[t] = "asleep" /\ pc'[t] = "loop")
<1>1. CASE pc' = pc
  BY <1>1 DEF IInv, TypeOK
<1>2. ASSUME NEW t \in Sleepers, Go(t, "loop")
      PROVE  /\ pc' \in [Thread -> ThreadPCs]
             /\ \A u \in Thread : pc'[u] = pc[u] \/ (pc[u] = "asleep" /\ pc'[u] = "loop")
  BY <1>2 DEF IInv, TypeOK, Go, Sleepers, ThreadPCs
<1> QED
  BY <1>1, <1>2 DEF notify_one

\* What a step with the queue left alone, no new item in hand and pc changed between
\* places that are alike preserves.
LEMMA QuietStep ==
    ASSUME IInv,
           pc' \in [Thread -> ThreadPCs],
           \A t \in Thread : pc'[t] = pc[t] \/ {pc[t], pc'[t]} \subseteq {"loop", "asleep", "ended"},
           UNCHANGED <<mQueue, mDone, item>>,
           mIsReleased' \in BOOLEAN, awaited' \in Item \cup {NoItem}, asleep' \in BOOLEAN
    PROVE  IInv'
<1>1. \A t \in Thread : pc'[t] = pc[t] \/ (pc[t] \notin Holding /\ pc'[t] \notin Holding)
  BY DEF Holding
<1>2. TypeOK'
  BY DEF IInv, TypeOK
<1>3. EachItemOnce'
  BY <1>1 DEF IInv, EachItemOnce, Held, Working, Holding
<1>4. (\A t \in Thread : (pc[t] \in Holding) <=> (item[t] # NoItem))'
  BY <1>1 DEF IInv
<1>5. (\A t \in Thread : pc[t] = "notify" => item[t] \in mDone)'
  BY <1>1 DEF IInv, Holding
<1> QED
  BY <1>2, <1>3, <1>4, <1>5 DEF IInv

LEMMA addWorkItemIInv ==
    ASSUME ItemAssumption, IInv, NEW i \in Item, NEW front \in BOOLEAN, addWorkItem(i, front)
    PROVE  IInv'
<1>1. /\ i \notin Known
      /\ mDone' = mDone \ {i} /\ item' = item /\ notify_one
      /\ UNCHANGED <<mIsReleased, awaited, asleep>>
      /\ mQueue' = IF front THEN <<i>> \o mQueue ELSE Append(mQueue, i)
  BY DEF addWorkItem
<1>2. mQueue \in Seq(Item) /\ Distinct(mQueue) /\ i \notin ToSet(mQueue)
  BY <1>1 DEF IInv, TypeOK, EachItemOnce, Distinct, Known
<1>3. mQueue' \in Seq(Item) /\ Distinct(mQueue') /\ ToSet(mQueue') = ToSet(mQueue) \cup {i}
  <2>1. CASE front = TRUE
    <3>1. mQueue' = <<i>> \o mQueue
      BY <1>1, <2>1
    <3> QED
      BY <1>2, <3>1, PushFront
  <2>2. CASE front = FALSE
    <3>1. mQueue' = Append(mQueue, i)
      BY <1>1, <2>2
    <3> QED
      BY <1>2, <3>1, PushBack
  <2> QED
    BY <2>1, <2>2
<1>4. /\ pc' \in [Thread -> ThreadPCs]
      /\ \A t \in Thread : pc'[t] = pc[t] \/ (pc[t] \notin Holding /\ pc'[t] \notin Holding)
  BY <1>1, Notified DEF Holding
<1>5. TypeOK'
  BY <1>1, <1>3, <1>4 DEF IInv, TypeOK
<1>6. Held' = Held /\ i \notin Held
  BY <1>1 DEF Held, Known
<1>7. EachItemOnce'
  <2>1. (ToSet(mQueue) \cap (Held \cup mDone) = {})'
    BY <1>1, <1>3, <1>6 DEF IInv, EachItemOnce
  <2>2. (\A t \in Thread : Working(t) => item[t] \notin mDone)'
    BY <1>1, <1>4 DEF IInv, EachItemOnce, Working, Holding
  <2>3. (\A s, t \in Thread : item[s] = item[t] /\ item[s] # NoItem => s = t)'
    BY <1>1 DEF IInv, EachItemOnce
  <2>4. (\A k, j \in DOMAIN mQueue : mQueue[k] = mQueue[j] => k = j)'
    BY <1>3 DEF Distinct
  <2> QED
    BY <2>1, <2>2, <2>3, <2>4 DEF EachItemOnce
<1>8. (\A t \in Thread : (pc[t] \in Holding) <=> (item[t] # NoItem))'
  BY <1>1, <1>4 DEF IInv
<1>9. (\A t \in Thread : pc[t] = "notify" => item[t] \in mDone)'
  <2> SUFFICES ASSUME NEW t \in Thread, pc'[t] = "notify"
               PROVE  item[t] \in mDone /\ item[t] # i
    BY <1>1
  <2>1. pc[t] = "notify"
    BY <1>4 DEF Holding
  <2>2. item[t] \in Held
    BY <2>1 DEF IInv, Held, Holding
  <2> QED
    BY <2>1, <2>2, <1>6 DEF IInv
<1> QED
  BY <1>5, <1>7, <1>8, <1>9 DEF IInv

LEMMA removeWorkItemIInv ==
    ASSUME ItemAssumption, IInv, NEW t \in Thread, removeWorkItem(t)
    PROVE  IInv'
<1>1. CASE mQueue = <<>>
  <2>1. pc' \in [Thread -> ThreadPCs]
    BY <1>1 DEF removeWorkItem, IInv, TypeOK, Go, ThreadPCs
  <2>2. \A u \in Thread : pc'[u] = pc[u] \/ {pc[u], pc'[u]} \subseteq {"loop", "asleep", "ended"}
    BY <1>1 DEF removeWorkItem, IInv, TypeOK, Go
  <2>3. UNCHANGED <<mQueue, mDone, item, mIsReleased, awaited, asleep>>
    BY <1>1 DEF removeWorkItem
  <2> QED
    BY <2>1, <2>2, <2>3, QuietStep DEF IInv, TypeOK
<1>2. CASE mQueue # <<>>
  <2> DEFINE i == Head(mQueue)
  <2>1. /\ pc[t] = "loop"
        /\ item' = [item EXCEPT ![t] = i]
        /\ mQueue' = Tail(mQueue)
        /\ pc' = [pc EXCEPT ![t] = "work"]
        /\ UNCHANGED <<mIsReleased, mDone, awaited, asleep>>
    BY <1>2 DEF removeWorkItem, Go
  <2>2. mQueue \in Seq(Item) /\ Distinct(mQueue)
    BY DEF IInv, TypeOK, EachItemOnce, Distinct
  <2>3. /\ i \in Item /\ Tail(mQueue) \in Seq(Item)
        /\ ToSet(mQueue) = ToSet(Tail(mQueue)) \cup {i}
        /\ i \notin ToSet(Tail(mQueue))
        /\ Distinct(Tail(mQueue))
    BY <1>2, <2>2, PopFront
  <2> HIDE DEF i
  <2>4. i \notin Held /\ i \notin mDone /\ i # NoItem
    BY <2>3 DEF IInv, EachItemOnce, ItemAssumption
  <2>5. TypeOK'
    BY <2>1, <2>3 DEF IInv, TypeOK, ThreadPCs
  <2>6. \A u \in Thread : item'[u] = IF u = t THEN i ELSE item[u]
    BY <2>1 DEF IInv, TypeOK
  <2>7. \A u \in Thread : pc'[u] = IF u = t THEN "work" ELSE pc[u]
    BY <2>1 DEF IInv, TypeOK
  <2>8. Held' \subseteq Held \cup {i}
    BY <2>6 DEF Held
  <2>9. EachItemOnce'
    <3>1. (\A k, j \in DOMAIN mQueue : mQueue[k] = mQueue[j] => k = j)'
      BY <2>1, <2>3 DEF Distinct
    <3>2. (\A s, u \in Thread : item[s] = item[u] /\ item[s] # NoItem => s = u)'
      <4>1. \A u \in Thread : item[u] # i
        BY <2>4 DEF Held
      <4> QED
        BY <4>1, <2>6 DEF IInv, EachItemOnce
    <3>3. (ToSet(mQueue) \cap (Held \cup mDone) = {})'
      <4>1. ToSet(mQueue') = ToSet(Tail(mQueue))
        BY <2>1 DEF ToSet
      <4> QED
        BY <4>1, <2>1, <2>3, <2>8 DEF IInv, EachItemOnce
    <3>4. (\A u \in Thread : Working(u) => item[u] \notin mDone)'
      BY <2>1, <2>4, <2>6, <2>7 DEF IInv, EachItemOnce, Working
    <3> QED
      BY <3>1, <3>2, <3>3, <3>4 DEF EachItemOnce
  <2>10. (\A u \in Thread : (pc[u] \in Holding) <=> (item[u] # NoItem))'
    BY <2>4, <2>6, <2>7 DEF IInv, Holding
  <2>11. (\A u \in Thread : pc[u] = "notify" => item[u] \in mDone)'
    BY <2>1, <2>6, <2>7 DEF IInv
  <2> QED
    BY <2>5, <2>9, <2>10, <2>11 DEF IInv
<1> QED
  BY <1>1, <1>2

LEMMA signalDoneIInv ==
    ASSUME ItemAssumption, IInv, NEW t \in Thread, signalDone(t)
    PROVE  IInv'
<1>1. /\ pc[t] = "signal" /\ mDone' = mDone \cup {item[t]}
      /\ pc' = [pc EXCEPT ![t] = "notify"]
      /\ UNCHANGED <<mQueue, mIsReleased, item, awaited, asleep>>
  BY DEF signalDone, Go
<1>2. item[t] \in Held /\ item[t] \in Item /\ item[t] # NoItem
  BY <1>1 DEF IInv, TypeOK, Holding, Held
<1>3. \A u \in Thread : pc'[u] = IF u = t THEN "notify" ELSE pc[u]
  BY <1>1 DEF IInv, TypeOK
<1>4. TypeOK'
  BY <1>1, <1>2 DEF IInv, TypeOK, ThreadPCs
<1>5. Held' = Held
  BY <1>1 DEF Held
<1>6. EachItemOnce'
  <2>1. (ToSet(mQueue) \cap (Held \cup mDone) = {})'
    BY <1>1, <1>2, <1>5 DEF IInv, EachItemOnce, ToSet
  <2>2. (\A u \in Thread : Working(u) => item[u] \notin mDone)'
    BY <1>1, <1>2, <1>3 DEF IInv, EachItemOnce, Working, Holding
  <2> QED
    BY <1>1, <2>1, <2>2 DEF IInv, EachItemOnce
<1>7. (\A u \in Thread : (pc[u] \in Holding) <=> (item[u] # NoItem))'
  BY <1>1, <1>3 DEF IInv, Holding
<1>8. (\A u \in Thread : pc[u] = "notify" => item[u] \in mDone)'
  BY <1>1, <1>3 DEF IInv
<1> QED
  BY <1>4, <1>6, <1>7, <1>8 DEF IInv

LEMMA NotifyAllIInv ==
    ASSUME ItemAssumption, IInv, NEW t \in Thread, NotifyAll(t)
    PROVE  IInv'
<1>1. /\ pc[t] = "notify" /\ item' = [item EXCEPT ![t] = NoItem]
      /\ pc' = [pc EXCEPT ![t] = "loop"]
      /\ asleep' = (asleep /\ awaited # item[t])
      /\ UNCHANGED <<mQueue, mIsReleased, mDone, awaited>>
  BY DEF NotifyAll, Go
<1>2. \A u \in Thread : pc'[u] = IF u = t THEN "loop" ELSE pc[u]
  BY <1>1 DEF IInv, TypeOK
<1>3. \A u \in Thread : item'[u] = IF u = t THEN NoItem ELSE item[u]
  BY <1>1 DEF IInv, TypeOK
<1>4. TypeOK'
  <2>1. asleep' \in BOOLEAN
    BY <1>1
  <2> QED
    BY <1>1, <2>1 DEF IInv, TypeOK, ThreadPCs
<1>5. Held' \subseteq Held
  BY <1>3 DEF Held
<1>6. EachItemOnce'
  <2>1. (ToSet(mQueue) \cap (Held \cup mDone) = {})'
    BY <1>1, <1>5 DEF IInv, EachItemOnce, ToSet
  <2>2. (\A u \in Thread : Working(u) => item[u] \notin mDone)'
    BY <1>1, <1>2, <1>3 DEF IInv, EachItemOnce, Working
  <2>3. (\A s, u \in Thread : item[s] = item[u] /\ item[s] # NoItem => s = u)'
    BY <1>3 DEF IInv, EachItemOnce
  <2> QED
    BY <1>1, <2>1, <2>2, <2>3 DEF IInv, EachItemOnce
<1>7. (\A u \in Thread : (pc[u] \in Holding) <=> (item[u] # NoItem))'
  BY <1>2, <1>3 DEF IInv, Holding
<1>8. (\A u \in Thread : pc[u] = "notify" => item[u] \in mDone)'
  BY <1>1, <1>2, <1>3 DEF IInv
<1> QED
  BY <1>4, <1>6, <1>7, <1>8 DEF IInv

LEMMA doWorkIInv ==
    ASSUME ItemAssumption, IInv, NEW t \in Thread, doWork(t)
    PROVE  IInv'
<1>1. /\ pc[t] = "work"
      /\ pc' = [pc EXCEPT ![t] = "signal"]
      /\ UNCHANGED <<mQueue, mIsReleased, mDone, item, awaited, asleep>>
  BY DEF doWork, Go
<1>2. \A u \in Thread : pc'[u] = IF u = t THEN "signal" ELSE pc[u]
  BY <1>1 DEF IInv, TypeOK
<1>3. TypeOK'
  BY <1>1 DEF IInv, TypeOK, ThreadPCs
<1>4. EachItemOnce'
  BY <1>1, <1>2 DEF IInv, EachItemOnce, Working, Held
<1> QED
  BY <1>1, <1>2, <1>3, <1>4 DEF IInv, Holding

\* ~WorkQueue drops the queue.
LEMMA ReleaseIInv ==
    ASSUME ItemAssumption, IInv, Release
    PROVE  IInv'
<1>1. /\ mQueue' = <<>> /\ mIsReleased' = TRUE
      /\ pc' = [u \in Thread |-> IF pc[u] = "asleep" THEN "loop" ELSE pc[u]]
      /\ UNCHANGED <<mDone, item, awaited, asleep>>
  BY DEF Release
<1>2. TypeOK'
  BY <1>1 DEF IInv, TypeOK, ThreadPCs
<1>3. EachItemOnce'
  <2>1. ToSet(mQueue') = {} /\ DOMAIN mQueue' = {}
    BY <1>1 DEF ToSet
  <2> QED
    BY <1>1, <2>1 DEF IInv, EachItemOnce, Working
<1> QED
  BY <1>1, <1>2, <1>3 DEF IInv, Holding

LEMMA NextIInv == ItemAssumption /\ IInv /\ [Next]_vars => IInv'
<1> SUFFICES ASSUME ItemAssumption, IInv, [Next]_vars
             PROVE  IInv'
  OBVIOUS
<1>1. ASSUME NEW i \in Item, NEW front \in BOOLEAN, addWorkItem(i, front)
      PROVE  IInv'
  BY <1>1, addWorkItemIInv
<1>2. ASSUME NEW i \in Known, waitTillDone(i)
      PROVE  IInv'
  <2>1. i \in Item
    BY DEF Known, Held, ToSet, IInv, TypeOK
  <2> QED
    BY <1>2, <2>1, QuietStep DEF waitTillDone, IInv, TypeOK
<1>3. CASE CheckDone
  BY <1>3, QuietStep DEF CheckDone, IInv, TypeOK
<1>4. CASE Release
  BY <1>4, ReleaseIInv
<1>5. ASSUME NEW t \in Thread, removeWorkItem(t)
      PROVE  IInv'
  BY <1>5, removeWorkItemIInv
<1>6. ASSUME NEW t \in Thread, signalDone(t)
      PROVE  IInv'
  BY <1>6, signalDoneIInv
<1>7. ASSUME NEW t \in Thread, NotifyAll(t)
      PROVE  IInv'
  BY <1>7, NotifyAllIInv
<1>8. ASSUME NEW t \in Thread, doWork(t)
      PROVE  IInv'
  BY <1>8, doWorkIInv
<1>9. ASSUME NEW t \in Thread, SpuriousWakeup(t)
      PROVE  IInv'
  BY <1>9, QuietStep DEF SpuriousWakeup, Go, IInv, TypeOK, ThreadPCs
<1>10. CASE UNCHANGED vars
  BY <1>10, QuietStep DEF vars, IInv, TypeOK
<1> QED
  BY <1>1, <1>2, <1>3, <1>4, <1>5, <1>6, <1>7, <1>8, <1>9, <1>10 DEF Next, Run

\* Every variable of the queue and its threads keeps its type.
THEOREM TypeCorrect == ItemAssumption /\ Spec => []TypeOK
<1> SUFFICES ASSUME ItemAssumption
             PROVE  Spec => []TypeOK
  OBVIOUS
<1>1. Init => IInv
  BY InitIInv
<1>2. IInv /\ [Next]_vars => IInv'
  BY NextIInv
<1>3. IInv => TypeOK
  BY DEF IInv
<1> QED
  BY <1>1, <1>2, <1>3, PTL DEF Spec

\* An item is queued once or worked on by one thread, never both, and is not called
\* done before its work has been, whoever adds, waits, wakes and drops items.
THEOREM ItemsOnce == ItemAssumption /\ Spec => []EachItemOnce
<1> SUFFICES ASSUME ItemAssumption
             PROVE  Spec => []EachItemOnce
  OBVIOUS
<1>1. Init => IInv
  BY InitIInv
<1>2. IInv /\ [Next]_vars => IInv'
  BY NextIInv
<1>3. IInv => EachItemOnce
  BY DEF IInv
<1> QED
  BY <1>1, <1>2, <1>3, PTL DEF Spec

-----------------------------------------------------------------------------
(* Refinement.                                                             *)

\* The items WorkItems calls running: begun, and not called done.
Running == { item[t] : t \in { s \in Thread : Working(s) } }

LEMMA RunningSame ==
    ASSUME \A t \in Thread : /\ Working(t)' <=> Working(t)
                             /\ Working(t) => item'[t] = item[t]
    PROVE  Running' = Running
BY DEF Running

\* A begun item is in the hand of a thread, neither queued nor done.
LEMMA RunningHeld ==
    ASSUME IInv
    PROVE  /\ Running \subseteq Held
           /\ Held \subseteq Running \cup mDone
           /\ Running \cap (ToSet(mQueue) \cup mDone) = {}
<1>1. \A t \in Thread : Working(t) => item[t] # NoItem /\ item[t] \notin mDone
  BY DEF IInv, EachItemOnce, Holding, Working
<1>2. \A t \in Thread : item[t] # NoItem => Working(t) \/ item[t] \in mDone
  BY DEF IInv, Holding, Working
<1>3. Running \subseteq Held
  BY <1>1 DEF Running, Held
<1>4. Held \subseteq Running \cup mDone
  BY <1>2 DEF Running, Held
<1> QED
  BY <1>1, <1>3, <1>4 DEF IInv, EachItemOnce, Running

LEMMA InitImplements == Init => Items!Init
BY DEF Init, Items!Init, Working

\* Adding, awaiting, releasing: steps of the main thread.
LEMMA MainImplements ==
    ASSUME ItemAssumption, IInv
    PROVE  /\ \A i \in Item, front \in BOOLEAN : addWorkItem(i, front) => Items!Submit(i, front)
           /\ \A i \in Known : waitTillDone(i) => Items!Await(i) \/ UNCHANGED Items!vars
           /\ CheckDone => Items!Proceed \/ UNCHANGED Items!vars
           /\ Release => Items!Release
<1>1. ASSUME NEW i \in Item, NEW front \in BOOLEAN, addWorkItem(i, front)
      PROVE  Items!Submit(i, front)
  <2>1. \A t \in Thread : pc'[t] = pc[t] \/ (pc[t] = "asleep" /\ pc'[t] = "loop")
    BY <1>1, Notified DEF addWorkItem
  <2>2. Running' = Running
    BY <1>1, <2>1, RunningSame DEF addWorkItem, Working
  <2>3. i \notin ToSet(mQueue) \cup Running
    BY <1>1, RunningHeld DEF addWorkItem, Known
  <2> QED
    BY <1>1, <2>2, <2>3 DEF addWorkItem, Items!Submit, Running, ToSet, Items!ToSet
<1>2. ASSUME NEW i \in Known, waitTillDone(i)
      PROVE  Items!Await(i) \/ UNCHANGED Items!vars
  <2>1. Running' = Running
    BY <1>2, RunningSame DEF waitTillDone, Working
  <2>2. i \notin mDone => i \in ToSet(mQueue) \cup Running
    BY RunningHeld DEF Known
  <2> QED
    BY <1>2, <2>1, <2>2 DEF waitTillDone, Items!Await, Items!vars, Running, ToSet, Items!ToSet
<1>3. ASSUME CheckDone
      PROVE  Items!Proceed \/ UNCHANGED Items!vars
  <2>1. Running' = Running
    BY <1>3, RunningSame DEF CheckDone, Working
  <2> QED
    BY <1>3, <2>1 DEF CheckDone, Items!Proceed, Items!vars, Running
<1>4. ASSUME Release
      PROVE  Items!Release
  <2>1. pc \in [Thread -> ThreadPCs]
    BY DEF IInv, TypeOK
  <2>2. Running' = Running
    BY <1>4, <2>1, RunningSame DEF Release, Working
  <2>3. NoItem \notin ToSet(mQueue)
    BY DEF ToSet, IInv, TypeOK, ItemAssumption
  <2> QED
    BY <1>4, <2>2, <2>3 DEF Release, Items!Release, Running, ToSet, Items!ToSet
<1> QED
  BY <1>1, <1>2, <1>3, <1>4

\* Beginning an item and calling it done are steps of WorkItems, the others stutter.
LEMMA ThreadImplements ==
    ASSUME ItemAssumption, IInv, NEW t \in Thread
    PROVE  /\ removeWorkItem(t) => Items!Begin \/ UNCHANGED Items!vars
           /\ signalDone(t) => Items!Finish
           /\ NotifyAll(t) \/ doWork(t) \/ SpuriousWakeup(t) => UNCHANGED Items!vars
<1> USE DEF Go
<1>1. pc \in [Thread -> ThreadPCs] /\ item \in [Thread -> Item \cup {NoItem}]
  BY DEF IInv, TypeOK
<1>2. ASSUME removeWorkItem(t) /\ mQueue # <<>>
      PROVE  Items!Begin
  <2>1. Head(mQueue) \notin Running
    BY <1>2, PopFront, RunningHeld DEF Distinct, IInv, TypeOK, EachItemOnce
  <2>2. Running' = Running \cup {Head(mQueue)}
    <3>1. ~Working(t) /\ Working(t)' /\ item'[t] = Head(mQueue)
      BY <1>1, <1>2 DEF removeWorkItem, Working
    <3>2. \A s \in Thread \ {t} : (Working(s)' <=> Working(s)) /\ item'[s] = item[s]
      BY <1>1, <1>2 DEF removeWorkItem, Working
    <3> QED
      BY <3>1, <3>2 DEF Running
  <2>3. mQueue # <<>> /\ mQueue' = Tail(mQueue) /\ mDone' = mDone /\ awaited' = awaited
    BY <1>2 DEF removeWorkItem
  <2> QED
    BY <2>1, <2>2, <2>3 DEF Items!Begin, Running
<1>3. ASSUME removeWorkItem(t) /\ mQueue = <<>>
      PROVE  UNCHANGED Items!vars
  <2>1. Running' = Running
    BY <1>1, <1>3, RunningSame DEF removeWorkItem, Working
  <2>2. mQueue' = mQueue /\ mDone' = mDone /\ awaited' = awaited
    BY <1>3 DEF removeWorkItem
  <2> QED
    BY <2>1, <2>2 DEF Items!vars, Running
<1>4. ASSUME signalDone(t)
      PROVE  Items!Finish
  <2>1. Working(t) /\ ~Working(t)' /\ item' = item /\ item[t] # NoItem
    BY <1>1, <1>4 DEF signalDone, Working, IInv, Holding
  <2>2. \A s \in Thread \ {t} : (Working(s)' <=> Working(s)) /\ item[s] # item[t]
    BY <1>1, <1>4, <2>1 DEF signalDone, Working, IInv, EachItemOnce
  <2>3. item[t] \in Running /\ Running' = Running \ {item[t]}
    BY <2>1, <2>2 DEF Running
  <2> QED
    BY <1>4, <2>3 DEF signalDone, Items!Finish, Running
<1>5. ASSUME NotifyAll(t) \/ doWork(t) \/ SpuriousWakeup(t)
      PROVE  UNCHANGED Items!vars
  <2>1. \A s \in Thread : (Working(s)' <=> Working(s)) /\ (Working(s) => item'[s] = item[s])
    BY <1>1, <1>5 DEF NotifyAll, doWork, SpuriousWakeup, Working
  <2>2. Running' = Running
    BY <2>1, RunningSame
  <2> QED
    BY <1>5, <2>2 DEF NotifyAll, doWork, SpuriousWakeup, Items!vars, Running
<1> QED
  BY <1>2, <1>3, <1>4, <1>5

\* The queue, its threads, their locks and wake-ups do what WorkItems promises to
\* those who add items and wait for them.
THEOREM WorkQueueImplements == ItemAssumption /\ Spec => ImplementsWorkItems
<1> SUFFICES ASSUME ItemAssumption
             PROVE  Spec => ImplementsWorkItems
  OBVIOUS
<1>1. Init => IInv
  BY InitIInv
<1>2. IInv /\ [Next]_vars => IInv'
  BY NextIInv
<1>3. IInv /\ [Next]_vars => [Items!Next]_(Items!vars)
  <2> SUFFICES ASSUME IInv, [Next]_vars
               PROVE  Items!Next \/ UNCHANGED Items!vars
    OBVIOUS
  <2>1. ASSUME NEW i \in Item, NEW front \in BOOLEAN, addWorkItem(i, front)
        PROVE  Items!Next
    BY <2>1, MainImplements DEF Items!Next
  <2>2. ASSUME NEW i \in Known, waitTillDone(i)
        PROVE  Items!Next \/ UNCHANGED Items!vars
    <3>1. i \in Item
      BY DEF Known, Held, ToSet, IInv, TypeOK
    <3> QED
      BY <2>2, <3>1, MainImplements DEF Items!Next
  <2>3. CASE CheckDone \/ Release
    BY <2>3, MainImplements DEF Items!Next
  <2>4. ASSUME NEW t \in Thread, Run(t) \/ doWork(t) \/ SpuriousWakeup(t)
        PROVE  Items!Next \/ UNCHANGED Items!vars
    BY <2>4, ThreadImplements DEF Items!Next, Run
  <2>5. CASE UNCHANGED vars
    BY <2>5 DEF vars, Items!vars, Working
  <2> QED
    BY <2>1, <2>2, <2>3, <2>4, <2>5 DEF Next
<1> QED
  BY <1>1, <1>2, <1>3, InitImplements, PTL DEF Spec, ImplementsWorkItems, Items!Spec

-----------------------------------------------------------------------------
(* What users of the queue need: nothing is forgotten before it is done.   *)

Kept == Known \cup mDone

\* An item that is queued, worked on or done stays one of the three until it is
\* added anew or the queue is destroyed (Release).
LEMMA Keeps ==
    ASSUME ItemAssumption, IInv
    PROVE  /\ \A i \in Item, front \in BOOLEAN :
                  addWorkItem(i, front) => Kept \cup {i} \subseteq Kept'
           /\ \A t \in Thread : Run(t) \/ doWork(t) \/ SpuriousWakeup(t) => Kept \subseteq Kept'
           /\ \A i \in Item : waitTillDone(i) => Kept \subseteq Kept'
           /\ CheckDone \/ UNCHANGED vars => Kept \subseteq Kept'
<1>1. ASSUME NEW i \in Item, NEW front \in BOOLEAN, addWorkItem(i, front)
      PROVE  Kept \cup {i} \subseteq Kept'
  <2>1. mQueue \in Seq(Item) /\ Distinct(mQueue) /\ i \notin ToSet(mQueue)
    BY <1>1 DEF addWorkItem, IInv, TypeOK, EachItemOnce, Distinct, Known
  <2>2. ToSet(mQueue') = ToSet(mQueue) \cup {i}
    <3>1. CASE front = TRUE
      <4>1. mQueue' = <<i>> \o mQueue
        BY <1>1, <3>1 DEF addWorkItem
      <4> QED
        BY <2>1, <4>1, PushFront
    <3>2. CASE front = FALSE
      <4>1. mQueue' = Append(mQueue, i)
        BY <1>1, <3>2 DEF addWorkItem
      <4> QED
        BY <2>1, <4>1, PushBack
    <3> QED
      BY <3>1, <3>2
  <2>3. Held' = Held /\ mDone' = mDone \ {i}
    BY <1>1 DEF addWorkItem, Held
  <2> QED
    BY <2>2, <2>3 DEF Kept, Known
<1>2. ASSUME NEW t \in Thread, removeWorkItem(t)
      PROVE  Kept \subseteq Kept'
  <2>1. CASE mQueue = <<>>
    BY <1>2, <2>1 DEF removeWorkItem, Kept, Known, Held
  <2>2. CASE mQueue # <<>>
    <3>1. /\ ToSet(mQueue) = ToSet(mQueue') \cup {Head(mQueue)}
          /\ Head(mQueue) \in Item
      BY <1>2, <2>2, PopFront DEF removeWorkItem, Distinct, IInv, TypeOK, EachItemOnce
    <3>2. item[t] = NoItem /\ item' = [item EXCEPT ![t] = Head(mQueue)] /\ mDone' = mDone
      BY <1>2, <2>2 DEF removeWorkItem, IInv, Holding
    <3>3. item'[t] = Head(mQueue) /\ \A s \in Thread \ {t} : item'[s] = item[s]
      BY <3>2 DEF IInv, TypeOK
    <3>4. Held \cup {Head(mQueue)} \subseteq Held'
      BY <3>1, <3>2, <3>3 DEF Held, ItemAssumption
    <3> QED
      BY <3>1, <3>2, <3>4 DEF Kept, Known
  <2> QED
    BY <2>1, <2>2
<1>3. ASSUME NEW t \in Thread, NotifyAll(t)
      PROVE  Kept \subseteq Kept'
  <2>1. item[t] \in mDone /\ mDone' = mDone /\ mQueue' = mQueue
    BY <1>3 DEF NotifyAll, IInv
  <2>2. \A s \in Thread \ {t} : item'[s] = item[s]
    BY <1>3 DEF NotifyAll, IInv, TypeOK
  <2>3. Held \subseteq Held' \cup {item[t]}
    BY <2>2 DEF Held
  <2> QED
    BY <2>1, <2>3 DEF Kept, Known
<1>4. ASSUME NEW t \in Thread, signalDone(t)
      PROVE  Kept \subseteq Kept'
  BY <1>4 DEF signalDone, Kept, Known, Held
<1>5. ASSUME NEW t \in Thread, doWork(t) \/ SpuriousWakeup(t)
      PROVE  Kept \subseteq Kept'
  BY <1>5 DEF doWork, SpuriousWakeup, Kept, Known, Held
<1>6. ASSUME NEW i \in Item, waitTillDone(i)
      PROVE  Kept \subseteq Kept'
  BY <1>6 DEF waitTillDone, Kept, Known, Held
<1>7. ASSUME CheckDone \/ UNCHANGED vars
      PROVE  Kept \subseteq Kept'
  BY <1>7 DEF CheckDone, vars, Kept, Known, Held
<1> QED
  BY <1>1, <1>2, <1>3, <1>4, <1>5, <1>6, <1>7 DEF Run

-----------------------------------------------------------------------------
(* What the items of the queue have done.                                  *)

\* Items that are done, or all but reported as such.
Worked == mDone \cup { item[t] : t \in { s \in Thread : pc[s] = "signal" } }

\* Adding an item, and the threads: a thread takes nothing it does not do.
LEMMA Works ==
    ASSUME ItemAssumption, IInv
    PROVE  /\ \A i \in Item, front \in BOOLEAN :
                  addWorkItem(i, front) => Worked' \subseteq Worked \ {i} /\ Known \cup {i} \subseteq Known'
           /\ \A t \in Thread : Run(t) => Worked' \subseteq Worked /\ mDone \subseteq mDone'
           /\ \A t \in Thread :
                  doWork(t) => Worked' \subseteq Worked \cup {item[t]} /\ item[t] \in Item /\ mDone' = mDone
<1>1. ASSUME NEW i \in Item, NEW front \in BOOLEAN, addWorkItem(i, front)
      PROVE  Worked' \subseteq Worked \ {i} /\ Known \cup {i} \subseteq Known'
  <2>1. mQueue \in Seq(Item) /\ Distinct(mQueue) /\ i \notin ToSet(mQueue)
    BY <1>1 DEF addWorkItem, IInv, TypeOK, EachItemOnce, Distinct, Known
  <2>2. ToSet(mQueue') = ToSet(mQueue) \cup {i}
    <3>1. CASE front = TRUE
      <4>1. mQueue' = <<i>> \o mQueue
        BY <1>1, <3>1 DEF addWorkItem
      <4> QED
        BY <2>1, <4>1, PushFront
    <3>2. CASE front = FALSE
      <4>1. mQueue' = Append(mQueue, i)
        BY <1>1, <3>2 DEF addWorkItem
      <4> QED
        BY <2>1, <4>1, PushBack
    <3> QED
      BY <3>1, <3>2
  <2>3. item' = item /\ mDone' = mDone \ {i} /\ i \notin Held /\ notify_one
    BY <1>1 DEF addWorkItem, Known
  <2>4. \A t \in Thread : pc'[t] = "signal" => pc[t] = "signal" /\ item[t] # i
    <3>1. \A t \in Thread : pc'[t] = pc[t] \/ (pc[t] = "asleep" /\ pc'[t] = "loop")
      BY <2>3, Notified
    <3>2. \A t \in Thread : item[t] = i => item[t] \in Held
      BY DEF Held, ItemAssumption
    <3> QED
      BY <2>3, <3>1, <3>2
  <2>5. Held' = Held
    BY <2>3 DEF Held
  <2> QED
    BY <2>2, <2>3, <2>4, <2>5 DEF Worked, Known
<1>2. ASSUME NEW t \in Thread, removeWorkItem(t)
      PROVE  Worked' \subseteq Worked /\ mDone \subseteq mDone'
  <2>1. \A s \in Thread : pc'[s] = "signal" => s # t /\ pc[s] = "signal"
    BY <1>2 DEF removeWorkItem, Go, IInv, TypeOK
  <2>2. mDone' = mDone /\ \A s \in Thread : s # t => item'[s] = item[s]
    BY <1>2 DEF removeWorkItem, IInv, TypeOK
  <2> QED
    BY <2>1, <2>2 DEF Worked
<1>3. ASSUME NEW t \in Thread, signalDone(t)
      PROVE  Worked' \subseteq Worked /\ mDone \subseteq mDone'
  <2>1. \A s \in Thread : pc'[s] = "signal" => pc[s] = "signal"
    BY <1>3 DEF signalDone, Go, IInv, TypeOK
  <2> QED
    BY <1>3, <2>1 DEF signalDone, Worked
<1>4. ASSUME NEW t \in Thread, NotifyAll(t)
      PROVE  Worked' \subseteq Worked /\ mDone \subseteq mDone'
  <2>1. \A s \in Thread : pc'[s] = "signal" => s # t /\ pc[s] = "signal"
    BY <1>4 DEF NotifyAll, Go, IInv, TypeOK
  <2>2. mDone' = mDone /\ \A s \in Thread : s # t => item'[s] = item[s]
    BY <1>4 DEF NotifyAll, IInv, TypeOK
  <2> QED
    BY <2>1, <2>2 DEF Worked
<1>5. ASSUME NEW t \in Thread, doWork(t)
      PROVE  Worked' \subseteq Worked \cup {item[t]} /\ item[t] \in Item /\ mDone' = mDone
  <2>1. \A s \in Thread : pc'[s] = "signal" => s = t \/ pc[s] = "signal"
    BY <1>5 DEF doWork, Go, IInv, TypeOK
  <2>2. item[t] \in Item
    BY <1>5 DEF doWork, IInv, TypeOK, Holding
  <2> QED
    BY <1>5, <2>1, <2>2 DEF doWork, Worked
<1> QED
  BY <1>1, <1>2, <1>3, <1>4, <1>5 DEF Run

=============================================================================
