-------------------------- MODULE MergeQueue_proofs ---------------------------
(***************************************************************************)
(* Proofs about the merge queue, for any pull requests, any contents, any  *)
(* limits and whatever the required checks say.                            *)
(***************************************************************************)
EXTENDS MergeQueue, SequenceTheorems, TLAPS

QueueInv == QueueTypeOK /\ OneLine /\ GreenIsTrue /\ MainIsValidated

\* Leaving out one element of a sequence gives a sequence.
LEMMA WithoutIsASequence ==
  ASSUME NEW S, NEW s \in Seq(S), NEW i \in 1..Len(s)
  PROVE  /\ Without(s, i) \in Seq(S) /\ Len(Without(s, i)) = Len(s) - 1
         /\ \A k \in 1..(Len(s) - 1) :
              Without(s, i)[k] = IF k < i THEN s[k] ELSE s[k + 1]
<1>1. Len(s) \in Nat /\ i \in Nat
  OBVIOUS
<1>2. Len(s) - 1 \in Nat
  BY <1>1
<1>3. \A k \in 1..(Len(s) - 1) : k \in DOMAIN s /\ k + 1 \in DOMAIN s
  BY <1>1
<1>4. \A k \in 1..(Len(s) - 1) : (IF k < i THEN s[k] ELSE s[k + 1]) \in S
  BY <1>3
<1>5. Without(s, i) \in [1..(Len(s) - 1) -> S]
  BY <1>4 DEF Without
<1> QED
  BY <1>2, <1>5 DEF Without

\* The commit of the tip continues main with the whole queue.
LEMMA TipType ==
  ASSUME QueueTypeOK, OneLine
  PROVE  /\ Tip \in Seq(PR) /\ Len(Tip) = Len(main) + Len(queue)
         /\ \A k \in DOMAIN main : Tip[k] = main[k]
         /\ \A k \in DOMAIN queue : Tip[Len(main) + k] = queue[k].pr
<1>1. CASE queue = <<>>
  BY <1>1 DEF Tip, QueueTypeOK
<1>2. CASE queue # <<>>
  <2>1. Len(queue) \in DOMAIN queue /\ Tip = queue[Len(queue)].on
    BY <1>2 DEF Tip, QueueTypeOK
  <2>2. queue[Len(queue)] \in Entry
    BY <2>1 DEF QueueTypeOK
  <2>3. DOMAIN queue = 1..Len(queue)
    BY DEF QueueTypeOK
  <2> QED
    BY <2>1, <2>2, <2>3 DEF OneLine, Entry
<1> QED
  BY <1>1, <1>2

\* The checks of a pull request's own head touch neither queue nor main.
LEMMA CheckHeadKeepsInv ==
  ASSUME QueueInv, NEW p \in PR, CheckHead(p)
  PROVE  QueueInv'
<1>1. head' \in [PR -> Heads]
  BY DEF QueueInv, QueueTypeOK, CheckHead, Heads
<1>2. QueueTypeOK'
  BY <1>1 DEF QueueInv, QueueTypeOK, CheckHead
<1> QED
  BY <1>2 DEF QueueInv, CheckHead, OneLine, GreenIsTrue, MainIsValidated, Tree

\* A new entry continues the commit of the tip, and nothing is reported of it yet.
LEMMA EnqueueKeepsInv ==
  ASSUME QueueInv, NEW p \in PR, Enqueue(p)
  PROVE  QueueInv'
<1> DEFINE e == [pr |-> p, on |-> Append(Tip, p), report |-> "pending"]
<1>1. /\ Tip \in Seq(PR) /\ Len(Tip) = Len(main) + Len(queue)
      /\ \A k \in DOMAIN main : Tip[k] = main[k]
      /\ \A k \in DOMAIN queue : Tip[Len(main) + k] = queue[k].pr
  BY TipType DEF QueueInv
<1>2. queue \in Seq(Entry) /\ main \in Seq(PR) /\ e \in Entry
  BY <1>1 DEF QueueInv, QueueTypeOK, Entry
<1>3. /\ queue' = Append(queue, e) /\ UNCHANGED <<content, head, main>>
  BY DEF Enqueue
<1>4. /\ DOMAIN queue' = 1..(Len(queue) + 1) /\ queue'[Len(queue) + 1] = e
      /\ \A i \in DOMAIN queue : queue'[i] = queue[i]
      /\ DOMAIN queue = 1..Len(queue) /\ Len(queue) \in Nat /\ Len(main) \in Nat
  BY <1>2, <1>3
<1>5. QueueTypeOK'
  BY <1>2, <1>3 DEF QueueInv, QueueTypeOK
<1>6. OneLine'
  <2> SUFFICES ASSUME NEW i \in DOMAIN queue'
               PROVE  /\ Len(queue'[i].on) = Len(main) + i
                      /\ \A k \in DOMAIN main : queue'[i].on[k] = main[k]
                      /\ \A k \in 1..i : queue'[i].on[Len(main) + k] = queue'[k].pr
    BY <1>3 DEF OneLine
  <2>1. CASE i \in DOMAIN queue
    <3>1. /\ queue'[i] = queue[i] /\ \A k \in 1..i : queue'[k] = queue[k]
      BY <2>1, <1>4
    <3> QED
      BY <2>1, <3>1 DEF QueueInv, OneLine
  <2>2. CASE i = Len(queue) + 1
    <3>0. queue'[i].on = Append(Tip, p)
      BY <2>2, <1>4
    <3>a. DOMAIN main = 1..Len(main)
      BY <1>2
    <3>b. Len(Append(Tip, p)) = Len(Tip) + 1 /\ Len(Tip) + 1 = Len(main) + i
      BY <2>2, <1>1, <1>4
    <3>1. /\ queue'[i].on = Append(Tip, p) /\ Len(queue'[i].on) = Len(main) + i
          /\ DOMAIN main = 1..Len(main)
      BY <3>0, <3>a, <3>b
    <3>2. \A k \in DOMAIN main : queue'[i].on[k] = main[k]
      BY <3>1, <1>1, <1>4
    <3>3. ASSUME NEW k \in DOMAIN queue
          PROVE  queue'[i].on[Len(main) + k] = queue'[k].pr
      <4>1. Append(Tip, p)[Len(main) + k] = Tip[Len(main) + k]
        BY <1>1, <1>4
      <4> QED
        BY <3>1, <4>1, <1>1, <1>4
    <3>4. queue'[i].on[Len(main) + i] = queue'[i].pr
      BY <3>1, <2>2, <1>1, <1>4
    <3>5. \A k \in 1..i : k \in DOMAIN queue \/ k = i
      BY <2>2, <1>4
    <3> QED
      BY <3>1, <3>2, <3>3, <3>4, <3>5
  <2> QED
    BY <2>1, <2>2, <1>4
<1>7. GreenIsTrue'
  <2> SUFFICES ASSUME NEW i \in DOMAIN queue', queue'[i].report = "green"
               PROVE  Conclusion(Tree(queue[i].on)', "merge_group") = "green"
    BY DEF GreenIsTrue
  <2>1. i \in DOMAIN queue /\ queue'[i] = queue[i]
    BY <1>4
  <2>2. Tree(queue[i].on)' = Tree(queue[i].on)
    BY <2>1, <1>3 DEF Tree
  <2> QED
    BY <2>1, <2>2 DEF QueueInv, GreenIsTrue
<1>8. MainIsValidated'
  BY <1>3 DEF QueueInv, MainIsValidated
<1> QED
  BY <1>5, <1>6, <1>7, <1>8 DEF QueueInv

\* A report is what the required checks said of the entry's own commit.
LEMMA CheckGroupKeepsInv ==
  ASSUME QueueInv, NEW i \in DOMAIN queue, CheckGroup(i)
  PROVE  QueueInv'
<1> DEFINE conclusion == Conclusion(Tree(queue[i].on), "merge_group")
           report == IF conclusion = "green" THEN "green" ELSE "red"
<1>1. queue' = [queue EXCEPT ![i].report = report] /\ UNCHANGED <<content, head, main>>
  BY DEF CheckGroup
<1>2. queue \in Seq(Entry) /\ queue[i] \in Entry
  BY DEF QueueInv, QueueTypeOK
<1>3. /\ DOMAIN queue' = DOMAIN queue
      /\ \A k \in DOMAIN queue : queue'[k].on = queue[k].on /\ queue'[k].pr = queue[k].pr
      /\ \A k \in DOMAIN queue \ {i} : queue'[k] = queue[k]
      /\ queue'[i].report = report
  BY <1>1, <1>2 DEF Entry
<1>4. queue' \in Seq(Entry)
  <2>1. [queue[i] EXCEPT !.report = report] \in Entry
    BY <1>2 DEF Entry
  <2> QED
    BY <2>1, <1>1, <1>2
<1>5. QueueTypeOK'
  BY <1>1, <1>4 DEF QueueInv, QueueTypeOK
<1>6. OneLine'
  <2>1. \A k \in DOMAIN queue : 1..k \subseteq DOMAIN queue
    BY <1>2
  <2> QED
    BY <2>1, <1>1, <1>3 DEF QueueInv, OneLine
<1>7. GreenIsTrue'
  <2> SUFFICES ASSUME NEW k \in DOMAIN queue', queue'[k].report = "green"
               PROVE  Conclusion(Tree(queue[k].on)', "merge_group") = "green"
    BY DEF GreenIsTrue
  <2>1. k \in DOMAIN queue /\ queue'[k].on = queue[k].on
    BY <1>3
  <2>2. Tree(queue[k].on)' = Tree(queue[k].on)
    BY <2>1, <1>1 DEF Tree
  <2>3. CASE k = i
    BY <2>2, <2>3, <1>3
  <2>4. CASE k # i
    BY <2>1, <2>2, <2>4, <1>3 DEF QueueInv, GreenIsTrue
  <2> QED
    BY <2>3, <2>4
<1>8. MainIsValidated'
  BY <1>1 DEF QueueInv, MainIsValidated
<1> QED
  BY <1>5, <1>6, <1>7, <1>8 DEF QueueInv

\* Taking the first n elements off a sequence.
LEMMA FrontIsCut ==
  ASSUME NEW S, NEW s \in Seq(S), NEW n \in 1..Len(s)
  PROVE  /\ SubSeq(s, n + 1, Len(s)) \in Seq(S)
         /\ Len(SubSeq(s, n + 1, Len(s))) = Len(s) - n
         /\ \A i \in 1..(Len(s) - n) : SubSeq(s, n + 1, Len(s))[i] = s[n + i]
<1> DEFINE m == n + 1
           l == Len(s)
           t == SubSeq(s, m, l)
<1>1. /\ m \in Int /\ l \in Int /\ \A i \in m..l : s[i] \in S
      /\ l - m + 1 = l - n /\ (IF m <= l THEN l - m + 1 ELSE 0) = l - n
  OBVIOUS
<1>2. \A i \in 1..(l - n) : m + i - 1 = n + i
  OBVIOUS
<1> HIDE DEF m, l
<1>3. /\ t \in Seq(S) /\ Len(t) = IF m <= l THEN l - m + 1 ELSE 0
      /\ \A i \in 1..(l - m + 1) : t[i] = s[m + i - 1]
  BY <1>1, SubSeqProperties
<1> HIDE DEF t
<1>4. t \in Seq(S) /\ Len(t) = l - n /\ \A i \in 1..(l - n) : t[i] = s[n + i]
  BY <1>1, <1>2, <1>3, Zenon
<1> QED
  BY <1>4 DEF m, l, t

\* The whole group was green, each entry on the commit that main becomes with it.
LEMMA MergeKeepsInv ==
  ASSUME QueueInv, NEW n \in DOMAIN queue, Merge(n)
  PROVE  QueueInv'
<1> DEFINE M == Len(main)
           Q == Len(queue)
<1>1. /\ main' = queue[n].on /\ queue' = SubSeq(queue, n + 1, Q)
      /\ \A i \in 1..n : queue[i].report = "green"
      /\ UNCHANGED <<content, head>>
  BY DEF Merge
<1>2. /\ queue \in Seq(Entry) /\ main \in Seq(PR) /\ Q \in Nat /\ M \in Nat
      /\ n \in 1..Q /\ DOMAIN main = 1..M
      /\ \A i \in 1..Q : queue[i] \in Entry
  BY DEF QueueInv, QueueTypeOK
<1>3. \A i \in 1..Q :
        /\ queue[i].on \in Seq(PR) /\ Len(queue[i].on) = M + i
        /\ \A k \in 1..M : queue[i].on[k] = main[k]
        /\ \A k \in 1..i : queue[i].on[M + k] = queue[k].pr
  <2> SUFFICES ASSUME NEW i \in 1..Q
               PROVE  /\ queue[i].on \in Seq(PR) /\ Len(queue[i].on) = M + i
                      /\ \A k \in 1..M : queue[i].on[k] = main[k]
                      /\ \A k \in 1..i : queue[i].on[M + k] = queue[k].pr
    OBVIOUS
  <2>1. i \in DOMAIN queue
    BY <1>2
  <2>2. queue[i].on \in Seq(PR)
    BY <1>2 DEF Entry
  <2> QED
    BY <2>1, <2>2, <1>2 DEF QueueInv, OneLine
<1>4. main' \in Seq(PR) /\ Len(main') = M + n /\ DOMAIN main' = 1..(M + n)
  BY <1>1, <1>2, <1>3
<1>5. /\ queue' \in Seq(Entry) /\ Len(queue') = Q - n /\ DOMAIN queue' = 1..(Q - n)
      /\ \A i \in 1..(Q - n) : queue'[i] = queue[n + i]
  <2>1. /\ queue' \in Seq(Entry) /\ Len(queue') = Q - n
        /\ \A i \in 1..(Q - n) : queue'[i] = queue[n + i]
    BY <1>1, <1>2, FrontIsCut
  <2>2. DOMAIN queue' = 1..Len(queue')
    BY <2>1
  <2> QED
    BY <2>1, <2>2
<1>6. QueueTypeOK'
  BY <1>1, <1>4, <1>5 DEF QueueInv, QueueTypeOK
<1>7. \A i \in n..Q : \A k \in 1..(M + n) : queue[i].on[k] = main'[k]
  <2> SUFFICES ASSUME NEW i \in n..Q, NEW k \in 1..(M + n)
               PROVE  queue[i].on[k] = main'[k]
    OBVIOUS
  <2>0. i \in 1..Q /\ n \in 1..Q
    BY <1>2
  <2>1. CASE k \in 1..M
    BY <2>0, <2>1, <1>1, <1>3
  <2>2. CASE k \notin 1..M
    <3> DEFINE j == k - M
    <3>1. j \in 1..n /\ j \in 1..i /\ M + j = k /\ i \in 1..Q
      BY <2>2, <1>2
    <3> HIDE DEF j
    <3>2. queue[i].on[M + j] = queue[j].pr /\ queue[n].on[M + j] = queue[j].pr
      BY <3>1, <2>0, <1>3
    <3> QED
      BY <3>1, <3>2, <1>1
  <2> QED
    BY <2>1, <2>2
<1>8. OneLine'
  <2>0. Len(main') = M + n /\ DOMAIN main' = 1..(M + n) /\ DOMAIN queue' = 1..(Q - n)
    BY <1>4, <1>5
  <2> HIDE DEF M, Q
  <2> SUFFICES ASSUME NEW i \in 1..(Q - n)
               PROVE  /\ Len(queue'[i].on) = M + n + i
                      /\ \A k \in 1..(M + n) : queue'[i].on[k] = main'[k]
                      /\ \A k \in 1..i : queue'[i].on[M + n + k] = queue'[k].pr
    BY <2>0 DEF OneLine
  <2>1. n + i \in n..Q /\ n + i \in 1..Q /\ queue'[i] = queue[n + i]
    BY <1>2, <1>5
  <2>2. Len(queue'[i].on) = M + n + i
    <3>1. Len(queue[n + i].on) = M + (n + i)
      BY <2>1, <1>3
    <3>2. M + (n + i) = M + n + i
      BY <1>2
    <3> QED
      BY <3>1, <3>2, <2>1
  <2>3. \A k \in 1..i : queue'[i].on[M + n + k] = queue'[k].pr
    <3> SUFFICES ASSUME NEW k \in 1..i
                 PROVE  queue'[i].on[M + n + k] = queue'[k].pr
      OBVIOUS
    <3>1. n + k \in 1..(n + i) /\ k \in 1..(Q - n) /\ M + (n + k) = M + n + k
      BY <1>2
    <3>2. queue[n + i].on[M + (n + k)] = queue[n + k].pr
      BY <3>1, <2>1, <1>3
    <3>3. queue'[k] = queue[n + k]
      BY <3>1, <1>5
    <3> QED
      BY <3>1, <3>2, <3>3, <2>1
  <2> QED
    BY <2>1, <2>2, <2>3, <1>7
<1>9. GreenIsTrue'
  <2> SUFFICES ASSUME NEW i \in 1..(Q - n), queue'[i].report = "green"
               PROVE  Conclusion(Tree(queue[i].on)', "merge_group") = "green"
    BY <1>5 DEF GreenIsTrue
  <2>1. n + i \in DOMAIN queue /\ queue'[i] = queue[n + i]
    BY <1>2, <1>5
  <2>2. Tree(queue[i].on)' = Tree(queue[n + i].on)
    BY <2>1, <1>1 DEF Tree
  <2> QED
    BY <2>1, <2>2 DEF QueueInv, GreenIsTrue
<1>10. MainIsValidated'
  <2>0. DOMAIN main' = 1..(M + n) /\ content' = content
    BY <1>1, <1>4
  <2> SUFFICES ASSUME NEW m \in 1..(M + n)
               PROVE  Conclusion({content[main'[i]] : i \in 1..m}, "merge_group") = "green"
    BY <2>0 DEF MainIsValidated
  <2>1. CASE m \in 1..M
    <3>1. ASSUME NEW i \in 1..m PROVE main'[i] = main[i]
      <4>1. i \in 1..M
        BY <2>1, <1>2
      <4>2. queue[n].on[i] = main[i]
        BY <4>1, <1>2, <1>3
      <4> QED
        BY <4>2, <1>1
    <3>2. {content[main'[i]] : i \in 1..m} = {content[main[i]] : i \in 1..m}
      BY <3>1
    <3> QED
      BY <3>2, <2>1, <1>2 DEF QueueInv, MainIsValidated
  <2>2. CASE m \notin 1..M
    <3> DEFINE k == m - M
    <3>1. k \in 1..n /\ k \in 1..Q /\ m = M + k
      BY <2>2, <1>2
    <3>2. queue[k].on \in Seq(PR) /\ Len(queue[k].on) = m /\ DOMAIN queue[k].on = 1..m
      BY <3>1, <1>3
    <3>3. \A i \in 1..m : queue[k].on[i] = main'[i]
      <4> SUFFICES ASSUME NEW i \in 1..m
                   PROVE  queue[k].on[i] = queue[n].on[i]
        BY <1>1
      <4>1. CASE i \in 1..M
        BY <4>1, <3>1, <1>2, <1>3
      <4>2. CASE i \notin 1..M
        <5> DEFINE j == i - M
        <5>1. j \in 1..k /\ j \in 1..n /\ M + j = i
          BY <4>2, <3>1, <1>2
        <5> HIDE DEF k, j
        <5>2. queue[k].on[M + j] = queue[j].pr
          BY <5>1, <3>1, <1>3
        <5>3. queue[n].on[M + j] = queue[j].pr
          BY <5>1, <1>2, <1>3
        <5> QED
          BY <5>1, <5>2, <5>3
      <4> QED
        BY <4>1, <4>2
    <3>4. Tree(queue[k].on) = {content[main'[i]] : i \in 1..m}
      BY <3>2, <3>3 DEF Tree
    <3>5. Conclusion(Tree(queue[k].on), "merge_group") = "green"
      <4>1. DOMAIN queue = 1..Q
        BY <1>2
      <4> HIDE DEF k, Q
      <4>2. k \in DOMAIN queue /\ queue[k].report = "green"
        BY <3>1, <4>1, <1>1
      <4> QED
        BY <4>2 DEF QueueInv, GreenIsTrue
    <3> QED
      BY <3>4, <3>5
  <2> QED
    BY <2>1, <2>2
<1> QED
  BY <1>6, <1>8, <1>9, <1>10 DEF QueueInv

\* Whoever leaves, the commits behind are those of a queue without it.
LEMMA LeaveKeepsInv ==
  ASSUME QueueInv, NEW i \in DOMAIN queue,
         queue' = Rebuilt(i), UNCHANGED <<content, head, main>>
  PROVE  QueueInv'
<1> DEFINE M == Len(main)
           Q == Len(queue)
<1>1. /\ queue \in Seq(Entry) /\ main \in Seq(PR) /\ Q \in Nat /\ M \in Nat
      /\ i \in 1..Q /\ DOMAIN main = 1..M /\ Q - 1 \in Nat
      /\ \A k \in 1..Q : queue[k] \in Entry
  BY DEF QueueInv, QueueTypeOK
<1>2. \A k \in 1..Q :
        /\ queue[k].on \in Seq(PR) /\ Len(queue[k].on) = M + k
        /\ \A m \in 1..M : queue[k].on[m] = main[m]
        /\ \A m \in 1..k : queue[k].on[M + m] = queue[m].pr
  <2> SUFFICES ASSUME NEW k \in 1..Q
               PROVE  /\ queue[k].on \in Seq(PR) /\ Len(queue[k].on) = M + k
                      /\ \A m \in 1..M : queue[k].on[m] = main[m]
                      /\ \A m \in 1..k : queue[k].on[M + m] = queue[m].pr
    OBVIOUS
  <2>1. k \in DOMAIN queue
    BY <1>1
  <2>2. queue[k].on \in Seq(PR)
    BY <1>1 DEF Entry
  <2> QED
    BY <2>1, <2>2, <1>1 DEF QueueInv, OneLine
<1> DEFINE on(k) == Without(queue[k + 1].on, M + i)
<1>3. \A k \in i..(Q - 1) :
        /\ on(k) \in Seq(PR) /\ Len(on(k)) = M + k
        /\ \A m \in 1..(M + k) :
             on(k)[m] = IF m < M + i THEN queue[k + 1].on[m] ELSE queue[k + 1].on[m + 1]
  <2> SUFFICES ASSUME NEW k \in i..(Q - 1)
               PROVE  /\ on(k) \in Seq(PR) /\ Len(on(k)) = M + k
                      /\ \A m \in 1..(M + k) :
                           on(k)[m] = IF m < M + i THEN queue[k + 1].on[m]
                                      ELSE queue[k + 1].on[m + 1]
    OBVIOUS
  <2>1. k + 1 \in 1..Q /\ k \in Nat
    BY <1>1
  <2>2. queue[k + 1].on \in Seq(PR) /\ Len(queue[k + 1].on) = M + (k + 1)
    BY <2>1, <1>2
  <2>3. M + i \in 1..Len(queue[k + 1].on) /\ Len(queue[k + 1].on) - 1 = M + k
    BY <2>1, <2>2, <1>1
  <2> QED
    BY <2>2, <2>3, WithoutIsASequence
<1>4. /\ DOMAIN queue' = 1..(Q - 1)
      /\ \A k \in 1..(Q - 1) : k < i => queue'[k] = queue[k]
      /\ \A k \in 1..(Q - 1) : ~(k < i) =>
           queue'[k] = [queue[k + 1] EXCEPT !.on = on(k), !.report = "pending"]
  BY DEF Rebuilt
<1>5. \A k \in i..(Q - 1) :
        /\ queue'[k] \in Entry /\ queue'[k].on = on(k)
        /\ queue'[k].pr = queue[k + 1].pr /\ queue'[k].report = "pending"
  <2> SUFFICES ASSUME NEW k \in i..(Q - 1)
               PROVE  /\ queue'[k] \in Entry /\ queue'[k].on = on(k)
                      /\ queue'[k].pr = queue[k + 1].pr /\ queue'[k].report = "pending"
    OBVIOUS
  <2>1. k \in 1..(Q - 1) /\ ~(k < i) /\ k + 1 \in 1..Q
    BY <1>1
  <2>2. queue[k + 1] \in Entry /\ on(k) \in Seq(PR)
    BY <2>1, <1>1, <1>3
  <2>3. queue'[k] = [queue[k + 1] EXCEPT !.on = on(k), !.report = "pending"]
    BY <2>1, <1>4
  <2> HIDE DEF on
  <2> QED
    BY <2>2, <2>3 DEF Entry
<1> HIDE DEF on
<1>a. \A k \in 1..(Q - 1) :
        k \in 1..Q /\ k + 1 \in 1..Q /\ (~(k < i) => k \in i..(Q - 1))
  BY <1>1
<1>b. \A k \in 1..(Q - 1) : k < i => queue'[k] = queue[k]
  BY <1>4
<1> HIDE DEF M, Q
<1>6. \A k \in 1..(Q - 1) : queue'[k] \in Entry
  <2> SUFFICES ASSUME NEW k \in 1..(Q - 1)
               PROVE  queue'[k] \in Entry
    OBVIOUS
  <2>1. CASE k < i
    BY <2>1, <1>1, <1>a, <1>b
  <2>2. CASE ~(k < i)
    BY <2>2, <1>a, <1>5
  <2> QED
    BY <2>1, <2>2
<1>7. queue' \in Seq(Entry) /\ Len(queue') = Q - 1
  <2>1. queue' \in [1..(Q - 1) -> Entry]
    BY <1>6 DEF Rebuilt, Q
  <2> QED
    BY <2>1, <1>1
<1>8. QueueTypeOK'
  BY <1>7 DEF QueueInv, QueueTypeOK
<1>9. \A k \in 1..(Q - 1) : queue'[k].pr = IF k < i THEN queue[k].pr ELSE queue[k + 1].pr
  BY <1>a, <1>b, <1>5
<1>10. OneLine'
  <2> SUFFICES ASSUME NEW k \in 1..(Q - 1)
               PROVE  /\ Len(queue'[k].on) = M + k
                      /\ \A m \in 1..M : queue'[k].on[m] = main[m]
                      /\ \A m \in 1..k : queue'[k].on[M + m] = queue'[m].pr
    <3>1. Len(main') = M /\ main' = main
      BY DEF M
    <3>2. DOMAIN main' = 1..M /\ DOMAIN queue' = 1..(Q - 1)
      BY <3>1, <1>1, <1>4
    <3> QED
      BY <3>1, <3>2 DEF OneLine
  <2>1. CASE k < i
    <3>0. \A m \in 1..k : m \in 1..(Q - 1) /\ m < i
      BY <2>1, <1>1
    <3>1. k \in 1..Q /\ queue'[k] = queue[k] /\ \A m \in 1..k : queue'[m].pr = queue[m].pr
      BY <3>0, <2>1, <1>a, <1>b, <1>9
    <3> QED
      BY <3>1, <1>2
  <2>2. CASE ~(k < i)
    <3>1. /\ k \in i..(Q - 1) /\ queue'[k].on = on(k) /\ k + 1 \in 1..Q
          /\ Len(on(k)) = M + k
          /\ \A m \in 1..(M + k) :
               on(k)[m] = IF m < M + i THEN queue[k + 1].on[m] ELSE queue[k + 1].on[m + 1]
      BY <2>2, <1>1, <1>3, <1>5
    <3> HIDE DEF on
    <3>2. \A m \in 1..M : queue'[k].on[m] = main[m]
      <4> SUFFICES ASSUME NEW m \in 1..M
                   PROVE  on(k)[m] = main[m]
        BY <3>1
      <4>1. m \in 1..(M + k) /\ m < M + i
        BY <3>1, <1>1
      <4> QED
        BY <4>1, <3>1, <1>2
    <3>3. \A m \in 1..k : queue'[k].on[M + m] = queue'[m].pr
      <4> SUFFICES ASSUME NEW m \in 1..k
                   PROVE  on(k)[M + m] = queue'[m].pr
        BY <3>1
      <4>1. /\ M + m \in 1..(M + k) /\ m \in 1..(Q - 1) /\ m \in 1..(k + 1)
            /\ m + 1 \in 1..(k + 1) /\ (M + m) + 1 = M + (m + 1)
            /\ (M + m < M + i <=> m < i)
        BY <3>1, <1>1
      <4>2. CASE m < i
        BY <4>1, <4>2, <3>1, <1>2, <1>9
      <4>3. CASE ~(m < i)
        BY <4>1, <4>3, <3>1, <1>2, <1>9
      <4> QED
        BY <4>2, <4>3
    <3> QED
      BY <3>1, <3>2, <3>3
  <2> QED
    BY <2>1, <2>2
<1>11. GreenIsTrue'
  <2> SUFFICES ASSUME NEW k \in 1..(Q - 1), queue'[k].report = "green"
               PROVE  Conclusion(Tree(queue[k].on)', "merge_group") = "green"
    BY <1>4 DEF GreenIsTrue
  <2>1. k < i
    BY <1>a, <1>5
  <2>2. k \in DOMAIN queue /\ queue'[k] = queue[k]
    BY <2>1, <1>1, <1>a, <1>b DEF Q
  <2>3. Tree(queue[k].on)' = Tree(queue[k].on)
    BY <2>2 DEF Tree
  <2> QED
    BY <2>2, <2>3 DEF QueueInv, GreenIsTrue
<1>12. MainIsValidated'
  BY DEF QueueInv, MainIsValidated
<1> QED
  BY <1>8, <1>10, <1>11, <1>12 DEF QueueInv

\* The inductive invariant: the queue is one line of commits that starts at
\* main, and green is what the checks said of the commit as it is now.
LEMMA QueueInvariance == QueueSpec => []QueueInv
<1>1. QueueInit => QueueInv
  <2> SUFFICES ASSUME QueueInit
               PROVE  QueueInv
    OBVIOUS
  <2>1. QueueTypeOK
    BY DEF QueueInit, QueueTypeOK, Heads
  <2>2. DOMAIN queue = {} /\ DOMAIN main = {}
    BY DEF QueueInit
  <2> QED
    BY <2>1, <2>2 DEF QueueInv, OneLine, GreenIsTrue, MainIsValidated
<1>2. QueueInv /\ [QueueNext]_queueVars => QueueInv'
  <2> SUFFICES ASSUME QueueInv, [QueueNext]_queueVars
               PROVE  QueueInv'
    OBVIOUS
  <2>1. ASSUME NEW p \in PR, CheckHead(p)
        PROVE  QueueInv'
    BY <2>1, CheckHeadKeepsInv
  <2>2. ASSUME NEW p \in PR, Enqueue(p)
        PROVE  QueueInv'
    BY <2>2, EnqueueKeepsInv
  <2>3. ASSUME NEW i \in DOMAIN queue, CheckGroup(i)
        PROVE  QueueInv'
    BY <2>3, CheckGroupKeepsInv
  <2>4. ASSUME NEW i \in DOMAIN queue, Merge(i)
        PROVE  QueueInv'
    BY <2>4, MergeKeepsInv
  <2>5. ASSUME NEW i \in DOMAIN queue, Fail(i) \/ TimeOut(i)
        PROVE  QueueInv'
    BY <2>5, LeaveKeepsInv DEF Fail, TimeOut
  <2>6. CASE UNCHANGED queueVars
    <3>1. QueueTypeOK' /\ OneLine'
      BY <2>6 DEF queueVars, QueueInv, QueueTypeOK, OneLine
    <3>2. GreenIsTrue'
      BY <2>6 DEF queueVars, QueueInv, GreenIsTrue, Tree
    <3>3. MainIsValidated'
      BY <2>6 DEF queueVars, QueueInv, MainIsValidated
    <3> QED
      BY <3>1, <3>2, <3>3 DEF QueueInv
  <2> QED
    BY <2>1, <2>2, <2>3, <2>4, <2>5, <2>6 DEF QueueNext
<1> QED
  BY <1>1, <1>2, PTL DEF QueueSpec
===============================================================================
