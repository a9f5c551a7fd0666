------------------------ MODULE WriteExecutorsProofs ------------------------
(***************************************************************************)
(* Proofs that no edit overwrites another it was not based on, that no     *)
(* answer lies about the file and that no executor is lost, for any set of *)
(* requests and any number of sessions and executors.                      *)
(***************************************************************************)
EXTENDS WriteExecutors, SequenceTheorems, WellFoundedInduction, TLAPS

(* What is true of queues Q, requests R and executors E while the file has *)
(* taken the contents L.                                                   *)

\* A queued edit is its session's, waits for an executor of that session, and
\* has no answer unless it was given up.
QueuedOwned(Q, R, E) ==
    \A s \in Sessions : \A i \in DOMAIN Q[s] :
        LET r == R[Q[s][i]]
        IN  /\ r.sess = s /\ r.exec \in Executors /\ E[r.exec].sess = s
            /\ \/ r.pc = "submitted" /\ r.answer = "none"
               \/ r.pc = "answered" /\ r.answer = "uncertain"

QueuedOnce(Q) ==
    \A s \in Sessions : \A i, j \in DOMAIN Q[s] : Q[s][i] = Q[s][j] => i = j

\* An executor works only on the edit at the head of its session's queue.
WorkAtHead(Q, R, E) ==
    \A e \in Executors :
        E[e].work # "none" =>
            /\ E[e].sess \in Sessions /\ E[e].job \in Requests
            /\ 1 \in DOMAIN Q[E[e].sess] /\ Q[E[e].sess][1] = E[e].job
            /\ R[E[e].job].exec = e

TailUnlanded(Q, L) ==
    \A s \in Sessions : \A i \in DOMAIN Q[s] : i > 1 => Q[s][i] \notin L

Queues(Q, R, E, L) ==
    /\ QueuedOwned(Q, R, E)
    /\ QueuedOnce(Q)
    /\ WorkAtHead(Q, R, E)
    /\ TailUnlanded(Q, L)

\* How far the work is tells whether its contents reached the file.
WorkFits(E, L) ==
    \A e \in Executors :
        /\ E[e].work \in {"sent", "validated"} => E[e].job \notin L
        /\ E[e].work = "landed" => E[e].job \in L
        /\ E[e].work = "replied" =>
             /\ E[e].reply = "committed" => E[e].job \in L
             /\ E[e].reply = "rejected" => E[e].job \notin L
        /\ E[e].pc = "booting" => E[e].work \in {"none", "sent"}

\* A request that has not reached the queue wrote nothing, and the executor a
\* request was given is its session's.
NotQueuedYet(R, E, L) ==
    \A r \in Requests :
        /\ R[r].pc \in {"idle", "planning", "booting"} => r \notin L /\ R[r].answer = "none"
        /\ R[r].pc \in {"planning", "booting", "submitted"} => R[r].sess \in Sessions
        /\ R[r].pc \in {"booting", "submitted"} =>
             R[r].exec \in Executors /\ E[R[r].exec].sess = R[r].sess

TableOwned(E, T) ==
    /\ \A s \in Sessions : T[s] # 0 => E[T[s]].sess = s
    /\ \A e \in Executors :
          IF E[e].pc = "unforked" THEN E[e] = UnforkedExecutor ELSE E[e].sess \in Sessions

\* Only the holder of the lease serves, and between its recheck and its rename
\* only a foreign write can get in.
ServingHolds(R, E, l, d) ==
    \A e \in Executors : E[e].pc = "serving" =>
        /\ l = e
        /\ E[e].work = "validated" => d = R[E[e].job].base \/ d \in Foreign

\* HonestAnswers and NoStrandedExecutor.
Honest(R, L) ==
    \A r \in Requests :
        /\ R[r].answer = "committed" => r \in L
        /\ R[r].answer \in {"conflict", "draining"} => r \notin L
Tracked(E, T) ==
    \A e \in Executors :
        E[e].pc \in {"booting", "serving"} => T[E[e].sess] = e \/ E[e].stop \/ E[e].kill

Others(R, E, T, l, d, L) ==
    /\ NotQueuedYet(R, E, L)
    /\ TableOwned(E, T)
    /\ ServingHolds(R, E, l, d)
    /\ Honest(R, L)
    /\ Tracked(E, T)

IInv ==
    /\ TypeOK
    /\ Queues(queue, req, ex, landed)
    /\ WorkFits(ex, landed)
    /\ Others(req, ex, tableEntry, lease, disk, landed)

-----------------------------------------------------------------------------
(* The pump.                                                               *)

LEMMA LeastOfNats ==
    ASSUME NEW T, T \subseteq Nat, T # {}
    PROVE  \E x \in T : \A y \in T : x <= y
<1>1. PICK x \in T : \A y \in T : ~(<<y, x>> \in OpToRel(<, Nat))
  BY NatLessThanWellFounded, WFMin
<1>2. \A y \in T : x <= y
  <2> TAKE y \in T
  <2>1. x \in Nat /\ y \in Nat
    OBVIOUS
  <2>2. ~(y < x)
    BY <1>1, <2>1 DEF OpToRel
  <2> QED BY <2>1, <2>2
<1> QED
  BY <1>2

\* The place pump() starts from, if any of the places T is one.
LEMMA LeastOrNext ==
    ASSUME NEW n \in Nat, NEW T, T \subseteq 1 .. n
    PROVE  LET h == IF T = {} THEN n + 1 ELSE CHOOSE i \in T : \A j \in T : i <= j
           IN  h \in 1 .. (n + 1) /\ (T = {} <=> h = n + 1)
<1>1. CASE T = {}
  BY <1>1
<1>2. CASE T # {}
  <2>1. T \subseteq Nat
    OBVIOUS
  <2>2. PICK i \in T : \A j \in T : i <= j
    BY <1>2, <2>1, LeastOfNats
  <2>3. (CHOOSE k \in T : \A j \in T : k <= j) \in T
    BY <2>2
  <2> DEFINE h == IF T = {} THEN n + 1 ELSE CHOOSE k \in T : \A j \in T : k <= j
  <2>4. h \in T
    BY <1>2, <2>3
  <2> HIDE DEF h
  <2>5. h \in 1 .. (n + 1) /\ h # n + 1
    BY <2>4
  <2> QED BY <1>2, <2>5 DEF h
<1> QED BY <1>1, <1>2

\* What a settled or given up request has become, seen from the pump.
Same(r1, r2) ==
    \/ r2 = r1
    \/ r1.pc = "submitted" /\ r2 = [r1 EXCEPT !.pc = "answered", !.answer = "uncertain"]

\* The pump of queue q of session s, over requests R and executors E, turned
\* queues Q into Q2, requests into R2 and executors into E2: it dropped the
\* edits before place h and dispatched the one there, if there is one.
Pumped(s, q, R, E, Q, Q2, R2, E2) ==
    \E h \in 1 .. (Len(q) + 1) :
        /\ Q2 = [Q EXCEPT ![s] = SubSeq(q, h, Len(q))]
        /\ E2 = IF h = Len(q) + 1 THEN E
                ELSE [E EXCEPT ![R[q[h]].exec].job = q[h],
                               ![R[q[h]].exec].work = "sent"]
        /\ R2 \in [Requests -> Request]
        /\ \A r \in Requests : Same(R[r], R2[r])

\* pump() drops the edits whose handle refuses them and dispatches the next one,
\* if there is one, to its executor.
LEMMA PumpDispatches ==
    ASSUME NEW s \in Sessions, NEW q \in Seq(Requests),
           NEW R \in [Requests -> Request], NEW E \in [Executors -> Executor],
           Pump(s, q, R, E)
    PROVE  Pumped(s, q, R, E, queue, queue', req', ex')
<1> DEFINE runnable == {i \in DOMAIN q : Executes(E[R[q[i]].exec])}
           head == IF runnable = {} THEN Len(q) + 1
                   ELSE CHOOSE i \in runnable : \A j \in runnable : i <= j
           refused == {q[i] : i \in 1 .. (head - 1)}
<1>1. Len(q) \in Nat /\ DOMAIN q = 1 .. Len(q)
  BY LenProperties
<1>2. runnable \subseteq 1 .. Len(q)
  BY <1>1
<1>3. head \in 1 .. (Len(q) + 1) /\ (runnable = {} <=> head = Len(q) + 1)
  <2> HIDE DEF runnable
  <2> QED
    BY <1>1, <1>2, LeastOrNext
<1>4. /\ queue' = [queue EXCEPT ![s] = SubSeq(q, head, Len(q))]
      /\ ex' = IF runnable = {} THEN E
               ELSE [E EXCEPT ![R[q[head]].exec].job = q[head],
                              ![R[q[head]].exec].work = "sent"]
      /\ req' = [r \in Requests |->
                    IF r \in refused THEN Answered(R, r, AnswerFor("failed"))[r] ELSE R[r]]
  BY DEF Pump
<1>5. AnswerFor("failed") = "uncertain"
  BY DEF AnswerFor
<1>6. \A r \in Requests : req'[r] \in Request /\ Same(R[r], req'[r])
  <2> TAKE r \in Requests
  <2>1. R[r] \in Request
    OBVIOUS
  <2>2. req'[r] = IF r \in refused /\ R[r].pc = "submitted"
                  THEN [R[r] EXCEPT !.pc = "answered", !.answer = "uncertain"]
                  ELSE R[r]
    BY <1>4, <1>5 DEF Answered
  <2>3. [R[r] EXCEPT !.pc = "answered", !.answer = "uncertain"] \in Request
    BY <2>1 DEF Request, Answers
  <2> QED
    BY <2>1, <2>2, <2>3 DEF Same
<1>7. req' \in [Requests -> Request]
  BY <1>4, <1>6
<1> HIDE DEF head, runnable, refused
<1>8. ex' = IF head = Len(q) + 1 THEN E
            ELSE [E EXCEPT ![R[q[head]].exec].job = q[head],
                           ![R[q[head]].exec].work = "sent"]
  BY <1>3, <1>4
<1> QED
  BY <1>3, <1>4, <1>6, <1>7, <1>8 DEF Pumped


\* A handle stays the one it was, except for the operation it works on.
SameHandle(e1, e2) ==
    /\ e2.sess = e1.sess /\ e2.pc = e1.pc /\ e2.ready = e1.ready
    /\ e2.stop = e1.stop /\ e2.kill = e1.kill
    /\ e2.work = "sent" \/ (e2.work = e1.work /\ e2.job = e1.job /\ e2.reply = e1.reply)

\* The pump runs a session whose queue was set to q: none of its edits reached
\* the file and none of its executors has an operation under way.
Runs(s, q, R, E, Q0, Q, L, Q2, R2, E2) ==
    /\ s \in Sessions /\ q \in Seq(Requests)
    /\ R \in [Requests -> Request] /\ E \in [Executors -> Executor]
    /\ Q0 \in [Sessions -> Seq(Requests)] /\ Q \in [Sessions -> Seq(Requests)]
    /\ Q[s] = q /\ \A t \in Sessions : t # s => Q[t] = Q0[t]
    /\ Queues(Q, R, E, L) /\ WorkFits(E, L)
    /\ \A e \in Executors : E[e].sess = s => E[e].work = "none"
    /\ \A i \in DOMAIN q : q[i] \notin L
    /\ Pumped(s, q, R, E, Q0, Q2, R2, E2)

LEMMA PumpKeepsQueues ==
    ASSUME NEW s, NEW q, NEW R, NEW E, NEW Q0, NEW Q, NEW L, NEW Q2, NEW R2, NEW E2,
           Runs(s, q, R, E, Q0, Q, L, Q2, R2, E2)
    PROVE  /\ Q2 \in [Sessions -> Seq(Requests)]
           /\ E2 \in [Executors -> Executor]
           /\ R2 \in [Requests -> Request]
           /\ Queues(Q2, R2, E2, L)
           /\ WorkFits(E2, L)
           /\ \A r \in Requests : Same(R[r], R2[r])
           /\ \A e \in Executors :
                 SameHandle(E[e], E2[e]) /\ (E2[e] # E[e] => E[e].sess = s)
<1>0. /\ s \in Sessions /\ q \in Seq(Requests)
      /\ R \in [Requests -> Request] /\ E \in [Executors -> Executor]
      /\ Q0 \in [Sessions -> Seq(Requests)] /\ Q \in [Sessions -> Seq(Requests)]
      /\ Q[s] = q /\ \A t \in Sessions : t # s => Q[t] = Q0[t]
      /\ Queues(Q, R, E, L) /\ WorkFits(E, L)
      /\ \A e \in Executors : E[e].sess = s => E[e].work = "none"
      /\ \A i \in DOMAIN q : q[i] \notin L
      /\ Pumped(s, q, R, E, Q0, Q2, R2, E2)
  BY DEF Runs
<1> USE <1>0
<1>1. PICK h \in 1 .. (Len(q) + 1) :
        /\ Q2 = [Q0 EXCEPT ![s] = SubSeq(q, h, Len(q))]
        /\ E2 = IF h = Len(q) + 1 THEN E
                 ELSE [E EXCEPT ![R[q[h]].exec].job = q[h],
                                ![R[q[h]].exec].work = "sent"]
        /\ R2 \in [Requests -> Request]
        /\ \A r \in Requests : Same(R[r], R2[r])
  BY DEF Pumped
<1> DEFINE n == Len(q)
           rest == SubSeq(q, h, n)
           d == R[q[h]].exec
<1>2. n \in Nat /\ DOMAIN q = 1 .. n /\ \A i \in 1 .. n : q[i] \in Requests
  BY LenProperties, ElementOfSeq
<1>3. /\ rest \in Seq(Requests)
      /\ DOMAIN rest = 1 .. (n - h + 1)
      /\ \A i \in 1 .. (n - h + 1) : rest[i] = q[h + i - 1] /\ h + i - 1 \in 1 .. n
  <2>1. \A i \in h .. n : q[i] \in Requests
    BY <1>2
  <2>2. /\ rest \in Seq(Requests)
        /\ Len(rest) = IF h <= n THEN n - h + 1 ELSE 0
        /\ \A i \in 1 .. n - h + 1 : rest[i] = q[h + i - 1]
    BY <1>2, <2>1, SubSeqProperties
  <2>3. Len(rest) = n - h + 1
    BY <1>2, <2>2
  <2>4. DOMAIN rest = 1 .. Len(rest)
    BY <2>2, LenProperties
  <2>5. \A i \in 1 .. (n - h + 1) : h + i - 1 \in 1 .. n
    BY <1>2
  <2> QED BY <2>2, <2>3, <2>4, <2>5
<1> HIDE DEF n, rest
<1>4. /\ Q2 = [Q0 EXCEPT ![s] = rest]
      /\ Q2 \in [Sessions -> Seq(Requests)]
      /\ \A t \in Sessions : t # s => Q2[t] = Q[t]
      /\ Q2[s] = rest /\ Q[s] = q
  BY <1>1, <1>3 DEF rest, n
<1>5. \A i \in 1 .. n : /\ R[q[i]].sess = s /\ R[q[i]].exec \in Executors
                        /\ E[R[q[i]].exec].sess = s
                        /\ \/ R[q[i]].pc = "submitted" /\ R[q[i]].answer = "none"
                           \/ R[q[i]].pc = "answered" /\ R[q[i]].answer = "uncertain"
  <2> TAKE i \in 1 .. n
  <2>1. i \in DOMAIN Q[s] /\ Q[s][i] = q[i]
    BY <1>2, <1>4
  <2>2. QueuedOwned(Q, R, E)
    BY DEF Queues
  <2> QED BY <2>1, <2>2 DEF QueuedOwned
<1>6. /\ E2 \in [Executors -> Executor]
      /\ \A e \in Executors :
            IF h # n + 1 /\ e = d
            THEN E2[e] = [E[e] EXCEPT !.job = q[h], !.work = "sent"]
            ELSE E2[e] = E[e]
  <2>1. CASE h = n + 1
    BY <1>1, <2>1 DEF n
  <2>2. CASE h # n + 1
    <3>1. h \in 1 .. n
      BY <1>2, <2>2 DEF n
    <3>2. d \in Executors /\ q[h] \in Requests
      BY <1>2, <1>5, <3>1
    <3>3. E[d] \in Executor
      BY <3>2
    <3>4. [E[d] EXCEPT !.job = q[h], !.work = "sent"] \in Executor
      BY <3>2, <3>3 DEF Executor, Work
    <3>5. E2 = [E EXCEPT ![d] = [E[d] EXCEPT !.job = q[h], !.work = "sent"]]
      BY <1>1, <2>2, <3>2 DEF n
    <3> QED BY <2>2, <3>2, <3>4, <3>5
  <2> QED BY <2>1, <2>2
<1>7. h # n + 1 => h \in 1 .. n /\ d \in Executors /\ E[d].sess = s /\ q[h] \in Requests
  BY <1>2, <1>5 DEF n
<1>8. \A e \in Executors :
        SameHandle(E[e], E2[e]) /\ (E2[e] # E[e] => E[e].sess = s)
  <2> TAKE e \in Executors
  <2>1. E[e] \in Executor
    OBVIOUS
  <2>2. CASE h # n + 1 /\ e = d
    <3>1. E2[e] = [E[e] EXCEPT !.job = q[h], !.work = "sent"] /\ E[e].sess = s
      BY <1>6, <1>7, <2>2
    <3> QED BY <2>1, <3>1 DEF SameHandle, Executor
  <2>3. CASE ~(h # n + 1 /\ e = d)
    BY <1>6, <2>3 DEF SameHandle
  <2> QED BY <2>2, <2>3
<1>9. QueuedOwned(Q2, R2, E2)
  <2> SUFFICES ASSUME NEW t \in Sessions, NEW i \in DOMAIN Q2[t]
               PROVE  LET r == R2[Q2[t][i]]
                      IN  /\ r.sess = t /\ r.exec \in Executors /\ E2[r.exec].sess = t
                          /\ \/ r.pc = "submitted" /\ r.answer = "none"
                             \/ r.pc = "answered" /\ r.answer = "uncertain"
    BY DEF QueuedOwned
  <2>1. PICK j \in DOMAIN Q[t] : Q[t][j] = Q2[t][i]
    <3>1. CASE t # s
      BY <1>4, <3>1
    <3>2. CASE t = s
      <4>1. h + i - 1 \in DOMAIN Q[t] /\ Q[t][h + i - 1] = Q2[t][i]
        BY <1>2, <1>3, <1>4, <3>2
      <4> QED BY <4>1
    <3> QED BY <3>1, <3>2
  <2> DEFINE x == Q2[t][i]
  <2>2. x \in Requests
    BY <1>4, LenProperties, ElementOfSeq
  <2>3. /\ R[x].sess = t /\ R[x].exec \in Executors /\ E[R[x].exec].sess = t
        /\ \/ R[x].pc = "submitted" /\ R[x].answer = "none"
           \/ R[x].pc = "answered" /\ R[x].answer = "uncertain"
    BY <2>1 DEF Queues, QueuedOwned
  <2>4. Same(R[x], R2[x]) /\ R[x] \in Request
    BY <1>1, <2>2
  <2>5. E2[R[x].exec].sess = t
    BY <1>8, <2>3 DEF SameHandle
  <2> QED BY <2>3, <2>4, <2>5 DEF Same, Request
<1>10. QueuedOnce(Q2)
  <2> SUFFICES ASSUME NEW t \in Sessions, NEW i \in DOMAIN Q2[t],
                      NEW j \in DOMAIN Q2[t], Q2[t][i] = Q2[t][j]
               PROVE  i = j
    BY DEF QueuedOnce
  <2>1. CASE t # s
    BY <1>4, <2>1 DEF Queues, QueuedOnce
  <2>2. CASE t = s
    <3>1. /\ i \in 1 .. (n - h + 1) /\ j \in 1 .. (n - h + 1)
          /\ rest[i] = q[h + i - 1] /\ rest[j] = q[h + j - 1]
          /\ h + i - 1 \in DOMAIN Q[s] /\ h + j - 1 \in DOMAIN Q[s]
      BY <1>2, <1>3, <1>4, <2>2
    <3>2. h + i - 1 = h + j - 1
      <4>1. Q[s][h + i - 1] = Q[s][h + j - 1]
        BY <1>4, <2>2, <3>1
      <4>2. QueuedOnce(Q)
        BY DEF Queues
      <4> QED BY <3>1, <4>1, <4>2 DEF QueuedOnce
    <3> QED BY <1>2, <3>1, <3>2
  <2> QED BY <2>1, <2>2
<1>11. WorkAtHead(Q2, R2, E2)
  <2> SUFFICES ASSUME NEW e \in Executors, E2[e].work # "none"
               PROVE  /\ E2[e].sess \in Sessions /\ E2[e].job \in Requests
                      /\ 1 \in DOMAIN Q2[E2[e].sess]
                      /\ Q2[E2[e].sess][1] = E2[e].job
                      /\ R2[E2[e].job].exec = e
    BY DEF WorkAtHead
  <2>0. E[e] \in Executor
    OBVIOUS
  <2>1. CASE h # n + 1 /\ e = d
    <3>1. E2[e].sess = s /\ E2[e].job = q[h]
      BY <1>6, <1>7, <2>0, <2>1 DEF Executor
    <3>2. 1 \in DOMAIN rest /\ rest[1] = q[h]
      BY <1>2, <1>3, <1>7, <2>1
    <3>3. Same(R[q[h]], R2[q[h]]) /\ R[q[h]] \in Request
      BY <1>1, <1>7, <2>1
    <3>4. R2[q[h]].exec = e
      BY <2>1, <3>3 DEF Same, Request
    <3> QED BY <1>4, <1>7, <2>1, <3>1, <3>2, <3>4
  <2>2. CASE ~(h # n + 1 /\ e = d)
    <3>1. E2[e] = E[e] /\ E[e].sess # s
      BY <1>6, <2>2
    <3>2. /\ E[e].sess \in Sessions /\ E[e].job \in Requests
          /\ 1 \in DOMAIN Q[E[e].sess] /\ Q[E[e].sess][1] = E[e].job
          /\ R[E[e].job].exec = e
      BY <3>1 DEF Queues, WorkAtHead
    <3>3. Same(R[E[e].job], R2[E[e].job]) /\ R[E[e].job] \in Request
      BY <1>1, <3>2
    <3>4. R2[E[e].job].exec = e
      BY <3>2, <3>3 DEF Same, Request
    <3> QED BY <1>4, <3>1, <3>2, <3>4
  <2> QED BY <2>1, <2>2
<1>12. TailUnlanded(Q2, L)
  <2> SUFFICES ASSUME NEW t \in Sessions, NEW i \in DOMAIN Q2[t], i > 1
               PROVE  Q2[t][i] \notin L
    BY DEF TailUnlanded
  <2>1. CASE t # s
    BY <1>4, <2>1 DEF Queues, TailUnlanded
  <2>2. CASE t = s
    BY <1>2, <1>3, <1>4, <2>2
  <2> QED BY <2>1, <2>2
<1>13. WorkFits(E2, L)
  <2>1. h # n + 1 => q[h] \notin L
    BY <1>2, <1>7
  <2> SUFFICES ASSUME NEW e \in Executors
               PROVE  /\ E2[e].work \in {"sent", "validated"} => E2[e].job \notin L
                      /\ E2[e].work = "landed" => E2[e].job \in L
                      /\ E2[e].work = "replied" =>
                           /\ E2[e].reply = "committed" => E2[e].job \in L
                           /\ E2[e].reply = "rejected" => E2[e].job \notin L
                      /\ E2[e].pc = "booting" => E2[e].work \in {"none", "sent"}
    BY DEF WorkFits
  <2>2. E[e] \in Executor
    OBVIOUS
  <2>3. CASE h # n + 1 /\ e = d
    <3>1. E2[e].job = q[h] /\ E2[e].work = "sent"
      BY <1>6, <2>2, <2>3 DEF Executor
    <3> QED BY <2>1, <2>3, <3>1
  <2>4. CASE ~(h # n + 1 /\ e = d)
    BY <1>6, <2>4 DEF WorkFits
  <2> QED BY <2>3, <2>4
<1> QED
  BY <1>1, <1>4, <1>6, <1>8, <1>9, <1>10, <1>11, <1>12, <1>13 DEF Queues

LEMMA SameFields ==
    ASSUME NEW r1 \in Request, NEW r2, Same(r1, r2)
    PROVE  /\ r2.sess = r1.sess /\ r2.base = r1.base /\ r2.exec = r1.exec
           /\ \/ r2 = r1
              \/ r1.pc = "submitted" /\ r2.pc = "answered" /\ r2.answer = "uncertain"
BY DEF Same, Request

LEMMA PumpKeepsOthers ==
    ASSUME NEW R \in [Requests -> Request], NEW E \in [Executors -> Executor],
           NEW R2 \in [Requests -> Request], NEW E2 \in [Executors -> Executor],
           NEW Q, NEW T \in [Sessions -> 0 .. MaxExecutor], NEW l, NEW d, NEW L,
           WorkAtHead(Q, R, E), Others(R, E, T, l, d, L),
           \A r \in Requests : Same(R[r], R2[r]),
           \A e \in Executors :
              SameHandle(E[e], E2[e]) /\ (E2[e] # E[e] => E[e].sess \in Sessions)
    PROVE  Others(R2, E2, T, l, d, L)
<1>0. \A r \in Requests :
        /\ R2[r].base = R[r].base
        /\ \/ R2[r] = R[r]
           \/ R2[r].pc = "answered" /\ R2[r].answer = "uncertain"
  <2> TAKE r \in Requests
  <2>1. R[r] \in Request /\ Same(R[r], R2[r])
    OBVIOUS
  <2> HIDE DEF Same
  <2> QED BY <2>1, SameFields
<1>1. NotQueuedYet(R2, E2, L)
  <2> SUFFICES ASSUME NEW r \in Requests,
                      R2[r].pc \in {"idle", "planning", "booting", "submitted"}
               PROVE  /\ R2[r].pc # "submitted" => r \notin L /\ R2[r].answer = "none"
                      /\ R2[r].pc \in {"planning", "booting", "submitted"} =>
                           R2[r].sess \in Sessions
                      /\ R2[r].pc \in {"booting", "submitted"} =>
                           R2[r].exec \in Executors /\ E2[R2[r].exec].sess = R2[r].sess
    BY DEF NotQueuedYet
  <2>1. R2[r] = R[r]
    BY <1>0
  <2>2. NotQueuedYet(R, E, L)
    BY DEF Others
  <2> QED BY <2>1, <2>2 DEF NotQueuedYet, SameHandle
<1>2. TableOwned(E2, T)
  <2>1. TableOwned(E, T)
    BY DEF Others
  <2>2. ASSUME NEW s \in Sessions, T[s] # 0 PROVE E2[T[s]].sess = s
    <3>1. T[s] \in Executors
      BY <2>2 DEF Executors
    <3> QED BY <2>1, <2>2, <3>1 DEF TableOwned, SameHandle
  <2>3. ASSUME NEW e \in Executors, E2[e].pc = "unforked" PROVE E2[e] = UnforkedExecutor
    <3>1. E[e].pc = "unforked"
      BY <2>3 DEF SameHandle
    <3>2. E[e] = UnforkedExecutor
      BY <2>1, <3>1 DEF TableOwned
    <3>3. E[e].sess = 0
      BY <3>2 DEF UnforkedExecutor
    <3> QED BY <3>2, <3>3 DEF Sessions
  <2>4. ASSUME NEW e \in Executors, E2[e].pc # "unforked" PROVE E2[e].sess \in Sessions
    <3>1. E[e].pc # "unforked" /\ E2[e].sess = E[e].sess
      BY <2>4 DEF SameHandle
    <3> QED BY <2>1, <3>1 DEF TableOwned
  <2> QED BY <2>2, <2>3, <2>4 DEF TableOwned
<1>3. ServingHolds(R2, E2, l, d)
  <2> SUFFICES ASSUME NEW e \in Executors, E2[e].pc = "serving"
               PROVE  /\ l = e
                      /\ E2[e].work = "validated" => d = R2[E2[e].job].base \/ d \in Foreign
    BY DEF ServingHolds
  <2>1. E[e].pc = "serving" /\ ServingHolds(R, E, l, d)
    BY DEF SameHandle, Others
  <2>2. CASE E2[e].work = "validated"
    <3>1. E[e].work = "validated" /\ E2[e].job = E[e].job
      BY <2>2 DEF SameHandle
    <3>2. E[e].job \in Requests
      BY <3>1 DEF WorkAtHead
    <3>3. R2[E[e].job].base = R[E[e].job].base
      BY <1>0, <3>2
    <3> QED BY <2>1, <3>1, <3>3 DEF ServingHolds
  <2> QED BY <2>1, <2>2 DEF ServingHolds
<1>4. Honest(R2, L)
  <2> SUFFICES ASSUME NEW r \in Requests
               PROVE  /\ R2[r].answer = "committed" => r \in L
                      /\ R2[r].answer \in {"conflict", "draining"} => r \notin L
    BY DEF Honest
  <2> QED BY <1>0 DEF Others, Honest
<1>5. Tracked(E2, T)
  BY DEF Others, Tracked, SameHandle
<1> QED BY <1>1, <1>2, <1>3, <1>4, <1>5 DEF Others

\* A step that runs the pump over settled requests R and executors E.
LEMMA PumpPreserves ==
    ASSUME IInv, NEW s, NEW q, NEW R, NEW E, NEW Q,
           Runs(s, q, R, E, queue, Q, landed, queue', req', ex'),
           tableEntry' \in [Sessions -> 0 .. MaxExecutor],
           grant' \in [Sessions -> Contents \cup {NoContents}],
           UNCHANGED <<active, fence, lease, disk, landed>>,
           Others(R, E, tableEntry', lease, disk, landed)
    PROVE  IInv'
<1>1. /\ queue' \in [Sessions -> Seq(Requests)]
      /\ ex' \in [Executors -> Executor]
      /\ req' \in [Requests -> Request]
      /\ Queues(queue', req', ex', landed)
      /\ WorkFits(ex', landed)
      /\ \A r \in Requests : Same(R[r], req'[r])
      /\ \A e \in Executors : SameHandle(E[e], ex'[e]) /\ (ex'[e] # E[e] => E[e].sess = s)
  BY PumpKeepsQueues
<1>2. /\ R \in [Requests -> Request] /\ E \in [Executors -> Executor]
      /\ s \in Sessions /\ WorkAtHead(Q, R, E)
  BY DEF Runs, Queues
<1>3. TypeOK'
  BY <1>1 DEF IInv, TypeOK
<1>4. Others(req', ex', tableEntry', lease, disk, landed)
  BY <1>1, <1>2, PumpKeepsOthers
<1> QED BY <1>1, <1>3, <1>4 DEF IInv

-----------------------------------------------------------------------------
(* The control plane's actions.                                            *)

LEMMA Names ==
    /\ \A e \in Executors : e \in Nat /\ e # 0 /\ e \in 0 .. MaxExecutor
    /\ 0 \in 0 .. MaxExecutor /\ 0 \notin Sessions
BY WriteAssumption DEF Executors, Sessions

LEMMA QueuedRequests ==
    ASSUME TypeOK, NEW s \in Sessions, NEW i \in DOMAIN queue[s]
    PROVE  queue[s][i] \in Requests
<1>1. queue[s] \in Seq(Requests)
  BY DEF TypeOK
<1> QED BY <1>1, LenProperties, ElementOfSeq

\* The fence takes or refuses an edit that has not reached the queue.
LEMMA SubmitPreserves ==
    ASSUME IInv, NEW r \in Requests, NEW s \in Sessions, NEW e \in Executors,
           req[r].pc \in {"planning", "booting"}, req[r].sess = s, ex[e].sess = s,
           Submit(r, s, e, ex),
           UNCHANGED <<active, fence, tableEntry, grant, lease, disk, landed>>
    PROVE  IInv'
<1> DEFINE R == [req EXCEPT ![r].pc = "submitted", ![r].exec = e]
<1>1. /\ req \in [Requests -> Request] /\ ex \in [Executors -> Executor]
      /\ queue \in [Sessions -> Seq(Requests)]
      /\ req[r] \in Request
      /\ tableEntry' \in [Sessions -> 0 .. MaxExecutor]
      /\ grant' \in [Sessions -> Contents \cup {NoContents}]
  BY DEF IInv, TypeOK
<1>2. r \notin landed /\ req[r].answer = "none"
  BY DEF IInv, Others, NotQueuedYet
<1>3. \A t \in Sessions : \A i \in DOMAIN queue[t] : queue[t][i] \in Requests /\ queue[t][i] # r
  <2> TAKE t \in Sessions
  <2> TAKE i \in DOMAIN queue[t]
  <2>1. queue[t][i] \in Requests
    BY QueuedRequests DEF IInv
  <2>2. req[queue[t][i]].pc \in {"submitted", "answered"}
    BY DEF IInv, Queues, QueuedOwned
  <2> QED BY <2>1, <2>2
<1>4. /\ R \in [Requests -> Request]
      /\ \A x \in Requests : x # r => R[x] = req[x]
      /\ R[r].pc = "submitted" /\ R[r].exec = e /\ R[r].sess = s
      /\ R[r].answer = "none" /\ R[r].base = req[r].base
  <2>1. R = [req EXCEPT ![r] = [req[r] EXCEPT !.pc = "submitted", !.exec = e]]
    BY <1>1
  <2>2. [req[r] EXCEPT !.pc = "submitted", !.exec = e] \in Request
    BY <1>1 DEF Request
  <2> QED BY <1>1, <1>2, <2>1, <2>2 DEF Request
<1> HIDE DEF R
<1>5. Others(R, ex, tableEntry, lease, disk, landed)
  <2>1. NotQueuedYet(R, ex, landed)
    BY <1>4 DEF IInv, Others, NotQueuedYet
  <2>2. ServingHolds(R, ex, lease, disk)
    <3> SUFFICES ASSUME NEW f \in Executors, ex[f].pc = "serving"
                 PROVE  /\ lease = f
                        /\ ex[f].work = "validated" =>
                             disk = R[ex[f].job].base \/ disk \in Foreign
      BY DEF ServingHolds
    <3>1. CASE ex[f].work = "validated"
      <4>1. ex[f].job \in Requests
        BY <3>1 DEF IInv, Queues, WorkAtHead
      <4>2. R[ex[f].job].base = req[ex[f].job].base
        BY <1>4, <4>1
      <4> QED BY <4>2 DEF IInv, Others, ServingHolds
    <3> QED BY <3>1 DEF IInv, Others, ServingHolds
  <2>3. Honest(R, landed)
    BY <1>4 DEF IInv, Others, Honest
  <2> QED BY <2>1, <2>2, <2>3 DEF IInv, Others
<1>6. ASSUME NEW Q, Q \in [Sessions -> Seq(Requests)],
             \A t \in Sessions : t # s => Q[t] = queue[t],
             \A i \in DOMAIN Q[s] :
                \/ Q[s][i] = r
                \/ \E j \in DOMAIN queue[s] : Q[s][i] = queue[s][j]
      PROVE  QueuedOwned(Q, R, ex)
  <2> SUFFICES ASSUME NEW t \in Sessions, NEW i \in DOMAIN Q[t]
               PROVE  /\ R[Q[t][i]].sess = t /\ R[Q[t][i]].exec \in Executors
                      /\ ex[R[Q[t][i]].exec].sess = t
                      /\ \/ R[Q[t][i]].pc = "submitted" /\ R[Q[t][i]].answer = "none"
                         \/ R[Q[t][i]].pc = "answered" /\ R[Q[t][i]].answer = "uncertain"
    BY DEF QueuedOwned
  <2>1. CASE Q[t][i] = r /\ t = s
    BY <1>4, <2>1
  <2>2. CASE \E j \in DOMAIN queue[t] : Q[t][i] = queue[t][j]
    <3>1. PICK j \in DOMAIN queue[t] : Q[t][i] = queue[t][j]
      BY <2>2
    <3>2. R[Q[t][i]] = req[queue[t][j]]
      BY <1>3, <1>4, <3>1
    <3> QED BY <3>1, <3>2 DEF IInv, Queues, QueuedOwned
  <2>3. CASE t # s
    BY <1>6, <2>2, <2>3
  <2>4. CASE t = s
    BY <1>6, <2>1, <2>2, <2>4
  <2> QED BY <2>3, <2>4
<1>7. ASSUME NEW f \in Executors, ex[f].work # "none"
      PROVE  /\ ex[f].sess \in Sessions /\ ex[f].job \in Requests
             /\ 1 \in DOMAIN queue[ex[f].sess] /\ queue[ex[f].sess][1] = ex[f].job
             /\ R[ex[f].job].exec = f
  <2>1. /\ ex[f].sess \in Sessions /\ ex[f].job \in Requests
        /\ 1 \in DOMAIN queue[ex[f].sess] /\ queue[ex[f].sess][1] = ex[f].job
        /\ req[ex[f].job].exec = f
    BY <1>7 DEF IInv, Queues, WorkAtHead
  <2>2. ex[f].job # r
    BY <1>3, <2>1
  <2> QED BY <1>4, <2>1, <2>2
<1>8. CASE fence[s] = "open" /\ queue[s] = <<>>
  <2> DEFINE Q == [queue EXCEPT ![s] = <<r>>]
  <2>1. Pump(s, <<r>>, R, ex)
    BY <1>8 DEF Submit, R
  <2>2. /\ <<r>> \in Seq(Requests) /\ DOMAIN <<r>> = {1} /\ <<r>>[1] = r
    OBVIOUS
  <2>3. Pumped(s, <<r>>, R, ex, queue, queue', req', ex')
    BY <1>1, <1>4, <2>1, <2>2, PumpDispatches
  <2>4. /\ Q \in [Sessions -> Seq(Requests)] /\ Q[s] = <<r>>
        /\ \A t \in Sessions : t # s => Q[t] = queue[t]
    BY <1>1, <2>2
  <2> HIDE DEF Q
  <2>5. \A f \in Executors : ex[f].sess = s => ex[f].work = "none"
    BY <1>7, <1>8
  <2>6. QueuedOwned(Q, R, ex)
    BY <1>6, <2>2, <2>4
  <2>7. QueuedOnce(Q)
    BY <2>2, <2>4 DEF IInv, Queues, QueuedOnce
  <2>8. WorkAtHead(Q, R, ex)
    BY <1>7, <2>4, <2>5 DEF WorkAtHead
  <2>9. TailUnlanded(Q, landed)
    BY <2>2, <2>4 DEF IInv, Queues, TailUnlanded
  <2>10. Runs(s, <<r>>, R, ex, queue, Q, landed, queue', req', ex')
    BY <1>1, <1>2, <1>4, <2>2, <2>3, <2>4, <2>5, <2>6, <2>7, <2>8, <2>9 DEF Runs, Queues, IInv
  <2> QED BY <1>1, <1>5, <2>10, PumpPreserves
<1>9. CASE fence[s] = "open" /\ queue[s] # <<>>
  <2>1. queue' = [queue EXCEPT ![s] = Append(@, r)] /\ req' = R /\ ex' = ex
    BY <1>9 DEF Submit, R
  <2> DEFINE n == Len(queue[s])
  <2>2. /\ queue[s] \in Seq(Requests) /\ n \in Nat /\ DOMAIN queue[s] = 1 .. n
        /\ n > 0
    BY <1>1, <1>9, LenProperties, EmptySeq
  <2>3. /\ queue'[s] \in Seq(Requests) /\ DOMAIN queue'[s] = 1 .. (n + 1)
        /\ queue'[s][n + 1] = r /\ \A i \in 1 .. n : queue'[s][i] = queue[s][i]
    <3>1. queue'[s] = Append(queue[s], r)
      BY <1>1, <2>1
    <3> QED BY <2>2, <3>1, AppendProperties, LenProperties
  <2>4. queue' \in [Sessions -> Seq(Requests)] /\ \A t \in Sessions : t # s => queue'[t] = queue[t]
    BY <1>1, <2>1, <2>3
  <2> HIDE DEF n
  <2>5. QueuedOwned(queue', R, ex)
    <3>1. \A i \in DOMAIN queue'[s] :
            \/ queue'[s][i] = r
            \/ \E j \in DOMAIN queue[s] : queue'[s][i] = queue[s][j]
      <4> TAKE i \in DOMAIN queue'[s]
      <4>1. CASE i = n + 1
        BY <2>3, <4>1
      <4>2. CASE i # n + 1
        <5>1. i \in DOMAIN queue[s] /\ queue'[s][i] = queue[s][i]
          BY <2>2, <2>3, <4>2
        <5> QED BY <5>1
      <4> QED BY <4>1, <4>2
    <3> QED BY <1>6, <2>4, <3>1
  <2>6. QueuedOnce(queue')
    <3> SUFFICES ASSUME NEW t \in Sessions, NEW i \in DOMAIN queue'[t],
                        NEW j \in DOMAIN queue'[t], queue'[t][i] = queue'[t][j]
                 PROVE  i = j
      BY DEF QueuedOnce
    <3>1. CASE t # s
      BY <2>4, <3>1 DEF IInv, Queues, QueuedOnce
    <3>2. CASE t = s
      <4>1. i \in 1 .. n /\ j \in 1 .. n => i = j
        BY <2>2, <2>3, <3>2 DEF IInv, Queues, QueuedOnce
      <4>2. i \in 1 .. n => queue'[s][i] # r
        BY <1>3, <2>2, <2>3
      <4>3. j \in 1 .. n => queue'[s][j] # r
        BY <1>3, <2>2, <2>3
      <4> QED BY <2>2, <2>3, <3>2, <4>1, <4>2, <4>3
    <3> QED BY <3>1, <3>2
  <2>7. WorkAtHead(queue', R, ex)
    BY <1>7, <2>2, <2>3, <2>4 DEF WorkAtHead
  <2>8. TailUnlanded(queue', landed)
    <3> SUFFICES ASSUME NEW t \in Sessions, NEW i \in DOMAIN queue'[t], i > 1
                 PROVE  queue'[t][i] \notin landed
      BY DEF TailUnlanded
    <3>1. CASE t # s
      BY <2>4, <3>1 DEF IInv, Queues, TailUnlanded
    <3>2. CASE t = s
      BY <1>2, <2>2, <2>3, <3>2 DEF IInv, Queues, TailUnlanded
    <3> QED BY <3>1, <3>2
  <2>9. TypeOK'
    BY <1>4, <2>1, <2>4 DEF IInv, TypeOK
  <2> QED BY <1>5, <2>1, <2>5, <2>6, <2>7, <2>8, <2>9 DEF IInv, Queues
<1>10. CASE fence[s] # "open"
  <2>1. /\ req' = [req EXCEPT ![r].pc = "answered", ![r].answer = "draining"]
        /\ ex' = ex /\ queue' = queue
    BY <1>10 DEF Submit
  <2>2. /\ req' \in [Requests -> Request]
        /\ \A x \in Requests : x # r => req'[x] = req[x]
        /\ req'[r].pc = "answered" /\ req'[r].answer = "draining"
    <3>1. req' = [req EXCEPT ![r] = [req[r] EXCEPT !.pc = "answered", !.answer = "draining"]]
      BY <1>1, <2>1
    <3>2. [req[r] EXCEPT !.pc = "answered", !.answer = "draining"] \in Request
      BY <1>1 DEF Request, Answers
    <3> QED BY <1>1, <3>1, <3>2 DEF Request
  <2>3. TypeOK'
    BY <2>1, <2>2 DEF IInv, TypeOK
  <2>4. QueuedOwned(queue', req', ex')
    BY <1>3, <2>1, <2>2 DEF IInv, Queues, QueuedOwned
  <2>5. WorkAtHead(queue', req', ex')
    <3>1. \A f \in Executors : ex[f].work # "none" => ex[f].job # r /\ ex[f].job \in Requests
      BY <1>3 DEF IInv, Queues, WorkAtHead
    <3> QED BY <2>1, <2>2, <3>1 DEF IInv, Queues, WorkAtHead
  <2>6. NotQueuedYet(req', ex', landed')
    BY <2>1, <2>2 DEF IInv, Others, NotQueuedYet
  <2>7. ServingHolds(req', ex', lease', disk')
    <3>1. \A f \in Executors : ex[f].work # "none" => ex[f].job # r /\ ex[f].job \in Requests
      BY <1>3 DEF IInv, Queues, WorkAtHead
    <3> QED BY <2>1, <2>2, <3>1 DEF IInv, Others, ServingHolds
  <2>8. Honest(req', landed')
    BY <1>2, <2>1, <2>2 DEF IInv, Others, Honest
  <2> QED BY <2>1, <2>3, <2>4, <2>5, <2>6, <2>7, <2>8 DEF IInv, Queues, Others
<1> QED BY <1>8, <1>9, <1>10

\* e's operation settles: R0 and E0 are what the step makes of requests and
\* executors beside the settlement.
LEMMA SettlesPreserves ==
    ASSUME IInv, NEW e \in Executors, ex[e].work # "none", NEW outcome,
           NEW R0 \in [Requests -> Request], NEW E0 \in [Executors -> Executor],
           \A r \in Requests :
              \/ R0[r] = req[r]
              \/ req[r].pc = "booting" /\ R0[r].pc = "answered",
           \A f \in Executors : f # e => E0[f] = ex[f],
           E0[e].sess = ex[e].sess, E0[e].work = "none",
           E0[e].pc = "booting" => ex[e].pc = "booting",
           outcome = "committed" => ex[e].job \in landed,
           outcome = "rejected" => ex[e].job \notin landed,
           Settles(e, outcome, R0, E0),
           tableEntry' \in [Sessions -> 0 .. MaxExecutor],
           UNCHANGED <<active, fence, lease, disk, landed>>,
           Others(R0, E0, tableEntry', lease, disk, landed)
    PROVE  IInv'
<1> DEFINE s == ex[e].sess
           x == ex[e].job
           q == Tail(queue[s])
           R == Answered(R0, x, AnswerFor(outcome))
           Q == [queue EXCEPT ![s] = q]
<1>1. /\ req \in [Requests -> Request] /\ ex \in [Executors -> Executor]
      /\ queue \in [Sessions -> Seq(Requests)]
      /\ grant \in [Sessions -> Contents \cup {NoContents}]
  BY DEF IInv, TypeOK
<1>2. /\ s \in Sessions /\ x \in Requests /\ 1 \in DOMAIN queue[s]
      /\ queue[s][1] = x /\ req[x].exec = e
  BY DEF IInv, Queues, WorkAtHead
<1>3. /\ req[x].sess = s
      /\ \/ req[x].pc = "submitted" /\ req[x].answer = "none"
         \/ req[x].pc = "answered" /\ req[x].answer = "uncertain"
  BY <1>2 DEF IInv, Queues, QueuedOwned
<1>4. R0[x] = req[x]
  BY <1>2, <1>3
<1>5. AnswerFor(outcome) \in {"committed", "conflict", "uncertain"}
      /\ (AnswerFor(outcome) = "committed" => x \in landed)
      /\ (AnswerFor(outcome) = "conflict" => x \notin landed)
  BY DEF AnswerFor
<1>6. /\ R \in [Requests -> Request]
      /\ \A r \in Requests : r # x => R[r] = R0[r]
      /\ R[x].exec = e /\ R[x].base = req[x].base /\ R[x].sess = s
      /\ R[x].pc = "answered"
      /\ R[x].answer \in {"uncertain", AnswerFor(outcome)}
  <2>0. R0[x] \in Request
    BY <1>2
  <2>1. CASE R0[x].pc = "submitted"
    <3>1. R = [R0 EXCEPT ![x] = [R0[x] EXCEPT !.pc = "answered", !.answer = AnswerFor(outcome)]]
      BY <1>2, <2>1 DEF Answered
    <3>2. [R0[x] EXCEPT !.pc = "answered", !.answer = AnswerFor(outcome)] \in Request
      BY <1>5, <2>0 DEF Request, Answers
    <3> QED BY <1>2, <1>3, <1>4, <2>0, <3>1, <3>2 DEF Request
  <2>2. CASE R0[x].pc # "submitted"
    <3>1. R = R0
      BY <2>2 DEF Answered
    <3> QED BY <1>2, <1>3, <1>4, <2>2, <3>1
  <2> QED BY <2>1, <2>2
<1> HIDE DEF R
<1>7. /\ q \in Seq(Requests)
      /\ \A i \in DOMAIN q : i + 1 \in DOMAIN queue[s] /\ q[i] = queue[s][i + 1] /\ i \in Nat /\ i > 0
  <2>1. queue[s] \in Seq(Requests) /\ queue[s] # <<>>
    BY <1>1, <1>2
  <2>2. /\ q \in Seq(Requests) /\ Len(q) = Len(queue[s]) - 1
        /\ \A i \in 1 .. Len(q) : q[i] = queue[s][i + 1]
    BY <2>1, HeadTailProperties
  <2>3. DOMAIN q = 1 .. Len(q) /\ DOMAIN queue[s] = 1 .. Len(queue[s]) /\ Len(queue[s]) \in Nat
    BY <2>1, <2>2, LenProperties
  <2> QED BY <2>2, <2>3
<1>8. /\ Q \in [Sessions -> Seq(Requests)] /\ Q[s] = q
      /\ \A t \in Sessions : t # s => Q[t] = queue[t]
  BY <1>1, <1>2, <1>7
<1> HIDE DEF q, Q
<1>9. \A t \in Sessions : \A i \in DOMAIN Q[t] :
        /\ Q[t][i] \in Requests /\ Q[t][i] # x
        /\ \E j \in DOMAIN queue[t] : Q[t][i] = queue[t][j]
  <2> TAKE t \in Sessions
  <2> TAKE i \in DOMAIN Q[t]
  <2>1. CASE t = s
    <3>1. i + 1 \in DOMAIN queue[s] /\ Q[t][i] = queue[s][i + 1] /\ i \in Nat /\ i > 0
      BY <1>7, <1>8, <2>1
    <3>2. QueuedOnce(queue) /\ i + 1 # 1
      BY <3>1 DEF IInv, Queues
    <3>3. queue[s][i + 1] # x
      BY <1>2, <3>1, <3>2 DEF QueuedOnce
    <3>4. queue[s][i + 1] \in Requests
      BY <1>2, <3>1, QueuedRequests DEF IInv
    <3> QED BY <2>1, <3>1, <3>3, <3>4
  <2>2. CASE t # s
    <3>1. i \in DOMAIN queue[t] /\ Q[t][i] = queue[t][i]
      BY <1>8, <2>2
    <3>2. queue[t][i] \in Requests
      BY <3>1, QueuedRequests DEF IInv
    <3>3. req[queue[t][i]].sess = t
      BY <3>1 DEF IInv, Queues, QueuedOwned
    <3> QED BY <1>3, <2>2, <3>1, <3>2, <3>3
  <2> QED BY <2>1, <2>2
<1>10. QueuedOwned(Q, R, E0)
  <2> SUFFICES ASSUME NEW t \in Sessions, NEW i \in DOMAIN Q[t]
               PROVE  /\ R[Q[t][i]].sess = t /\ R[Q[t][i]].exec \in Executors
                      /\ E0[R[Q[t][i]].exec].sess = t
                      /\ \/ R[Q[t][i]].pc = "submitted" /\ R[Q[t][i]].answer = "none"
                         \/ R[Q[t][i]].pc = "answered" /\ R[Q[t][i]].answer = "uncertain"
    BY DEF QueuedOwned
  <2>1. PICK j \in DOMAIN queue[t] : Q[t][i] = queue[t][j]
    BY <1>9
  <2>2. /\ req[Q[t][i]].sess = t /\ req[Q[t][i]].exec \in Executors
        /\ ex[req[Q[t][i]].exec].sess = t
        /\ \/ req[Q[t][i]].pc = "submitted" /\ req[Q[t][i]].answer = "none"
           \/ req[Q[t][i]].pc = "answered" /\ req[Q[t][i]].answer = "uncertain"
    BY <2>1 DEF IInv, Queues, QueuedOwned
  <2>3. R[Q[t][i]] = req[Q[t][i]]
    BY <1>6, <1>9, <2>2
  <2>4. \A f \in Executors : E0[f].sess = ex[f].sess
    OBVIOUS
  <2> QED BY <2>2, <2>3, <2>4
<1>11. QueuedOnce(Q)
  <2> SUFFICES ASSUME NEW t \in Sessions, NEW i \in DOMAIN Q[t], NEW j \in DOMAIN Q[t],
                      Q[t][i] = Q[t][j]
               PROVE  i = j
    BY DEF QueuedOnce
  <2>1. CASE t # s
    BY <1>8, <2>1 DEF IInv, Queues, QueuedOnce
  <2>2. CASE t = s
    <3>1. /\ i + 1 \in DOMAIN queue[s] /\ j + 1 \in DOMAIN queue[s] /\ i \in Nat /\ j \in Nat
          /\ queue[s][i + 1] = queue[s][j + 1]
      BY <1>7, <1>8, <2>2
    <3>2. i + 1 = j + 1
      BY <1>2, <3>1 DEF IInv, Queues, QueuedOnce
    <3> QED BY <3>1, <3>2
  <2> QED BY <2>1, <2>2
<1>12. ASSUME NEW f \in Executors, E0[f].work # "none"
       PROVE  /\ E0[f].sess \in Sessions /\ E0[f].job \in Requests /\ E0[f].sess # s
              /\ 1 \in DOMAIN queue[E0[f].sess] /\ queue[E0[f].sess][1] = E0[f].job
              /\ R[E0[f].job].exec = f
  <2>1. f # e /\ E0[f] = ex[f]
    BY <1>12
  <2>2. /\ ex[f].sess \in Sessions /\ ex[f].job \in Requests
        /\ 1 \in DOMAIN queue[ex[f].sess] /\ queue[ex[f].sess][1] = ex[f].job
        /\ req[ex[f].job].exec = f
    BY <1>12, <2>1 DEF IInv, Queues, WorkAtHead
  <2>3. ex[f].job # x
    BY <1>2, <2>1, <2>2
  <2>4. ex[f].sess # s
    BY <1>2, <2>2, <2>3
  <2>5. req[ex[f].job].pc \in {"submitted", "answered"}
    BY <2>2 DEF IInv, Queues, QueuedOwned
  <2>6. R[ex[f].job] = req[ex[f].job]
    BY <1>6, <2>2, <2>3, <2>5
  <2> QED BY <2>1, <2>2, <2>4, <2>6
<1>13. WorkAtHead(Q, R, E0)
  <2> SUFFICES ASSUME NEW f \in Executors, E0[f].work # "none"
               PROVE  /\ E0[f].sess \in Sessions /\ E0[f].job \in Requests
                      /\ 1 \in DOMAIN Q[E0[f].sess] /\ Q[E0[f].sess][1] = E0[f].job
                      /\ R[E0[f].job].exec = f
    BY DEF WorkAtHead
  <2>1. Q[E0[f].sess] = queue[E0[f].sess]
    BY <1>8, <1>12
  <2> QED BY <1>12, <2>1
<1>14. TailUnlanded(Q, landed) /\ \A i \in DOMAIN q : q[i] \notin landed
  <2>1. \A i \in DOMAIN q : q[i] \notin landed
    BY <1>2, <1>7 DEF IInv, Queues, TailUnlanded
  <2>2. \A t \in Sessions : t # s => \A i \in DOMAIN Q[t] : i > 1 => Q[t][i] \notin landed
    BY <1>8 DEF IInv, Queues, TailUnlanded
  <2> QED BY <1>8, <2>1, <2>2 DEF TailUnlanded
<1>15. WorkFits(E0, landed)
  BY DEF IInv, WorkFits
<1>16. Others(R, E0, tableEntry', lease, disk, landed)
  <2>1. NotQueuedYet(R, E0, landed)
    BY <1>6 DEF Others, NotQueuedYet
  <2>2. ServingHolds(R, E0, lease, disk)
    <3> SUFFICES ASSUME NEW f \in Executors, E0[f].pc = "serving"
                 PROVE  /\ lease = f
                        /\ E0[f].work = "validated" =>
                             disk = R[E0[f].job].base \/ disk \in Foreign
      BY DEF ServingHolds
    <3>1. CASE E0[f].work = "validated"
      <4>1. E0[f].job \in Requests
        BY <1>12, <3>1
      <4>2. R[E0[f].job].base = R0[E0[f].job].base
        BY <1>4, <1>6, <4>1
      <4> QED BY <4>2 DEF Others, ServingHolds
    <3> QED BY <3>1 DEF Others, ServingHolds
  <2>3. Honest(R, landed)
    BY <1>5, <1>6 DEF Others, Honest
  <2> QED BY <2>1, <2>2, <2>3 DEF Others
<1>17. /\ Pump(s, q, R, E0)
       /\ grant' = IF outcome = "committed" /\ req[x].pc = "submitted"
                      /\ disk = x /\ fence[s] \in {"open", "sealed"}
                   THEN [grant EXCEPT ![s] = x] ELSE grant
  BY DEF Settles, R, q
<1>18. grant' \in [Sessions -> Contents \cup {NoContents}]
  BY <1>1, <1>2, <1>17 DEF Contents
<1>19. Pumped(s, q, R, E0, queue, queue', req', ex')
  BY <1>2, <1>6, <1>7, <1>17, PumpDispatches
<1>20. \A f \in Executors : E0[f].sess = s => E0[f].work = "none"
  BY <1>12
<1>21. Runs(s, q, R, E0, queue, Q, landed, queue', req', ex')
  BY <1>1, <1>2, <1>6, <1>7, <1>8, <1>10, <1>11, <1>13, <1>14, <1>15, <1>19, <1>20
     DEF Runs, Queues
<1> QED BY <1>16, <1>18, <1>21, PumpPreserves

\* A request the fence took keeps its place; it may only be given up.
Kept(r1, r2) ==
    r1.pc \in {"submitted", "answered"} =>
        /\ r2.sess = r1.sess /\ r2.exec = r1.exec /\ r2.base = r1.base
        /\ \/ r2.pc = r1.pc /\ r2.answer = r1.answer
           \/ r1.pc = "submitted" /\ r2.pc = "answered" /\ r2.answer = "uncertain"

\* No operation starts and none changes hands.
NoneStarts ==
    \A f \in Executors :
        /\ ex[f].sess \in Sessions => ex'[f].sess = ex[f].sess
        /\ ex'[f].work # "none" => ex[f].work # "none" /\ ex'[f].job = ex[f].job

\* A step that leaves the queues alone, starts no operation and at most gives up
\* queued edits.
LEMMA QueuesStay ==
    ASSUME IInv, queue' = queue, NoneStarts,
           \A r \in Requests : Kept(req[r], req'[r])
    PROVE  /\ QueuedOwned(queue', req', ex') /\ QueuedOnce(queue')
           /\ WorkAtHead(queue', req', ex')
           /\ (landed' = landed => TailUnlanded(queue', landed'))
<1>1. QueuedOwned(queue', req', ex')
  <2> SUFFICES ASSUME NEW s \in Sessions, NEW i \in DOMAIN queue[s]
               PROVE  /\ req'[queue[s][i]].sess = s /\ req'[queue[s][i]].exec \in Executors
                      /\ ex'[req'[queue[s][i]].exec].sess = s
                      /\ \/ req'[queue[s][i]].pc = "submitted" /\ req'[queue[s][i]].answer = "none"
                         \/ /\ req'[queue[s][i]].pc = "answered"
                            /\ req'[queue[s][i]].answer = "uncertain"
    BY DEF QueuedOwned
  <2> DEFINE r == queue[s][i]
  <2>1. r \in Requests
    BY QueuedRequests DEF IInv
  <2>2. /\ req[r].sess = s /\ req[r].exec \in Executors /\ ex[req[r].exec].sess = s
        /\ \/ req[r].pc = "submitted" /\ req[r].answer = "none"
           \/ req[r].pc = "answered" /\ req[r].answer = "uncertain"
    BY DEF IInv, Queues, QueuedOwned
  <2> HIDE DEF r
  <2>3. /\ req'[r].sess = s /\ req'[r].exec = req[r].exec
        /\ \/ req'[r].pc = req[r].pc /\ req'[r].answer = req[r].answer
           \/ req[r].pc = "submitted" /\ req'[r].pc = "answered" /\ req'[r].answer = "uncertain"
    BY <2>1, <2>2 DEF Kept
  <2>4. ex'[req[r].exec].sess = s
    BY <2>2 DEF NoneStarts
  <2> QED BY <2>2, <2>3, <2>4 DEF r
<1>2. QueuedOnce(queue')
  BY DEF IInv, Queues
<1>3. WorkAtHead(queue', req', ex')
  <2> SUFFICES ASSUME NEW f \in Executors, ex'[f].work # "none"
               PROVE  /\ ex'[f].sess \in Sessions /\ ex'[f].job \in Requests
                      /\ 1 \in DOMAIN queue[ex'[f].sess] /\ queue[ex'[f].sess][1] = ex'[f].job
                      /\ req'[ex'[f].job].exec = f
    BY DEF WorkAtHead
  <2>1. ex[f].work # "none" /\ ex'[f].job = ex[f].job
    BY DEF NoneStarts
  <2>2. /\ ex[f].sess \in Sessions /\ ex[f].job \in Requests
        /\ 1 \in DOMAIN queue[ex[f].sess] /\ queue[ex[f].sess][1] = ex[f].job
        /\ req[ex[f].job].exec = f
    BY <2>1 DEF IInv, Queues, WorkAtHead
  <2>3. ex'[f].sess = ex[f].sess
    BY <2>2 DEF NoneStarts
  <2>4. req[ex[f].job].pc \in {"submitted", "answered"}
    BY <2>2 DEF IInv, Queues, QueuedOwned
  <2>5. req'[ex[f].job].exec = f
    BY <2>2, <2>4 DEF Kept
  <2> QED BY <2>1, <2>2, <2>3, <2>5
<1>4. landed' = landed => TailUnlanded(queue', landed')
  BY DEF IInv, Queues
<1> QED BY <1>1, <1>2, <1>3, <1>4

-----------------------------------------------------------------------------
(* Steps of one executor.                                                  *)

\* Executor e, once forked, moves: it starts nothing.
Moves(e) ==
    /\ ex' \in [Executors -> Executor]
    /\ \A f \in Executors : f # e => ex'[f] = ex[f]
    /\ ex'[e].sess = ex[e].sess
    /\ ex'[e].work # "none" => ex[e].work # "none" /\ ex'[e].job = ex[e].job
    /\ ex[e].pc # "unforked" /\ ex'[e].pc # "unforked"
    /\ ex'[e].pc = "booting" => ex[e].pc = "booting" /\ ex'[e].work = ex[e].work
    /\ ex'[e].pc \in {"booting", "serving"} =>
         /\ ex[e].pc \in {"booting", "serving"}
         /\ ex[e].stop => ex'[e].stop
         /\ ex[e].kill => ex'[e].kill

LEMMA MoveStartsNothing ==
    ASSUME NEW e \in Executors, Moves(e)
    PROVE  NoneStarts
BY DEF Moves, NoneStarts

\* A step of executor e and of its lease alone, which reaches no file.
LEMMA ExecutorPreserves ==
    ASSUME IInv, NEW e \in Executors, Moves(e),
           UNCHANGED <<active, fence, queue, tableEntry, grant, req, disk, landed>>,
           lease' \in 0 .. MaxExecutor,
           \A f \in Executors : f # e /\ lease = f => lease' = f,
           ex'[e].pc = "serving" =>
             /\ lease' = e
             /\ ex'[e].work = "validated" =>
                  disk = req[ex'[e].job].base \/ disk \in Foreign,
           /\ ex'[e].work \in {"sent", "validated"} => ex'[e].job \notin landed
           /\ ex'[e].work = "landed" => ex'[e].job \in landed
           /\ ex'[e].work = "replied" =>
                /\ ex'[e].reply = "committed" => ex'[e].job \in landed
                /\ ex'[e].reply = "rejected" => ex'[e].job \notin landed
    PROVE  IInv'
<1>1. TypeOK'
  BY DEF IInv, TypeOK, Moves
<1>2. Queues(queue', req', ex', landed')
  <2>1. \A r \in Requests : Kept(req[r], req'[r])
    BY DEF Kept
  <2> QED BY <2>1, MoveStartsNothing, QueuesStay DEF Queues
<1>3. WorkFits(ex', landed')
  BY DEF IInv, WorkFits, Moves
<1>4. NotQueuedYet(req', ex', landed')
  BY DEF IInv, Others, NotQueuedYet, Moves
<1>5. TableOwned(ex', tableEntry')
  <2>1. \A s \in Sessions : tableEntry[s] # 0 => tableEntry[s] \in Executors
    BY DEF IInv, TypeOK, Executors
  <2> QED BY <2>1 DEF IInv, Others, TableOwned, Moves
<1>6. ServingHolds(req', ex', lease', disk')
  BY DEF IInv, Others, ServingHolds, Moves
<1>7. Tracked(ex', tableEntry')
  BY DEF IInv, Others, Tracked, Moves
<1> QED BY <1>1, <1>2, <1>3, <1>4, <1>5, <1>6, <1>7 DEF IInv, Others

LEMMA BootPreserves ==
    ASSUME IInv, NEW e \in Executors, Boot(e)
    PROVE  IInv'
<1>1. ex[e] \in Executor /\ ex \in [Executors -> Executor] /\ lease \in 0 .. MaxExecutor
  BY DEF IInv, TypeOK
<1>2. ex[e].work \in {"none", "sent"} /\ (ex[e].work = "sent" => ex[e].job \notin landed)
  BY DEF IInv, WorkFits, Boot
<1>3. CASE lease = 0
  <2>1. ex' = [ex EXCEPT ![e] = [ex[e] EXCEPT !.pc = "serving", !.ready = TRUE]] /\ lease' = e
    BY <1>3 DEF Boot, LeaseFree
  <2>2. [ex[e] EXCEPT !.pc = "serving", !.ready = TRUE] \in Executor
    BY <1>1 DEF Executor
  <2>3. Moves(e) /\ ex'[e].work = ex[e].work /\ ex'[e].job = ex[e].job /\ ex'[e].pc = "serving"
    BY <1>1, <2>1, <2>2 DEF Moves, Executor, Boot
  <2>4. \A f \in Executors : f # e /\ lease = f => lease' = f
    BY <1>3, Names
  <2>5. lease' \in 0 .. MaxExecutor
    BY <2>1, Names
  <2> QED BY <1>2, <2>1, <2>3, <2>4, <2>5, ExecutorPreserves DEF Boot, ChildOnly
<1>4. CASE lease # 0
  <2>1. ex' = [ex EXCEPT ![e] = [ex[e] EXCEPT !.pc = "exited"]] /\ lease' = lease
    BY <1>4 DEF Boot, LeaseFree
  <2>2. [ex[e] EXCEPT !.pc = "exited"] \in Executor
    BY <1>1 DEF Executor
  <2>3. Moves(e) /\ ex'[e].work = ex[e].work /\ ex'[e].job = ex[e].job /\ ex'[e].pc = "exited"
    BY <1>1, <2>1, <2>2 DEF Moves, Executor, Boot
  <2> QED BY <1>1, <1>2, <2>1, <2>3, ExecutorPreserves DEF Boot, ChildOnly
<1> QED BY <1>3, <1>4

\* The recheck: what it validated is what the edit was planned from.
LEMMA ValidatePreserves ==
    ASSUME IInv, NEW e \in Executors, Validate(e)
    PROVE  IInv'
<1>1. ex[e] \in Executor /\ ex \in [Executors -> Executor] /\ lease \in 0 .. MaxExecutor
  BY DEF IInv, TypeOK
<1>2. ex[e].pc = "serving" /\ ex[e].work = "sent"
  BY DEF Validate
<1>3. ex[e].job \notin landed /\ lease = e
  BY DEF IInv, WorkFits, Others, ServingHolds, Validate
<1>4. CASE disk = req[ex[e].job].base
  <2>1. ex' = [ex EXCEPT ![e] = [ex[e] EXCEPT !.work = "validated"]]
    BY <1>4 DEF Validate
  <2>2. [ex[e] EXCEPT !.work = "validated"] \in Executor
    BY <1>1 DEF Executor, Work
  <2>3. Moves(e) /\ ex'[e].work = "validated" /\ ex'[e].job = ex[e].job /\ ex'[e].pc = "serving"
    BY <1>1, <1>2, <2>1, <2>2 DEF Moves, Executor
  <2> QED BY <1>1, <1>4, <1>3, <2>3, ExecutorPreserves DEF Validate, ChildOnly
<1>5. CASE disk # req[ex[e].job].base
  <2>1. ex' = [ex EXCEPT ![e] = [ex[e] EXCEPT !.work = "replied", !.reply = "rejected"]]
    BY <1>5 DEF Validate, Replies
  <2>2. [ex[e] EXCEPT !.work = "replied", !.reply = "rejected"] \in Executor
    BY <1>1 DEF Executor, Work, Outcomes
  <2>3. /\ Moves(e) /\ ex'[e].work = "replied" /\ ex'[e].reply = "rejected"
        /\ ex'[e].job = ex[e].job
    BY <1>1, <1>2, <2>1, <2>2 DEF Moves, Executor
  <2> QED BY <1>1, <1>3, <2>3, ExecutorPreserves DEF Validate, ChildOnly
<1> QED BY <1>4, <1>5

\* A serving child reports that it wrote nothing, or that it wrote.
LEMMA ReportPreserves ==
    ASSUME IInv, NEW e \in Executors, NEW outcome \in {"failed", "committed"},
           ex[e].pc = "serving",
           \/ outcome = "failed" /\ ex[e].work = "validated"
           \/ outcome = "committed" /\ ex[e].work = "landed",
           ex' = Replies(e, outcome),
           UNCHANGED <<ChildOnly, lease, disk, landed>>
    PROVE  IInv'
<1>1. ex[e] \in Executor /\ ex \in [Executors -> Executor] /\ lease \in 0 .. MaxExecutor
  BY DEF IInv, TypeOK
<1>2. lease = e /\ (ex[e].work = "landed" => ex[e].job \in landed)
  BY DEF IInv, WorkFits, Others, ServingHolds
<1>3. ex' = [ex EXCEPT ![e] = [ex[e] EXCEPT !.work = "replied", !.reply = outcome]]
  BY DEF Replies
<1>4. [ex[e] EXCEPT !.work = "replied", !.reply = outcome] \in Executor
  BY <1>1 DEF Executor, Work, Outcomes
<1>5. Moves(e) /\ ex'[e].work = "replied" /\ ex'[e].reply = outcome /\ ex'[e].job = ex[e].job
  BY <1>1, <1>3, <1>4 DEF Moves, Executor
<1> QED BY <1>1, <1>2, <1>5, ExecutorPreserves DEF ChildOnly

LEMMA ChildExitsPreserves ==
    ASSUME IInv, NEW e \in Executors, ChildExits(e)
    PROVE  IInv'
<1>1. ex[e] \in Executor /\ ex \in [Executors -> Executor] /\ lease \in 0 .. MaxExecutor
  BY DEF IInv, TypeOK
<1>2. ex' = [ex EXCEPT ![e] = [ex[e] EXCEPT !.pc = "exited"]]
  BY DEF ChildExits
<1>3. [ex[e] EXCEPT !.pc = "exited"] \in Executor
  BY <1>1 DEF Executor
<1>4. /\ Moves(e) /\ ex'[e].work = ex[e].work /\ ex'[e].job = ex[e].job
      /\ ex'[e].pc = "exited" /\ ex'[e].reply = ex[e].reply
  BY <1>1, <1>2, <1>3 DEF Moves, Executor, ChildExits, Alive
<1>5. lease' \in 0 .. MaxExecutor /\ \A f \in Executors : f # e /\ lease = f => lease' = f
  BY <1>1, Names DEF ChildExits
<1>6. /\ ex[e].work \in {"sent", "validated"} => ex[e].job \notin landed
      /\ ex[e].work = "landed" => ex[e].job \in landed
      /\ ex[e].work = "replied" =>
           /\ ex[e].reply = "committed" => ex[e].job \in landed
           /\ ex[e].reply = "rejected" => ex[e].job \notin landed
  BY DEF IInv, WorkFits
<1> QED BY <1>4, <1>5, <1>6, ExecutorPreserves DEF ChildExits, ChildOnly

LEMMA StopTimesOutPreserves ==
    ASSUME IInv, NEW e \in Executors, StopTimesOut(e)
    PROVE  IInv'
<1>1. ex[e] \in Executor /\ ex \in [Executors -> Executor] /\ lease \in 0 .. MaxExecutor
  BY DEF IInv, TypeOK
<1>2. ex[e].stop /\ ex[e].pc # "unforked"
  BY DEF StopTimesOut, StopEscalates, IInv, Others, TableOwned, UnforkedExecutor
<1>3. ex' = [ex EXCEPT ![e] = [ex[e] EXCEPT !.kill = TRUE]]
  BY DEF StopTimesOut
<1>4. [ex[e] EXCEPT !.kill = TRUE] \in Executor
  BY <1>1 DEF Executor
<1>5. /\ Moves(e) /\ ex'[e].work = ex[e].work /\ ex'[e].job = ex[e].job
      /\ ex'[e].pc = ex[e].pc /\ ex'[e].reply = ex[e].reply
  BY <1>1, <1>2, <1>3, <1>4 DEF Moves, Executor
<1>6. /\ ex[e].work \in {"sent", "validated"} => ex[e].job \notin landed
      /\ ex[e].work = "landed" => ex[e].job \in landed
      /\ ex[e].work = "replied" =>
           /\ ex[e].reply = "committed" => ex[e].job \in landed
           /\ ex[e].reply = "rejected" => ex[e].job \notin landed
  BY DEF IInv, WorkFits
<1>7. ex[e].pc = "serving" =>
        /\ lease = e
        /\ ex[e].work = "validated" => disk = req[ex[e].job].base \/ disk \in Foreign
  BY DEF IInv, Others, ServingHolds
<1> QED BY <1>1, <1>5, <1>6, <1>7, ExecutorPreserves DEF StopTimesOut

\* The rename lands the contents of the edit at the head of its queue.
LEMMA RenamePreserves ==
    ASSUME IInv, NEW e \in Executors, Rename(e)
    PROVE  IInv'
<1> DEFINE x == ex[e].job
           s == ex[e].sess
<1>1. ex[e] \in Executor /\ ex \in [Executors -> Executor]
  BY DEF IInv, TypeOK
<1>2. /\ ex[e].pc = "serving" /\ ex[e].work = "validated"
      /\ ex' = [ex EXCEPT ![e] = [ex[e] EXCEPT !.work = "landed"]]
      /\ disk' = x /\ landed' = landed \cup {x}
      /\ UNCHANGED <<active, fence, queue, tableEntry, grant, req, lease>>
  BY DEF Rename, ChildOnly
<1>3. /\ s \in Sessions /\ x \in Requests /\ 1 \in DOMAIN queue[s]
      /\ queue[s][1] = x /\ req[x].exec = e
  BY <1>2 DEF IInv, Queues, WorkAtHead
<1>4. /\ req[x].sess = s
      /\ \/ req[x].pc = "submitted" /\ req[x].answer = "none"
         \/ req[x].pc = "answered" /\ req[x].answer = "uncertain"
  BY <1>3 DEF IInv, Queues, QueuedOwned
<1>5. lease = e /\ \A f \in Executors : f # e => ex[f].pc # "serving"
  BY <1>2 DEF IInv, Others, ServingHolds
<1>6. [ex[e] EXCEPT !.work = "landed"] \in Executor
  BY <1>1 DEF Executor, Work
<1>7. /\ Moves(e) /\ ex'[e].work = "landed" /\ ex'[e].job = x /\ ex'[e].pc = "serving"
      /\ ex'[e].stop = ex[e].stop /\ ex'[e].kill = ex[e].kill
  BY <1>1, <1>2, <1>6 DEF Moves, Executor
<1>8. \A f \in Executors : f # e /\ ex[f].work # "none" => ex[f].job # x
  BY <1>3 DEF IInv, Queues, WorkAtHead
<1>9. TypeOK'
  BY <1>2, <1>3, <1>7 DEF IInv, TypeOK, Moves, Contents
<1>10. TailUnlanded(queue', landed')
  <2> SUFFICES ASSUME NEW t \in Sessions, NEW i \in DOMAIN queue[t], i > 1
               PROVE  queue[t][i] \notin landed /\ queue[t][i] # x
    BY <1>2 DEF TailUnlanded
  <2>1. queue[t][i] \notin landed
    BY DEF IInv, Queues, TailUnlanded
  <2>2. CASE t = s
    <3>1. queue[s][i] = queue[s][1] => i = 1
      BY <1>3, <2>2 DEF IInv, Queues, QueuedOnce
    <3>2. i # 1
      <4>1. i \in Nat
        BY LenProperties DEF IInv, TypeOK
      <4> QED BY <4>1
    <3> QED BY <1>3, <2>1, <2>2, <3>1, <3>2
  <2>3. CASE t # s
    <3>1. req[queue[t][i]].sess = t
      BY DEF IInv, Queues, QueuedOwned
    <3> QED BY <1>4, <2>1, <2>3, <3>1
  <2> QED BY <2>2, <2>3
<1>11. Queues(queue', req', ex', landed')
  <2>1. \A r \in Requests : Kept(req[r], req'[r])
    BY <1>2 DEF Kept
  <2> QED BY <1>2, <1>7, <1>10, <2>1, MoveStartsNothing, QueuesStay DEF Queues
<1>12. WorkFits(ex', landed')
  <2> SUFFICES ASSUME NEW f \in Executors
               PROVE  /\ ex'[f].work \in {"sent", "validated"} => ex'[f].job \notin landed'
                      /\ ex'[f].work = "landed" => ex'[f].job \in landed'
                      /\ ex'[f].work = "replied" =>
                           /\ ex'[f].reply = "committed" => ex'[f].job \in landed'
                           /\ ex'[f].reply = "rejected" => ex'[f].job \notin landed'
                      /\ ex'[f].pc = "booting" => ex'[f].work \in {"none", "sent"}
    BY DEF WorkFits
  <2>1. CASE f = e
    BY <1>2, <1>7, <2>1
  <2>2. CASE f # e
    <3>1. ex'[f] = ex[f]
      BY <1>7, <2>2 DEF Moves
    <3> QED BY <1>2, <1>8, <2>2, <3>1 DEF IInv, WorkFits
  <2> QED BY <2>1, <2>2
<1>13. NotQueuedYet(req', ex', landed')
  BY <1>2, <1>4, <1>7 DEF IInv, Others, NotQueuedYet, Moves
<1>14. TableOwned(ex', tableEntry')
  <2>1. \A t \in Sessions : tableEntry[t] # 0 => tableEntry[t] \in Executors
    BY DEF IInv, TypeOK, Executors
  <2> QED BY <1>2, <1>7, <2>1 DEF IInv, Others, TableOwned, Moves
<1>15. ServingHolds(req', ex', lease', disk')
  BY <1>2, <1>5, <1>7 DEF ServingHolds, Moves
<1>16. Honest(req', landed')
  BY <1>2, <1>4 DEF IInv, Others, Honest
<1>17. Tracked(ex', tableEntry')
  BY <1>2, <1>7 DEF IInv, Others, Tracked, Moves
<1> QED BY <1>9, <1>11, <1>12, <1>13, <1>14, <1>15, <1>16, <1>17 DEF IInv, Others

-----------------------------------------------------------------------------
(* Steps of one request.                                                   *)

\* Steps that touch neither a queue, nor an executor, nor a request.
LEMMA TransitionPreserves ==
    ASSUME IInv, UNCHANGED <<queue, tableEntry, req, ex, lease, landed>>,
           active' \in 0 .. MaxSession, fence' \in [Sessions -> FenceState],
           grant' \in [Sessions -> Contents \cup {NoContents}],
           disk' = disk \/ disk' \in Foreign
    PROVE  IInv'
<1>1. TypeOK'
  BY DEF IInv, TypeOK, Contents
<1>2. ServingHolds(req', ex', lease', disk')
  BY DEF IInv, Others, ServingHolds
<1> QED BY <1>1, <1>2 DEF IInv, Others

\* A request that the fence never took moves on, alone.
LEMMA RequestPreserves ==
    ASSUME IInv, NEW r \in Requests, req[r].pc \in {"idle", "planning"},
           req' \in [Requests -> Request],
           \A x \in Requests : x # r => req'[x] = req[x],
           req'[r].pc = "planning" => req'[r].sess \in Sessions /\ req'[r].answer = "none",
           req'[r].pc \in {"planning", "answered"},
           req'[r].answer # "committed",
           UNCHANGED <<active, fence, queue, tableEntry, grant, ex, lease, disk, landed>>
    PROVE  IInv'
<1>1. TypeOK'
  BY DEF IInv, TypeOK
<1>2. Queues(queue', req', ex', landed')
  <2>1. \A x \in Requests : Kept(req[x], req'[x])
    BY DEF Kept
  <2>2. NoneStarts
    BY DEF NoneStarts
  <2> QED BY <2>1, <2>2, QueuesStay DEF Queues
<1>3. NotQueuedYet(req', ex', landed')
  BY DEF IInv, Others, NotQueuedYet
<1>4. ServingHolds(req', ex', lease', disk')
  <2> SUFFICES ASSUME NEW f \in Executors, ex[f].pc = "serving"
               PROVE  /\ lease = f
                      /\ ex[f].work = "validated" =>
                           disk = req'[ex[f].job].base \/ disk \in Foreign
    BY DEF ServingHolds
  <2>1. CASE ex[f].work = "validated"
    <3>1. ex[f].job \in Requests /\ ex[f].job # r
      BY <2>1 DEF IInv, Queues, WorkAtHead, QueuedOwned
    <3> QED BY <3>1 DEF IInv, Others, ServingHolds
  <2> QED BY <2>1 DEF IInv, Others, ServingHolds
<1>5. Honest(req', landed')
  BY DEF IInv, Others, Honest, NotQueuedYet
<1> QED BY <1>1, <1>2, <1>3, <1>4, <1>5 DEF IInv, Others

LEMMA ArrivePreserves ==
    ASSUME IInv, NEW r \in Requests, Arrive(r)
    PROVE  IInv'
<1>1. /\ req \in [Requests -> Request] /\ req[r] \in Request
      /\ active \in Sessions /\ grant[active] \in Contents \cup {NoContents}
  BY DEF IInv, TypeOK, Arrive, Sessions
<1>2. req' = [req EXCEPT ![r] = [req[r] EXCEPT !.pc = "planning", !.sess = active,
                                               !.base = grant[active]]]
  BY DEF Arrive
<1>3. [req[r] EXCEPT !.pc = "planning", !.sess = active, !.base = grant[active]] \in Request
  BY <1>1 DEF Request
<1>4. /\ req' \in [Requests -> Request] /\ \A x \in Requests : x # r => req'[x] = req[x]
      /\ req'[r].pc = "planning" /\ req'[r].sess \in Sessions
      /\ req'[r].answer = req[r].answer
  BY <1>1, <1>2, <1>3 DEF Request
<1>5. req[r].pc = "idle" /\ req[r].answer = "none"
  BY DEF IInv, Others, NotQueuedYet, Arrive
<1> QED BY <1>4, <1>5, RequestPreserves DEF Arrive

\* An unforked executor becomes the session's, whose table entry was empty.
LEMMA ForkPreserves ==
    ASSUME IInv, NEW r \in Requests, NEW s \in Sessions, NEW e \in Executors,
           req[r].pc = "planning", req[r].sess = s, tableEntry[s] = 0,
           ex[e].pc = "unforked",
           ex' = [ex EXCEPT ![e].sess = s, ![e].pc = "booting"],
           tableEntry' = [tableEntry EXCEPT ![s] = e],
           req' = [req EXCEPT ![r].pc = "booting", ![r].exec = e],
           UNCHANGED <<active, fence, queue, grant, lease, disk, landed>>
    PROVE  IInv'
<1>1. /\ req \in [Requests -> Request] /\ req[r] \in Request
      /\ ex \in [Executors -> Executor] /\ ex[e] \in Executor
      /\ tableEntry \in [Sessions -> 0 .. MaxExecutor]
  BY DEF IInv, TypeOK
<1>2. ex[e].sess = 0 /\ ex[e].work = "none" /\ 0 \notin Sessions
  BY Names DEF IInv, Others, TableOwned, UnforkedExecutor
<1>3. /\ req' \in [Requests -> Request] /\ \A x \in Requests : x # r => req'[x] = req[x]
      /\ req'[r].pc = "booting" /\ req'[r].sess = s /\ req'[r].exec = e
      /\ req'[r].answer = req[r].answer /\ req'[r].base = req[r].base
  <2>1. req' = [req EXCEPT ![r] = [req[r] EXCEPT !.pc = "booting", !.exec = e]]
    BY <1>1
  <2>2. [req[r] EXCEPT !.pc = "booting", !.exec = e] \in Request
    BY <1>1 DEF Request
  <2> QED BY <1>1, <2>1, <2>2 DEF Request
<1>4. /\ ex' \in [Executors -> Executor] /\ \A f \in Executors : f # e => ex'[f] = ex[f]
      /\ ex'[e].sess = s /\ ex'[e].pc = "booting" /\ ex'[e].work = "none"
  <2>1. ex' = [ex EXCEPT ![e] = [ex[e] EXCEPT !.sess = s, !.pc = "booting"]]
    BY <1>1
  <2>2. [ex[e] EXCEPT !.sess = s, !.pc = "booting"] \in Executor
    BY <1>1 DEF Executor
  <2> QED BY <1>1, <1>2, <2>1, <2>2 DEF Executor
<1>5. /\ tableEntry' \in [Sessions -> 0 .. MaxExecutor] /\ tableEntry'[s] = e
      /\ \A t \in Sessions : t # s => tableEntry'[t] = tableEntry[t]
  BY <1>1, Names
<1>6. TypeOK'
  BY <1>3, <1>4, <1>5 DEF IInv, TypeOK
<1>7. Queues(queue', req', ex', landed')
  <2>1. \A x \in Requests : Kept(req[x], req'[x])
    BY <1>3 DEF Kept
  <2>2. NoneStarts
    BY <1>2, <1>4 DEF NoneStarts
  <2> QED BY <2>1, <2>2, QueuesStay DEF Queues
<1>8. WorkFits(ex', landed')
  BY <1>4 DEF IInv, WorkFits
<1>9. NotQueuedYet(req', ex', landed')
  <2>1. \A x \in Requests : x # r /\ req[x].pc \in {"booting", "submitted"} => req[x].exec # e
    BY <1>2 DEF IInv, Others, NotQueuedYet
  <2> QED BY <1>3, <1>4, <2>1 DEF IInv, Others, NotQueuedYet
<1>10. TableOwned(ex', tableEntry')
  <2>1. \A t \in Sessions : t # s /\ tableEntry[t] # 0 => tableEntry[t] \in Executors \ {e}
    <3>1. \A t \in Sessions : tableEntry[t] # 0 => tableEntry[t] \in Executors
      BY DEF IInv, TypeOK, Executors
    <3> QED BY <1>2, <3>1 DEF IInv, Others, TableOwned
  <2> QED BY <1>4, <1>5, <2>1 DEF IInv, Others, TableOwned
<1>11. ServingHolds(req', ex', lease', disk')
  <2> SUFFICES ASSUME NEW f \in Executors, ex'[f].pc = "serving"
               PROVE  /\ lease = f
                      /\ ex'[f].work = "validated" =>
                           disk = req'[ex'[f].job].base \/ disk \in Foreign
    BY DEF ServingHolds
  <2>1. ex'[f] = ex[f]
    BY <1>4
  <2>2. ex[f].work = "validated" => req'[ex[f].job].base = req[ex[f].job].base
    BY <1>3 DEF IInv, Queues, WorkAtHead
  <2> QED BY <2>1, <2>2 DEF IInv, Others, ServingHolds
<1>12. Honest(req', landed')
  BY <1>3 DEF IInv, Others, Honest
<1>13. Tracked(ex', tableEntry')
  <2> SUFFICES ASSUME NEW f \in Executors, ex'[f].pc \in {"booting", "serving"}
               PROVE  tableEntry'[ex'[f].sess] = f \/ ex'[f].stop \/ ex'[f].kill
    BY DEF Tracked
  <2>1. CASE f = e
    BY <1>4, <1>5, <2>1
  <2>2. CASE f # e
    <3>1. ex'[f] = ex[f]
      BY <1>4, <2>2
    <3>2. tableEntry[ex[f].sess] = f \/ ex[f].stop \/ ex[f].kill
      BY <3>1 DEF IInv, Others, Tracked
    <3>3. CASE ex[f].sess = s
      <4>1. f # 0
        BY Names
      <4> QED BY <3>1, <3>2, <3>3, <4>1
    <3>4. CASE ex[f].sess # s
      BY <1>5, <3>1, <3>2, <3>4
    <3> QED BY <3>3, <3>4
  <2> QED BY <2>1, <2>2
<1> QED BY <1>6, <1>7, <1>8, <1>9, <1>10, <1>11, <1>12, <1>13 DEF IInv, Others

LEMMA PlannedPreserves ==
    ASSUME IInv, NEW r \in Requests, Planned(r)
    PROVE  IInv'
<1> DEFINE s == req[r].sess
<1>1. req[r].pc = "planning" /\ s \in Sessions /\ req[r] \in Request
  BY DEF IInv, TypeOK, Others, NotQueuedYet, Planned
<1>2. CASE req' = [req EXCEPT ![r].pc = "answered", ![r].answer = "conflict"]
           /\ UNCHANGED <<queue, tableEntry, ex>>
  <2>1. req' = [req EXCEPT ![r] = [req[r] EXCEPT !.pc = "answered", !.answer = "conflict"]]
    BY <1>2
  <2>2. [req[r] EXCEPT !.pc = "answered", !.answer = "conflict"] \in Request
    BY <1>1 DEF Request, Answers
  <2>3. /\ req' \in [Requests -> Request] /\ \A x \in Requests : x # r => req'[x] = req[x]
        /\ req'[r].pc = "answered" /\ req'[r].answer = "conflict"
    BY <1>1, <2>1, <2>2 DEF Request, IInv, TypeOK
  <2> QED BY <1>1, <1>2, <2>3, RequestPreserves DEF Planned
<1>3. CASE tableEntry[s] # 0 /\ Submit(r, s, tableEntry[s], ex) /\ UNCHANGED tableEntry
  <2>1. tableEntry[s] \in Executors
    BY <1>1, <1>3 DEF IInv, TypeOK, Executors
  <2>2. ex[tableEntry[s]].sess = s
    BY <1>1, <1>3 DEF IInv, Others, TableOwned
  <2> QED BY <1>1, <1>3, <2>1, <2>2, SubmitPreserves DEF Planned
<1>4. CASE /\ tableEntry[s] = 0 /\ Unforked # {} /\ UNCHANGED queue
           /\ LET e == CHOOSE x \in Unforked : \A y \in Unforked : x <= y
              IN  /\ ex' = [ex EXCEPT ![e].sess = s, ![e].pc = "booting"]
                  /\ tableEntry' = [tableEntry EXCEPT ![s] = e]
                  /\ req' = [req EXCEPT ![r].pc = "booting", ![r].exec = e]
  <2> DEFINE e == CHOOSE x \in Unforked : \A y \in Unforked : x <= y
  <2>1. e \in Unforked
    <3>1. Unforked \subseteq Nat
      BY Names DEF Unforked
    <3>2. \E x \in Unforked : \A y \in Unforked : x <= y
      BY <1>4, <3>1, LeastOfNats
    <3> QED BY <3>2
  <2>2. e \in Executors /\ ex[e].pc = "unforked"
    BY <2>1 DEF Unforked
  <2>3. /\ ex' = [ex EXCEPT ![e].sess = s, ![e].pc = "booting"]
        /\ tableEntry' = [tableEntry EXCEPT ![s] = e]
        /\ req' = [req EXCEPT ![r].pc = "booting", ![r].exec = e]
        /\ UNCHANGED <<active, fence, queue, grant, lease, disk, landed>>
    BY <1>4 DEF Planned
  <2> HIDE DEF e
  <2> QED BY <1>1, <1>4, <2>2, <2>3, ForkPreserves
<1> QED BY <1>2, <1>3, <1>4 DEF Planned

LEMMA BootReadyPreserves ==
    ASSUME IInv, NEW r \in Requests, BootReady(r)
    PROVE  IInv'
<1>1. /\ req[r].pc = "booting" /\ req[r].sess \in Sessions
      /\ req[r].exec \in Executors /\ ex[req[r].exec].sess = req[r].sess
  BY DEF IInv, Others, NotQueuedYet, BootReady
<1> QED BY <1>1, SubmitPreserves DEF BootReady

-----------------------------------------------------------------------------
(* Steps that settle, give up or evict.                                    *)

\* The identity-guarded eviction keeps every other executor's entry.
LEMMA EvictionKeepsOthers ==
    ASSUME TypeOK, NEW s, NEW e \in Executors,
           tableEntry' = [tableEntry EXCEPT ![s] = Evicted(s, e)]
    PROVE  /\ tableEntry' \in [Sessions -> 0 .. MaxExecutor]
           /\ \A t \in Sessions :
                 tableEntry'[t] # tableEntry[t] => tableEntry[t] = e /\ tableEntry'[t] = 0
<1>1. tableEntry \in [Sessions -> 0 .. MaxExecutor] /\ 0 \in 0 .. MaxExecutor
  BY Names DEF TypeOK
<1>2. CASE s \in Sessions
  <2>1. Evicted(s, e) \in {0, tableEntry[s]} /\ (Evicted(s, e) # tableEntry[s] => tableEntry[s] = e)
    BY DEF Evicted
  <2> QED BY <1>1, <1>2, <2>1
<1>3. CASE s \notin Sessions
  BY <1>1, <1>3
<1> QED BY <1>2, <1>3

LEMMA OutcomeArrivesPreserves ==
    ASSUME IInv, NEW e \in Executors, OutcomeArrives(e)
    PROVE  IInv'
<1> DEFINE E == [ex EXCEPT ![e].job = NoContents, ![e].work = "none", ![e].reply = "none"]
<1>1. /\ req \in [Requests -> Request] /\ ex \in [Executors -> Executor] /\ ex[e] \in Executor
      /\ tableEntry \in [Sessions -> 0 .. MaxExecutor]
  BY DEF IInv, TypeOK
<1>2. /\ ex[e].work = "replied" /\ Settles(e, ex[e].reply, req, E)
      /\ UNCHANGED <<active, fence, tableEntry, lease, disk, landed>>
  BY DEF OutcomeArrives
<1>3. /\ E \in [Executors -> Executor] /\ \A f \in Executors : f # e => E[f] = ex[f]
      /\ E[e].sess = ex[e].sess /\ E[e].work = "none" /\ E[e].pc = ex[e].pc
      /\ E[e].stop = ex[e].stop /\ E[e].kill = ex[e].kill
  <2>1. E = [ex EXCEPT ![e] = [ex[e] EXCEPT !.job = NoContents, !.work = "none", !.reply = "none"]]
    BY <1>1
  <2>2. [ex[e] EXCEPT !.job = NoContents, !.work = "none", !.reply = "none"] \in Executor
    BY <1>1 DEF Executor, Work
  <2> QED BY <1>1, <2>1, <2>2 DEF Executor
<1> HIDE DEF E
<1>4. ex[e].pc # "unforked"
  BY <1>2 DEF IInv, Others, TableOwned, UnforkedExecutor
<1>5. Others(req, E, tableEntry, lease, disk, landed)
  <2>1. NotQueuedYet(req, E, landed)
    BY <1>3 DEF IInv, Others, NotQueuedYet
  <2>2. TableOwned(E, tableEntry)
    <3>1. \A t \in Sessions : tableEntry[t] # 0 => tableEntry[t] \in Executors
      BY <1>1 DEF Executors
    <3> QED BY <1>3, <1>4, <3>1 DEF IInv, Others, TableOwned
  <2>3. ServingHolds(req, E, lease, disk)
    BY <1>3 DEF IInv, Others, ServingHolds
  <2>4. Tracked(E, tableEntry)
    BY <1>3 DEF IInv, Others, Tracked
  <2> QED BY <2>1, <2>2, <2>3, <2>4 DEF IInv, Others
<1>6. /\ ex[e].reply = "committed" => ex[e].job \in landed
      /\ ex[e].reply = "rejected" => ex[e].job \notin landed
  BY <1>2 DEF IInv, WorkFits
<1> QED BY <1>1, <1>2, <1>3, <1>5, <1>6, SettlesPreserves

LEMMA ExitObservedPreserves ==
    ASSUME IInv, NEW e \in Executors, ExitObserved(e)
    PROVE  IInv'
<1> DEFINE s == ex[e].sess
           R == [r \in Requests |->
                   IF req[r].pc = "booting" /\ req[r].exec = e
                   THEN [req[r] EXCEPT !.pc = "answered", !.answer = "uncertain"]
                   ELSE req[r]]
           E == [ex EXCEPT ![e] = [UnforkedExecutor EXCEPT !.sess = s, !.pc = "gone"]]
<1>1. /\ req \in [Requests -> Request] /\ ex \in [Executors -> Executor] /\ ex[e] \in Executor
      /\ tableEntry \in [Sessions -> 0 .. MaxExecutor]
  BY DEF IInv, TypeOK
<1>2. /\ ex[e].pc = "exited"
      /\ tableEntry' = [tableEntry EXCEPT ![s] = Evicted(s, e)]
      /\ IF ex[e].work = "none"
         THEN req' = R /\ ex' = E /\ UNCHANGED <<queue, grant>>
         ELSE Settles(e, ExitOutcome, R, E)
      /\ UNCHANGED <<active, fence, lease, disk, landed>>
  BY DEF ExitObserved
<1>3. \A r \in Requests :
        /\ R[r] \in Request /\ R[r].base = req[r].base
        /\ \/ R[r] = req[r]
           \/ req[r].pc = "booting" /\ R[r].pc = "answered" /\ R[r].answer = "uncertain"
  <2> TAKE r \in Requests
  <2>1. req[r] \in Request
    BY <1>1
  <2>2. [req[r] EXCEPT !.pc = "answered", !.answer = "uncertain"] \in Request
    BY <2>1 DEF Request, Answers
  <2>3. R[r] = IF req[r].pc = "booting" /\ req[r].exec = e
               THEN [req[r] EXCEPT !.pc = "answered", !.answer = "uncertain"]
               ELSE req[r]
    OBVIOUS
  <2> HIDE DEF R
  <2> QED BY <2>1, <2>2, <2>3 DEF Request
<1>4. R \in [Requests -> Request]
  BY <1>3
<1>5. /\ E \in [Executors -> Executor] /\ \A f \in Executors : f # e => E[f] = ex[f]
      /\ E[e].sess = s /\ E[e].work = "none" /\ E[e].pc = "gone"
  <2>1. [UnforkedExecutor EXCEPT !.sess = s, !.pc = "gone"] \in Executor
    BY <1>1 DEF Executor, UnforkedExecutor, Work
  <2>2. E[e] = [UnforkedExecutor EXCEPT !.sess = s, !.pc = "gone"]
    BY <1>1
  <2> QED BY <1>1, <2>1, <2>2 DEF UnforkedExecutor
<1> HIDE DEF R, E
<1>6. /\ tableEntry' \in [Sessions -> 0 .. MaxExecutor]
      /\ \A t \in Sessions :
            tableEntry'[t] # tableEntry[t] => tableEntry[t] = e /\ tableEntry'[t] = 0
  BY <1>2, EvictionKeepsOthers DEF IInv
<1>7. UNCHANGED <<active, fence, lease, disk, landed>>
  BY <1>2
<1>8. ex[e].sess \in Sessions /\ ex[e].pc = "exited"
  BY <1>2 DEF IInv, Others, TableOwned
<1>9. Others(R, E, tableEntry', lease, disk, landed)
  <2>1. NotQueuedYet(R, E, landed)
    BY <1>3, <1>5 DEF IInv, Others, NotQueuedYet
  <2>2. TableOwned(E, tableEntry')
    <3>1. \A t \in Sessions : tableEntry[t] # 0 => tableEntry[t] \in Executors
      BY <1>1 DEF Executors
    <3>2. \A t \in Sessions : tableEntry'[t] \in {0, tableEntry[t]}
      BY <1>6, <1>8, <3>1 DEF IInv, Others, TableOwned
    <3> QED BY <1>5, <1>8, <3>1, <3>2 DEF IInv, Others, TableOwned
  <2>3. ServingHolds(R, E, lease, disk)
    <3> SUFFICES ASSUME NEW f \in Executors, E[f].pc = "serving"
                 PROVE  /\ lease = f
                        /\ E[f].work = "validated" =>
                             disk = R[E[f].job].base \/ disk \in Foreign
      BY DEF ServingHolds
    <3>1. E[f] = ex[f]
      BY <1>5
    <3>2. ex[f].work = "validated" => R[ex[f].job].base = req[ex[f].job].base
      BY <1>3 DEF IInv, Queues, WorkAtHead
    <3> QED BY <3>1, <3>2 DEF IInv, Others, ServingHolds
  <2>4. Honest(R, landed)
    BY <1>3 DEF IInv, Others, Honest
  <2>5. Tracked(E, tableEntry')
    <3> SUFFICES ASSUME NEW f \in Executors, E[f].pc \in {"booting", "serving"}
                 PROVE  tableEntry'[E[f].sess] = f \/ E[f].stop \/ E[f].kill
      BY DEF Tracked
    <3>1. f # e /\ E[f] = ex[f]
      BY <1>5
    <3>2. ex[f].sess \in Sessions
      BY <3>1 DEF IInv, Others, TableOwned
    <3> QED BY <1>6, <3>1, <3>2 DEF IInv, Others, Tracked
  <2> QED BY <2>1, <2>2, <2>3, <2>4, <2>5 DEF Others
<1>10. CASE ex[e].work = "none"
  <2>1. req' = R /\ ex' = E /\ UNCHANGED <<queue, grant>>
    BY <1>2, <1>10
  <2>2. TypeOK'
    BY <1>2, <1>4, <1>5, <1>6, <2>1 DEF IInv, TypeOK
  <2>3. Queues(queue', req', ex', landed')
    <3>1. \A r \in Requests : Kept(req[r], req'[r])
      BY <1>3, <2>1 DEF Kept
    <3>2. NoneStarts
      BY <1>5, <2>1 DEF NoneStarts
    <3> QED BY <1>2, <2>1, <3>1, <3>2, QueuesStay DEF Queues
  <2>4. WorkFits(ex', landed')
    BY <1>2, <1>5, <2>1 DEF IInv, WorkFits
  <2> QED BY <1>2, <1>9, <2>1, <2>2, <2>3, <2>4 DEF IInv
<1>11. CASE ex[e].work # "none"
  <2>1. Settles(e, "unknown", R, E)
    BY <1>2, <1>11 DEF ExitOutcome
  <2>2. \A r \in Requests : R[r] = req[r] \/ (req[r].pc = "booting" /\ R[r].pc = "answered")
    BY <1>3
  <2>3. E[e].sess = ex[e].sess
    BY <1>5
  <2> HIDE DEF s
  <2> QED
    BY <1>4, <1>5, <1>6, <1>9, <1>11, <1>7, <2>1, <2>2, <2>3, SettlesPreserves
<1> QED BY <1>10, <1>11

\* A request whose bounded wait is over gives up and its executor is killed.
LEMMA TimeoutPreserves ==
    ASSUME IInv, NEW r \in Requests, Timeout(r)
    PROVE  IInv'
<1> DEFINE e == req[r].exec
           s == req[r].sess
<1>1. /\ req \in [Requests -> Request] /\ req[r] \in Request /\ req[r].pc = "submitted"
      /\ ex \in [Executors -> Executor]
  BY DEF IInv, TypeOK, Timeout, TimesOut
<1>2. e \in Executors /\ s \in Sessions /\ ex[e].sess = s /\ ex[e] \in Executor
  BY <1>1 DEF IInv, Others, NotQueuedYet
<1>3. ex[e].pc # "unforked"
  <2>1. UnforkedExecutor.sess = 0 /\ s # 0
    BY <1>2, Names DEF UnforkedExecutor
  <2> QED BY <1>2, <2>1 DEF IInv, Others, TableOwned
<1>4. /\ req' = [req EXCEPT ![r] = [req[r] EXCEPT !.pc = "answered", !.answer = "uncertain"]]
      /\ tableEntry' = [tableEntry EXCEPT ![s] = Evicted(s, e)]
      /\ ex' = [ex EXCEPT ![e] = [ex[e] EXCEPT !.kill = (ex[e].pc # "gone")]]
      /\ UNCHANGED <<active, fence, queue, grant, lease, disk, landed>>
  BY <1>1 DEF Timeout
<1>5. /\ req' \in [Requests -> Request] /\ \A x \in Requests : x # r => req'[x] = req[x]
      /\ req'[r].pc = "answered" /\ req'[r].answer = "uncertain"
      /\ req'[r].sess = s /\ req'[r].exec = e /\ req'[r].base = req[r].base
  <2>1. [req[r] EXCEPT !.pc = "answered", !.answer = "uncertain"] \in Request
    BY <1>1 DEF Request, Answers
  <2> QED BY <1>1, <1>4, <2>1 DEF Request
<1>6. /\ ex' \in [Executors -> Executor] /\ \A f \in Executors : f # e => ex'[f] = ex[f]
      /\ ex'[e].sess = s /\ ex'[e].pc = ex[e].pc /\ ex'[e].work = ex[e].work
      /\ ex'[e].job = ex[e].job /\ ex'[e].reply = ex[e].reply
      /\ ex'[e].kill = (ex[e].pc # "gone")
  <2>1. [ex[e] EXCEPT !.kill = (ex[e].pc # "gone")] \in Executor
    BY <1>2 DEF Executor
  <2> QED BY <1>1, <1>2, <1>4, <2>1 DEF Executor
<1>7. /\ tableEntry' \in [Sessions -> 0 .. MaxExecutor]
      /\ \A t \in Sessions :
            tableEntry'[t] # tableEntry[t] => tableEntry[t] = e /\ tableEntry'[t] = 0
  BY <1>2, <1>4, EvictionKeepsOthers DEF IInv
<1> HIDE DEF e, s
<1>8. TypeOK'
  BY <1>4, <1>5, <1>6, <1>7 DEF IInv, TypeOK
<1>9. Queues(queue', req', ex', landed')
  <2>1. \A x \in Requests : Kept(req[x], req'[x])
    BY <1>1, <1>5 DEF Kept, e, s
  <2>2. NoneStarts
    BY <1>2, <1>6 DEF NoneStarts
  <2> QED BY <1>4, <2>1, <2>2, QueuesStay DEF Queues
<1>10. WorkFits(ex', landed')
  BY <1>4, <1>6 DEF IInv, WorkFits
<1>11. NotQueuedYet(req', ex', landed')
  BY <1>2, <1>4, <1>5, <1>6 DEF IInv, Others, NotQueuedYet
<1>12. TableOwned(ex', tableEntry')
  <2>1. \A t \in Sessions : tableEntry[t] # 0 => tableEntry[t] \in Executors
    BY DEF IInv, TypeOK, Executors
  <2>2. \A t \in Sessions : tableEntry'[t] \in {0, tableEntry[t]}
    BY <1>7
  <2> QED BY <1>2, <1>3, <1>6, <2>1, <2>2 DEF IInv, Others, TableOwned
<1>13. ServingHolds(req', ex', lease', disk')
  <2> SUFFICES ASSUME NEW f \in Executors, ex'[f].pc = "serving"
               PROVE  /\ lease' = f
                      /\ ex'[f].work = "validated" =>
                           disk' = req'[ex'[f].job].base \/ disk' \in Foreign
    BY DEF ServingHolds
  <2>1. ex[f].pc = "serving" /\ ex'[f].work = ex[f].work /\ ex'[f].job = ex[f].job
    BY <1>6
  <2>2. ex[f].work = "validated" => req'[ex[f].job].base = req[ex[f].job].base
    BY <1>5 DEF IInv, Queues, WorkAtHead
  <2> QED BY <1>4, <2>1, <2>2 DEF IInv, Others, ServingHolds
<1>14. Honest(req', landed')
  BY <1>4, <1>5 DEF IInv, Others, Honest
<1>15. Tracked(ex', tableEntry')
  <2> SUFFICES ASSUME NEW f \in Executors, ex'[f].pc \in {"booting", "serving"}
               PROVE  tableEntry'[ex'[f].sess] = f \/ ex'[f].stop \/ ex'[f].kill
    BY DEF Tracked
  <2>1. CASE f = e
    BY <1>6, <2>1
  <2>2. CASE f # e
    <3>1. ex'[f] = ex[f] /\ ex[f].sess \in Sessions
      BY <1>6, <2>2 DEF IInv, Others, TableOwned
    <3> QED BY <1>7, <2>2, <3>1 DEF IInv, Others, Tracked
  <2> QED BY <2>1, <2>2
<1> QED BY <1>8, <1>9, <1>10, <1>11, <1>12, <1>13, <1>14, <1>15 DEF IInv, Others

\* The revoked session's executor leaves the table, stopped.
LEMMA RevokePreserves ==
    ASSUME IInv, Revoke
    PROVE  IInv'
<1> DEFINE e == tableEntry[active]
<1>1. active \in Sessions /\ e \in 0 .. MaxExecutor /\ ex \in [Executors -> Executor]
      /\ (e # 0 => e \in Executors /\ ex[e].sess = active /\ ex[e] \in Executor)
  BY DEF IInv, TypeOK, Others, TableOwned, Revoke, Sessions, Executors
<1>2. /\ fence' = [fence EXCEPT ![active] = "revoked"]
      /\ grant' = [grant EXCEPT ![active] = NoContents]
      /\ tableEntry' = [tableEntry EXCEPT ![active] = 0]
      /\ ex' = IF e = 0 THEN ex ELSE [ex EXCEPT ![e] = [ex[e] EXCEPT !.stop = TRUE]]
      /\ UNCHANGED <<active, queue, req, lease, disk, landed>>
  BY DEF Revoke
<1>3. /\ ex' \in [Executors -> Executor] /\ \A f \in Executors : f # e => ex'[f] = ex[f]
      /\ \A f \in Executors :
            /\ ex'[f].sess = ex[f].sess /\ ex'[f].pc = ex[f].pc /\ ex'[f].work = ex[f].work
            /\ ex'[f].job = ex[f].job /\ ex'[f].reply = ex[f].reply
            /\ ex[f].stop => ex'[f].stop
            /\ ex'[f].kill = ex[f].kill
      /\ e # 0 => ex'[e].stop
  <2>1. CASE e = 0
    BY <1>1, <1>2, <2>1
  <2>2. CASE e # 0
    <3>1. [ex[e] EXCEPT !.stop = TRUE] \in Executor
      BY <1>1, <2>2 DEF Executor
    <3>2. ex' = [ex EXCEPT ![e] = [ex[e] EXCEPT !.stop = TRUE]]
      BY <1>2, <2>2
    <3> QED BY <1>1, <2>2, <3>1, <3>2 DEF Executor
  <2> QED BY <2>1, <2>2
<1>4. /\ tableEntry' \in [Sessions -> 0 .. MaxExecutor] /\ tableEntry'[active] = 0
      /\ \A t \in Sessions : t # active => tableEntry'[t] = tableEntry[t]
  BY <1>1, <1>2, Names DEF IInv, TypeOK
<1>5. e # 0 => ex[e].pc # "unforked"
  <2>1. UnforkedExecutor.sess = 0 /\ active # 0
    BY <1>1, Names DEF UnforkedExecutor
  <2> QED BY <1>1, <2>1 DEF IInv, Others, TableOwned
<1> HIDE DEF e
<1>6. TypeOK'
  BY <1>2, <1>3, <1>4 DEF IInv, TypeOK, FenceState
<1>7. Queues(queue', req', ex', landed')
  <2>1. \A x \in Requests : Kept(req[x], req'[x])
    BY <1>2 DEF Kept
  <2>2. NoneStarts
    BY <1>3 DEF NoneStarts
  <2> QED BY <1>2, <2>1, <2>2, QueuesStay DEF Queues
<1>8. WorkFits(ex', landed')
  BY <1>2, <1>3 DEF IInv, WorkFits
<1>9. NotQueuedYet(req', ex', landed')
  BY <1>2, <1>3 DEF IInv, Others, NotQueuedYet
<1>10. TableOwned(ex', tableEntry')
  <2>1. \A t \in Sessions : tableEntry[t] # 0 => tableEntry[t] \in Executors
    BY DEF IInv, TypeOK, Executors
  <2>2. \A t \in Sessions : tableEntry'[t] \in {0, tableEntry[t]}
    BY <1>4
  <2>3. \A f \in Executors : ex[f].pc = "unforked" => ex'[f] = ex[f]
    BY <1>1, <1>3, <1>5, Names
  <2> QED BY <1>3, <2>1, <2>2, <2>3 DEF IInv, Others, TableOwned
<1>11. ServingHolds(req', ex', lease', disk')
  BY <1>2, <1>3 DEF IInv, Others, ServingHolds
<1>12. Tracked(ex', tableEntry')
  <2> SUFFICES ASSUME NEW f \in Executors, ex'[f].pc \in {"booting", "serving"}
               PROVE  tableEntry'[ex'[f].sess] = f \/ ex'[f].stop \/ ex'[f].kill
    BY DEF Tracked
  <2>1. tableEntry[ex[f].sess] = f \/ ex[f].stop \/ ex[f].kill
    BY <1>3 DEF IInv, Others, Tracked
  <2>2. ex[f].sess \in Sessions /\ f # 0
    BY <1>3, Names DEF IInv, Others, TableOwned
  <2>3. CASE ex[f].sess = active /\ tableEntry[ex[f].sess] = f
    BY <1>3, <2>2, <2>3 DEF e
  <2>4. CASE ~(ex[f].sess = active /\ tableEntry[ex[f].sess] = f)
    BY <1>3, <1>4, <2>1, <2>2, <2>4
  <2> QED BY <2>3, <2>4
<1> QED BY <1>2, <1>6, <1>7, <1>8, <1>9, <1>10, <1>11, <1>12 DEF IInv, Others

-----------------------------------------------------------------------------
(* The inductive invariant.                                                *)

LEMMA InitEstablishes == Init => IInv
<1> SUFFICES ASSUME Init PROVE IInv
  OBVIOUS
<1>1. /\ \A s \in Sessions : queue[s] = <<>> /\ tableEntry[s] = 0
      /\ \A r \in Requests : req[r].pc = "idle" /\ req[r].answer = "none"
      /\ \A e \in Executors : ex[e] = UnforkedExecutor
      /\ landed = {}
  BY DEF Init
<1>2. TypeOK
  <2>1. UnforkedExecutor \in Executor
    BY DEF UnforkedExecutor, Executor, Work
  <2>2. [pc |-> "idle", sess |-> 0, base |-> NoContents, exec |-> 0, answer |-> "none"] \in Request
    BY DEF Request
  <2>3. req \in [Requests -> Request] /\ ex \in [Executors -> Executor]
    BY <2>1, <2>2 DEF Init
  <2>4. active \in 0 .. MaxSession /\ lease \in 0 .. MaxExecutor /\ disk \in Contents
    BY WriteAssumption DEF Init, Contents
  <2>5. queue \in [Sessions -> Seq(Requests)]
    <3>1. <<>> \in Seq(Requests)
      OBVIOUS
    <3> QED BY <3>1 DEF Init
  <2>6. /\ fence \in [Sessions -> FenceState] /\ tableEntry \in [Sessions -> 0 .. MaxExecutor]
        /\ grant \in [Sessions -> Contents \cup {NoContents}]
    BY Names DEF Init, FenceState
  <2> QED BY <1>1, <2>3, <2>4, <2>5, <2>6 DEF TypeOK
<1>3. Queues(queue, req, ex, landed)
  <2>1. \A s \in Sessions : DOMAIN queue[s] = {}
    BY <1>1
  <2>2. \A e \in Executors : ex[e].work = "none"
    BY <1>1 DEF UnforkedExecutor
  <2> QED BY <2>1, <2>2 DEF Queues, QueuedOwned, QueuedOnce, WorkAtHead, TailUnlanded
<1>4. WorkFits(ex, landed)
  BY <1>1 DEF WorkFits, UnforkedExecutor
<1>5. NotQueuedYet(req, ex, landed) /\ Honest(req, landed)
  BY <1>1 DEF NotQueuedYet, Honest
<1>6. TableOwned(ex, tableEntry)
  <2>1. UnforkedExecutor.pc = "unforked"
    BY DEF UnforkedExecutor
  <2> QED BY <1>1, <2>1 DEF TableOwned
<1>7. ServingHolds(req, ex, lease, disk) /\ Tracked(ex, tableEntry)
  BY <1>1 DEF ServingHolds, Tracked, UnforkedExecutor
<1> QED BY <1>2, <1>3, <1>4, <1>5, <1>6, <1>7 DEF IInv, Others

LEMMA NextPreserves == IInv /\ [Next]_vars => IInv'
<1> SUFFICES ASSUME IInv, [Next]_vars PROVE IInv'
  OBVIOUS
<1>1. /\ active \in 0 .. MaxSession /\ fence \in [Sessions -> FenceState]
      /\ grant \in [Sessions -> Contents \cup {NoContents}] /\ disk \in Contents
  BY DEF IInv, TypeOK
<1>2. ASSUME NEW c \in Foreign, ForeignWrite(c) PROVE IInv'
  BY <1>1, <1>2, TransitionPreserves DEF ForeignWrite
<1>3. ASSUME NEW r \in Requests, Arrive(r) PROVE IInv'
  BY <1>3, ArrivePreserves
<1>4. ASSUME NEW r \in Requests, Planned(r) PROVE IInv'
  BY <1>4, PlannedPreserves
<1>5. ASSUME NEW r \in Requests, BootReady(r) PROVE IInv'
  BY <1>5, BootReadyPreserves
<1>6. ASSUME NEW r \in Requests, Timeout(r) PROVE IInv'
  BY <1>6, TimeoutPreserves
<1>7. ASSUME NEW e \in Executors, OutcomeArrives(e) PROVE IInv'
  BY <1>7, OutcomeArrivesPreserves
<1>8. ASSUME NEW e \in Executors, ExitObserved(e) PROVE IInv'
  BY <1>8, ExitObservedPreserves
<1>9. ASSUME NEW e \in Executors, StopTimesOut(e) PROVE IInv'
  BY <1>9, StopTimesOutPreserves
<1>10. ASSUME NEW e \in Executors, Boot(e) PROVE IInv'
  BY <1>10, BootPreserves
<1>11. ASSUME NEW e \in Executors, Validate(e) PROVE IInv'
  BY <1>11, ValidatePreserves
<1>12. ASSUME NEW e \in Executors, Rename(e) PROVE IInv'
  BY <1>12, RenamePreserves
<1>13. ASSUME NEW e \in Executors, WriteFails(e) PROVE IInv'
  BY <1>13, ReportPreserves DEF WriteFails
<1>14. ASSUME NEW e \in Executors, ReplyCommitted(e) PROVE IInv'
  BY <1>14, ReportPreserves DEF ReplyCommitted
<1>15. ASSUME NEW e \in Executors, ChildExits(e) PROVE IInv'
  BY <1>15, ChildExitsPreserves
<1>16. CASE SealFence
  <2>1. fence' \in [Sessions -> FenceState]
    BY <1>1, <1>16 DEF SealFence, FenceState
  <2> QED BY <1>1, <1>16, <2>1, TransitionPreserves DEF SealFence
<1>17. CASE ResumeFence
  <2>1. fence' \in [Sessions -> FenceState]
    BY <1>1, <1>17 DEF ResumeFence, FenceState
  <2> QED BY <1>1, <1>17, <2>1, TransitionPreserves DEF ResumeFence
<1>18. CASE Revoke
  BY <1>18, RevokePreserves
<1>19. CASE SessionDies
  <2>1. active' \in 0 .. MaxSession
    BY <1>19, WriteAssumption DEF SessionDies
  <2> QED BY <1>1, <1>19, <2>1, TransitionPreserves DEF SessionDies
<1>20. ASSUME NEW s \in Sessions, Issue(s) PROVE IInv'
  <2>1. grant' \in [Sessions -> Contents \cup {NoContents}]
    BY <1>1, <1>20 DEF Issue
  <2> QED BY <1>1, <1>20, <2>1, TransitionPreserves DEF Issue
<1>21. ASSUME NEW s \in Sessions, Adopt(s) PROVE IInv'
  <2>1. fence' \in [Sessions -> FenceState] /\ active' \in 0 .. MaxSession
    BY <1>1, <1>21 DEF Adopt, FenceState, Sessions
  <2> QED BY <1>1, <1>21, <2>1, TransitionPreserves DEF Adopt
<1>22. CASE UNCHANGED vars
  BY <1>1, <1>22, TransitionPreserves DEF vars
<1> QED
  BY <1>2, <1>3, <1>4, <1>5, <1>6, <1>7, <1>8, <1>9, <1>10, <1>11, <1>12, <1>13, <1>14,
     <1>15, <1>16, <1>17, <1>18, <1>19, <1>20, <1>21, <1>22 DEF Next

LEMMA InvariantHolds == Spec => []IInv
<1>1. Init => IInv
  BY InitEstablishes
<1>2. IInv /\ [Next]_vars => IInv'
  BY NextPreserves
<1> QED BY <1>1, <1>2, PTL DEF Spec

-----------------------------------------------------------------------------
(* The theorems.                                                           *)

\* The queues, handles and requests stay well formed, however many sessions come
\* and go.
THEOREM WriteTypeCorrect == Spec => []TypeOK
<1>1. IInv => TypeOK
  BY DEF IInv
<1> QED BY <1>1, InvariantHolds, PTL

\* What applyEdit answers is true of the file: a committed edit landed, a
\* conflicting or draining one never does, whatever timed out or exited.
THEOREM AnswersAreHonest == Spec => []HonestAnswers
<1>1. IInv => HonestAnswers
  BY DEF IInv, Others, Honest, HonestAnswers
<1> QED BY <1>1, InvariantHolds, PTL

\* A live executor is in its session's table entry, or a stop or a kill is on its
\* way: the identity guard of the eviction never loses a successor.
THEOREM NoExecutorIsStranded == Spec => []NoStrandedExecutor
<1>1. IInv => NoStrandedExecutor
  BY DEF IInv, Others, Tracked, NoStrandedExecutor, Alive
<1> QED BY <1>1, InvariantHolds, PTL

\* Two executors never have the file at once.
THEOREM OneServingExecutor ==
    Spec => [](\A e, f \in Executors : ex[e].pc = "serving" /\ ex[f].pc = "serving" => e = f)
<1>1. IInv => \A e, f \in Executors : ex[e].pc = "serving" /\ ex[f].pc = "serving" => e = f
  BY DEF IInv, Others, ServingHolds
<1> QED BY <1>1, InvariantHolds, PTL

\* Between its recheck and its rename an executor can only lose a foreign write:
\* no edit overwrites an edit it was not based on.
THEOREM EditsNeverOverwriteBlindly == Spec => NoBlindOverwrite
<1> DEFINE Sighted ==
      \A r \in Requests : disk' = r /\ disk # r => disk = req[r].base \/ disk \in Foreign
<1>1. IInv /\ [Next]_vars => Sighted
  <2> SUFFICES ASSUME IInv, [Next]_vars, NEW r \in Requests, disk' = r, disk # r
               PROVE  disk = req[r].base \/ disk \in Foreign
    OBVIOUS
  <2>1. CASE \E e \in Executors : Rename(e)
    <3>1. PICK e \in Executors : Rename(e)
      BY <2>1
    <3>2. ex[e].pc = "serving" /\ ex[e].work = "validated" /\ ex[e].job = r
      BY <3>1 DEF Rename
    <3> QED BY <3>2 DEF IInv, Others, ServingHolds
  <2>2. CASE \E c \in Foreign : ForeignWrite(c)
    BY <2>2, WriteAssumption DEF ForeignWrite
  <2>3. CASE disk' = disk
    BY <2>3
  <2> QED
    BY <2>1, <2>2, <2>3
       DEF Next, vars, Arrive, Planned, BootReady, Timeout, OutcomeArrives, ExitObserved,
           StopTimesOut, Boot, Validate, WriteFails, ReplyCommitted, ChildExits, SealFence,
           ResumeFence, Revoke, SessionDies, Issue, Adopt
<1> QED BY <1>1, InvariantHolds, PTL DEF Spec, NoBlindOverwrite

-----------------------------------------------------------------------------
(* The refinement of EditContract.                                         *)

\* The texts the file may have had.
Known == Foreign \cup landed

\* What a request was planned on, what a grant is bound to and what the file
\* holds are texts the file has had, and only an answered request has an answer.
Based ==
    /\ disk \in Known
    /\ \A s \in Sessions : grant[s] \in Known \cup {NoContents}
    /\ \A r \in Requests :
          /\ IF req[r].pc = "idle" THEN req[r].base = NoContents ELSE req[r].base \in Known
          /\ req[r].pc # "answered" => req[r].answer = "none"

\* A request that was asked for may move on and be answered, once.
Moved(r1, r2) ==
    /\ r2.base = r1.base
    /\ \/ r2.pc = r1.pc /\ r2.answer = r1.answer
       \/ /\ r1.pc \notin {"idle", "answered"} /\ r2.pc # "idle"
          /\ r2.pc = "answered" \/ r2.answer = r1.answer

\* A submitted request is answered.
Closed(r1, r2) ==
    \/ r2 = r1
    \/ r1.pc = "submitted" /\ r2.pc = "answered" /\ r2.base = r1.base

LEMMA MovedThenClosed ==
    ASSUME NEW r1, NEW r2, NEW r3, Moved(r1, r2), Closed(r2, r3)
    PROVE  Moved(r1, r3)
BY DEF Moved, Closed

\* pump() only answers submitted requests.
LEMMA PumpCloses ==
    ASSUME NEW s \in Sessions, NEW q \in Seq(Requests),
           NEW R \in [Requests -> Request], NEW E \in [Executors -> Executor],
           Pump(s, q, R, E)
    PROVE  \A r \in Requests : Closed(R[r], req'[r])
<1>1. \A r \in Requests : Same(R[r], req'[r])
  BY PumpDispatches DEF Pumped
<1>2. \A r \in Requests : R[r] \in Request
  OBVIOUS
<1> QED BY <1>1, <1>2, SameFields DEF Closed

LEMMA SubmitMoves ==
    ASSUME IInv, NEW r \in Requests, NEW s \in Sessions, NEW e \in Executors,
           req[r].pc \in {"planning", "booting"}, Submit(r, s, e, ex)
    PROVE  \A x \in Requests : Moved(req[x], req'[x])
<1>1. /\ req \in [Requests -> Request] /\ ex \in [Executors -> Executor] /\ req[r] \in Request
  BY DEF IInv, TypeOK
<1>2. CASE fence[s] = "open"
  <2> DEFINE R == [req EXCEPT ![r].pc = "submitted", ![r].exec = e]
  <2>1. R = [req EXCEPT ![r] = [req[r] EXCEPT !.pc = "submitted", !.exec = e]]
    BY <1>1
  <2>2. [req[r] EXCEPT !.pc = "submitted", !.exec = e] \in Request
    BY <1>1 DEF Request
  <2>3. R \in [Requests -> Request] /\ \A x \in Requests : Moved(req[x], R[x])
    BY <1>1, <2>1, <2>2 DEF Request, Moved
  <2>4. IF queue[s] = <<>> THEN Pump(s, <<r>>, R, ex) ELSE req' = R
    BY <1>2 DEF Submit
  <2> HIDE DEF R
  <2>5. CASE queue[s] = <<>>
    <3>1. <<r>> \in Seq(Requests)
      OBVIOUS
    <3>2. \A x \in Requests : Closed(R[x], req'[x])
      BY <1>1, <2>3, <2>4, <2>5, <3>1, PumpCloses
    <3> QED BY <2>3, <3>2, MovedThenClosed
  <2>6. CASE queue[s] # <<>>
    BY <2>3, <2>4, <2>6
  <2> QED BY <2>5, <2>6
<1>3. CASE fence[s] # "open"
  <2>1. req' = [req EXCEPT ![r] = [req[r] EXCEPT !.pc = "answered", !.answer = "draining"]]
    BY <1>1, <1>3 DEF Submit
  <2> QED BY <1>1, <2>1 DEF Request, Moved
<1> QED BY <1>2, <1>3

\* An operation settles: its request is answered, and so is everyone the pump
\* refuses then.
LEMMA SettlesMoves ==
    ASSUME IInv, NEW e \in Executors, ex[e].work # "none", NEW outcome,
           NEW R0 \in [Requests -> Request], NEW E0 \in [Executors -> Executor],
           \A r \in Requests : Moved(req[r], R0[r]),
           Settles(e, outcome, R0, E0)
    PROVE  /\ \A r \in Requests : Moved(req[r], req'[r])
           /\ \A s \in Sessions : grant'[s] = disk \/ grant'[s] = grant[s]
<1> DEFINE s == ex[e].sess
           x == ex[e].job
           answer == AnswerFor(outcome)
           R == Answered(R0, x, answer)
<1>1. /\ queue \in [Sessions -> Seq(Requests)]
      /\ grant \in [Sessions -> Contents \cup {NoContents}]
  BY DEF IInv, TypeOK
<1>2. s \in Sessions /\ x \in Requests /\ 1 \in DOMAIN queue[s]
  BY DEF IInv, Queues, WorkAtHead
<1>3. Tail(queue[s]) \in Seq(Requests)
  <2>1. queue[s] \in Seq(Requests) /\ queue[s] # <<>>
    BY <1>1, <1>2
  <2> QED BY <2>1, HeadTailProperties
<1>4. answer \in Answers
  BY DEF AnswerFor, Answers
<1> HIDE DEF answer
<1>5. R \in [Requests -> Request] /\ \A r \in Requests : Closed(R0[r], R[r])
  <2>1. R0[x] \in Request
    BY <1>2
  <2>2. CASE R0[x].pc = "submitted"
    <3>1. R = [R0 EXCEPT ![x] = [R0[x] EXCEPT !.pc = "answered", !.answer = answer]]
      BY <1>2, <2>2 DEF Answered
    <3>2. [R0[x] EXCEPT !.pc = "answered", !.answer = answer] \in Request
      BY <1>4, <2>1 DEF Request, Answers
    <3> QED BY <1>2, <2>1, <2>2, <3>1, <3>2 DEF Request, Closed
  <2>3. CASE R0[x].pc # "submitted"
    BY <2>3 DEF Answered, Closed
  <2> QED BY <2>2, <2>3
<1>6. Pump(s, Tail(queue[s]), R, E0)
  BY DEF Settles, answer
<1>7. grant' = grant \/ (grant' = [grant EXCEPT ![s] = x] /\ disk = x)
  BY DEF Settles
<1> HIDE DEF R
<1>8. \A r \in Requests : Closed(R[r], req'[r])
  BY <1>2, <1>3, <1>5, <1>6, PumpCloses
<1>9. \A r \in Requests : Moved(req[r], req'[r])
  BY <1>5, <1>8, MovedThenClosed
<1>10. \A t \in Sessions : grant'[t] = disk \/ grant'[t] = grant[t]
  BY <1>1, <1>2, <1>7
<1> QED BY <1>9, <1>10

\* What the steps that neither plan nor write do: requests move, and a grant is
\* kept, dropped or bound to what the file holds.
OnlyMoves ==
    /\ \A r \in Requests : Moved(req[r], req'[r])
    /\ \A s \in Sessions : grant'[s] \in {disk, grant[s], NoContents}
    /\ UNCHANGED landed

LEMMA RequestsMove ==
    ASSUME IInv, [Next]_vars
    PROVE  \/ \E r \in Requests : Arrive(r)
           \/ \E e \in Executors : Rename(e)
           \/ OnlyMoves /\ (disk' = disk \/ \E c \in Foreign : ForeignWrite(c))
<1>0. /\ req \in [Requests -> Request] /\ ex \in [Executors -> Executor]
      /\ grant \in [Sessions -> Contents \cup {NoContents}]
      /\ tableEntry \in [Sessions -> 0 .. MaxExecutor]
  BY DEF IInv, TypeOK
<1>a. ASSUME UNCHANGED <<req, grant, landed>> PROVE OnlyMoves
  BY <1>a DEF OnlyMoves, Moved
<1>1. CASE UNCHANGED <<req, grant, landed, disk>>
  BY <1>1, <1>a
<1>2. ASSUME NEW c \in Foreign, ForeignWrite(c) PROVE OnlyMoves
  BY <1>2, <1>a DEF ForeignWrite
<1>3. ASSUME NEW r \in Requests, Planned(r) PROVE OnlyMoves /\ disk' = disk
  <2> DEFINE s == req[r].sess
  <2>1. /\ req[r].pc = "planning" /\ s \in Sessions /\ req[r] \in Request
        /\ UNCHANGED <<grant, disk, landed>>
    BY <1>0, <1>3 DEF IInv, Others, NotQueuedYet, Planned
  <2>2. CASE req' = [req EXCEPT ![r].pc = "answered", ![r].answer = "conflict"]
    <3>1. req' = [req EXCEPT ![r] = [req[r] EXCEPT !.pc = "answered", !.answer = "conflict"]]
      BY <2>2
    <3> QED BY <1>0, <2>1, <3>1 DEF Request, Moved, OnlyMoves
  <2>3. CASE tableEntry[s] # 0 /\ Submit(r, s, tableEntry[s], ex)
    <3>1. tableEntry[s] \in Executors
      BY <1>0, <2>1, <2>3 DEF Executors
    <3> QED BY <2>1, <2>3, <3>1, SubmitMoves DEF OnlyMoves
  <2>4. CASE \E e : req' = [req EXCEPT ![r].pc = "booting", ![r].exec = e]
    <3>1. PICK e : req' = [req EXCEPT ![r] = [req[r] EXCEPT !.pc = "booting", !.exec = e]]
      BY <2>4
    <3> QED BY <1>0, <2>1, <3>1 DEF Request, Moved, OnlyMoves
  <2> QED BY <1>3, <2>1, <2>2, <2>3, <2>4 DEF Planned
<1>4. ASSUME NEW r \in Requests, BootReady(r) PROVE OnlyMoves /\ disk' = disk
  <2>1. /\ req[r].pc = "booting" /\ req[r].sess \in Sessions /\ req[r].exec \in Executors
        /\ Submit(r, req[r].sess, req[r].exec, ex) /\ UNCHANGED <<grant, disk, landed>>
    BY <1>4 DEF IInv, Others, NotQueuedYet, BootReady
  <2> QED BY <2>1, SubmitMoves DEF OnlyMoves
<1>5. ASSUME NEW r \in Requests, Timeout(r) PROVE OnlyMoves /\ disk' = disk
  <2>1. /\ req' = [req EXCEPT ![r] = [req[r] EXCEPT !.pc = "answered", !.answer = "uncertain"]]
        /\ req[r].pc = "submitted" /\ req[r] \in Request
        /\ UNCHANGED <<grant, disk, landed>>
    BY <1>0, <1>5 DEF Timeout, TimesOut
  <2> QED BY <1>0, <2>1 DEF Request, Moved, OnlyMoves
<1>6. ASSUME NEW e \in Executors, OutcomeArrives(e) PROVE OnlyMoves /\ disk' = disk
  <2> DEFINE E == [ex EXCEPT ![e].job = NoContents, ![e].work = "none", ![e].reply = "none"]
  <2>1. /\ ex[e].work # "none" /\ Settles(e, ex[e].reply, req, E)
        /\ UNCHANGED <<disk, landed>> /\ ex[e] \in Executor
    BY <1>0, <1>6 DEF OutcomeArrives
  <2>2. E \in [Executors -> Executor]
    <3>1. E = [ex EXCEPT ![e] = [ex[e] EXCEPT !.job = NoContents, !.work = "none", !.reply = "none"]]
      BY <1>0
    <3>2. [ex[e] EXCEPT !.job = NoContents, !.work = "none", !.reply = "none"] \in Executor
      BY <2>1 DEF Executor, Work
    <3> QED BY <1>0, <3>1, <3>2
  <2>3. \A r \in Requests : Moved(req[r], req[r])
    BY DEF Moved
  <2> HIDE DEF E
  <2>4. /\ \A r \in Requests : Moved(req[r], req'[r])
        /\ \A s \in Sessions : grant'[s] = disk \/ grant'[s] = grant[s]
    BY <1>0, <2>1, <2>2, <2>3, SettlesMoves
  <2> QED BY <2>1, <2>4 DEF OnlyMoves
<1>7. ASSUME NEW e \in Executors, ExitObserved(e) PROVE OnlyMoves /\ disk' = disk
  <2> DEFINE s == ex[e].sess
             R == [r \in Requests |->
                     IF req[r].pc = "booting" /\ req[r].exec = e
                     THEN [req[r] EXCEPT !.pc = "answered", !.answer = "uncertain"]
                     ELSE req[r]]
             E == [ex EXCEPT ![e] = [UnforkedExecutor EXCEPT !.sess = s, !.pc = "gone"]]
  <2>1. /\ IF ex[e].work = "none"
           THEN req' = R /\ ex' = E /\ UNCHANGED <<queue, grant>>
           ELSE Settles(e, ExitOutcome, R, E)
        /\ UNCHANGED <<disk, landed>> /\ ex[e] \in Executor
    BY <1>0, <1>7 DEF ExitObserved
  <2>2. E \in [Executors -> Executor]
    <3>1. [UnforkedExecutor EXCEPT !.sess = s, !.pc = "gone"] \in Executor
      BY <2>1 DEF Executor, UnforkedExecutor, Work
    <3> QED BY <1>0, <3>1
  <2>3. R \in [Requests -> Request] /\ \A r \in Requests : Moved(req[r], R[r])
    <3>1. ASSUME NEW r \in Requests PROVE R[r] \in Request /\ Moved(req[r], R[r])
      <4>1. req[r] \in Request
        BY <1>0
      <4>2. [req[r] EXCEPT !.pc = "answered", !.answer = "uncertain"] \in Request
        BY <4>1 DEF Request, Answers
      <4>3. R[r] = IF req[r].pc = "booting" /\ req[r].exec = e
                   THEN [req[r] EXCEPT !.pc = "answered", !.answer = "uncertain"]
                   ELSE req[r]
        OBVIOUS
      <4> HIDE DEF R
      <4> QED BY <4>1, <4>2, <4>3 DEF Request, Moved
    <3> QED BY <3>1
  <2> HIDE DEF R, E
  <2>4. CASE ex[e].work = "none"
    BY <2>1, <2>3, <2>4 DEF OnlyMoves
  <2>5. CASE ex[e].work # "none"
    <3>1. /\ \A r \in Requests : Moved(req[r], req'[r])
          /\ \A t \in Sessions : grant'[t] = disk \/ grant'[t] = grant[t]
      BY <2>1, <2>2, <2>3, <2>5, SettlesMoves
    <3> QED BY <2>1, <3>1 DEF OnlyMoves
  <2> QED BY <2>4, <2>5
<1>8. CASE Revoke
  <2>1. active \in Sessions /\ grant' = [grant EXCEPT ![active] = NoContents]
        /\ UNCHANGED <<req, disk, landed>>
    BY <1>8 DEF Revoke, IInv, TypeOK, Sessions
  <2> QED BY <1>0, <2>1 DEF OnlyMoves, Moved
<1>9. ASSUME NEW s \in Sessions, Issue(s) PROVE OnlyMoves /\ disk' = disk
  BY <1>0, <1>9 DEF Issue, OnlyMoves, Moved
<1>10. CASE UNCHANGED vars
  BY <1>1, <1>10 DEF vars
<1>11. ASSUME NEW e \in Executors,
              StopTimesOut(e) \/ Boot(e) \/ Validate(e) \/ WriteFails(e)
                \/ ReplyCommitted(e) \/ ChildExits(e)
       PROVE  UNCHANGED <<req, grant, landed, disk>>
  BY <1>11 DEF StopTimesOut, Boot, Validate, WriteFails, ReplyCommitted, ChildExits, ChildOnly
<1>12. ASSUME SealFence \/ ResumeFence \/ SessionDies
       PROVE  UNCHANGED <<req, grant, landed, disk>>
  BY <1>12 DEF SealFence, ResumeFence, SessionDies
<1>13. ASSUME NEW s \in Sessions, Adopt(s)
       PROVE  UNCHANGED <<req, grant, landed, disk>>
  BY <1>13 DEF Adopt
<1> QED
  BY <1>1, <1>2, <1>3, <1>4, <1>5, <1>6, <1>7, <1>8, <1>9, <1>10, <1>11, <1>12, <1>13 DEF Next

LEMMA KnownTexts == NoContents \notin Foreign \cup Requests /\ Foreign # {}
BY WriteAssumption

LEMMA ArriveShows ==
    ASSUME IInv, NEW r \in Requests, Arrive(r)
    PROVE  /\ active \in Sessions /\ grant[active] # NoContents
           /\ req[r] \in Request /\ req[r].pc = "idle"
           /\ req' = [req EXCEPT ![r] = [req[r] EXCEPT !.pc = "planning", !.sess = active,
                                                      !.base = grant[active]]]
           /\ UNCHANGED <<grant, disk, landed>>
<1>1. active \in Sessions
  BY DEF IInv, TypeOK, Arrive, Sessions
<1>2. req[r] \in Request
  BY DEF IInv, TypeOK
<1>3. /\ grant[active] # NoContents /\ req[r].pc = "idle"
      /\ UNCHANGED <<grant, disk, landed>>
  BY DEF Arrive
<1>4. req' = [req EXCEPT ![r] = [req[r] EXCEPT !.pc = "planning", !.sess = active,
                                               !.base = grant[active]]]
  BY DEF Arrive
<1> QED BY <1>1, <1>2, <1>3, <1>4

LEMMA InitBased == Init => Based
BY DEF Init, Based, Known

LEMMA StepBased ==
    ASSUME IInv, Based, [Next]_vars
    PROVE  Based'
<1>0. /\ req \in [Requests -> Request]
      /\ grant \in [Sessions -> Contents \cup {NoContents}]
  BY DEF IInv, TypeOK
<1>1. ASSUME OnlyMoves, disk' = disk \/ \E c \in Foreign : ForeignWrite(c)
      PROVE  Based'
  <2>1. landed' = landed /\ disk' \in Known /\ Known' = Known
    BY <1>1 DEF Based, Known, OnlyMoves, ForeignWrite
  <2>2. \A s \in Sessions : grant'[s] \in Known \cup {NoContents}
    BY <1>1 DEF OnlyMoves, Based
  <2>3. ASSUME NEW r \in Requests
        PROVE  /\ IF req'[r].pc = "idle" THEN req'[r].base = NoContents
                                         ELSE req'[r].base \in Known
               /\ req'[r].pc # "answered" => req'[r].answer = "none"
    BY <1>1 DEF OnlyMoves, Moved, Based
  <2> QED BY <2>1, <2>2, <2>3 DEF Based
<1>2. ASSUME NEW r \in Requests, Arrive(r) PROVE Based'
  <2>1. /\ active \in Sessions /\ grant[active] # NoContents
        /\ req[r] \in Request /\ req[r].pc = "idle"
        /\ req' = [req EXCEPT ![r] = [req[r] EXCEPT !.pc = "planning", !.sess = active,
                                                   !.base = grant[active]]]
        /\ UNCHANGED <<grant, disk, landed>>
    BY <1>2, ArriveShows
  <2>2. grant[active] \in Known
    BY <2>1 DEF Based
  <2>3. /\ req'[r].pc = "planning" /\ req'[r].base = grant[active]
        /\ req'[r].answer = req[r].answer
        /\ \A x \in Requests : x # r => req'[x] = req[x]
    BY <1>0, <2>1 DEF Request
  <2>4. req[r].answer = "none"
    BY <2>1 DEF Based
  <2> QED BY <2>1, <2>2, <2>3, <2>4 DEF Based, Known
<1>3. ASSUME NEW e \in Executors, Rename(e) PROVE Based'
  <2>1. /\ disk' \in landed' /\ landed \subseteq landed' /\ UNCHANGED <<grant, req>>
    BY <1>3 DEF Rename, ChildOnly
  <2> QED BY <2>1 DEF Based, Known
<1> QED BY <1>1, <1>2, <1>3, RequestsMove

\* An answer is one the edit may be told.
LEMMA AnswersFit ==
    ASSUME IInv', OnlyMoves, Based, NEW r \in Requests, req'[r].answer # req[r].answer
    PROVE  /\ req[r].base # NoContents /\ req[r].answer = "none"
           /\ req'[r].answer \in {"uncertain"} \cup IF r \in landed THEN {"committed"}
                                                    ELSE {"conflict", "draining"}
<1>1. Moved(req[r], req'[r]) /\ landed' = landed
  BY DEF OnlyMoves
<1>2. req[r].pc \notin {"idle", "answered"}
  BY <1>1 DEF Moved
<1>3. req[r].answer = "none" /\ req[r].base \in Known
  BY <1>2 DEF Based
<1>4. req[r].base # NoContents
  <2>1. landed' \subseteq Requests
    BY DEF IInv, TypeOK
  <2> QED BY <1>1, <1>3, <2>1, KnownTexts DEF Known
<1>5. req'[r].answer \in Answers
  <2>1. req'[r] \in Request
    BY DEF IInv, TypeOK
  <2> QED BY <1>3, <2>1 DEF Request
<1>6. /\ req'[r].answer = "committed" => r \in landed
      /\ req'[r].answer \in {"conflict", "draining"} => r \notin landed
  BY <1>1 DEF IInv, Others, Honest
<1> QED BY <1>3, <1>4, <1>5, <1>6 DEF Answers

LEMMA StepKeepsContract ==
    ASSUME IInv, IInv', Based, [Next]_vars
    PROVE  [Contract!Next]_(Contract!vars)
<1> DEFINE base == [r \in Requests |-> req[r].base]
           answer == [r \in Requests |-> req[r].answer]
<1>0. req \in [Requests -> Request] /\ req' \in [Requests -> Request] /\ landed \subseteq Requests
  BY DEF IInv, TypeOK
<1>1. ASSUME OnlyMoves PROVE base' = base
  BY <1>1 DEF OnlyMoves, Moved
<1>2. ASSUME NEW c \in Foreign, ForeignWrite(c) PROVE Contract!OutsideWrite
  BY <1>2 DEF ForeignWrite, Contract!OutsideWrite
<1>3. ASSUME NEW r \in Requests, Arrive(r) PROVE Contract!Plan
  <2>1. /\ active \in Sessions /\ grant[active] # NoContents
        /\ req[r] \in Request /\ req[r].pc = "idle"
        /\ req' = [req EXCEPT ![r] = [req[r] EXCEPT !.pc = "planning", !.sess = active,
                                                   !.base = grant[active]]]
        /\ UNCHANGED <<disk, landed>>
    BY <1>3, ArriveShows
  <2>2. grant[active] \in Known /\ req[r].base = NoContents
    BY <2>1 DEF Based
  <2>3. /\ req'[r].base = grant[active] /\ req'[r].answer = req[r].answer
        /\ \A x \in Requests : x # r => req'[x] = req[x]
    BY <1>0, <2>1 DEF Request
  <2>4. base' = [base EXCEPT ![r] = grant[active]] /\ answer' = answer
    BY <2>3
  <2>5. base[r] = NoContents
    BY <2>2
  <2> HIDE DEF base, answer
  <2>6. \E e \in Requests, text \in Known :
           base[e] = NoContents /\ base' = [base EXCEPT ![e] = text]
    BY <2>2, <2>4, <2>5
  <2> USE DEF base, answer
  <2> QED BY <2>1, <2>4, <2>6 DEF Contract!Plan, Contract!Known, Known
<1>4. ASSUME NEW e \in Executors, Rename(e) PROVE Contract!Write
  <2> DEFINE x == ex[e].job
  <2>1. /\ ex[e].pc = "serving" /\ ex[e].work = "validated"
        /\ disk' = x /\ landed' = landed \cup {x} /\ req' = req
    BY <1>4 DEF Rename, ChildOnly
  <2>2. /\ ex[e].sess \in Sessions /\ x \in Requests
        /\ 1 \in DOMAIN queue[ex[e].sess] /\ queue[ex[e].sess][1] = x
    BY <2>1 DEF IInv, Queues, WorkAtHead
  <2>3. \/ req[x].pc = "submitted" /\ req[x].answer = "none"
        \/ req[x].pc = "answered" /\ req[x].answer = "uncertain"
    BY <2>2 DEF IInv, Queues, QueuedOwned
  <2>4. x \notin landed
    BY <2>1 DEF IInv, WorkFits
  <2>5. req[x].base \in Known
    BY <2>2, <2>3 DEF Based
  <2>6. req[x].base # NoContents
    BY <1>0, <2>5, KnownTexts DEF Known
  <2>7. disk = req[x].base \/ disk \in Foreign
    BY <2>1 DEF IInv, Others, ServingHolds
  <2>8. base[x] = req[x].base /\ answer[x] = req[x].answer
    BY <2>2
  <2>9. base' = base /\ answer' = answer
    BY <2>1
  <2>10. /\ x \in Requests \ landed
         /\ base[x] # NoContents /\ answer[x] \in {"none", "uncertain"}
         /\ disk = base[x] \/ disk \in Foreign
         /\ disk' = x /\ landed' = landed \cup {x}
    BY <2>1, <2>2, <2>3, <2>4, <2>6, <2>7, <2>8
  <2> QED BY <2>9, <2>10 DEF Contract!Write
<1>5. ASSUME OnlyMoves, disk' = disk PROVE Contract!Answer
  <2>1. \A r \in Requests :
           \/ answer'[r] = answer[r]
           \/ /\ base[r] # NoContents /\ answer[r] = "none"
              /\ answer'[r] \in {"uncertain"} \cup IF r \in landed THEN {"committed"}
                                                   ELSE {"conflict", "draining"}
    BY <1>5, AnswersFit
  <2>2. DOMAIN answer' = Requests
    OBVIOUS
  <2>3. base' = base /\ landed' = landed
    BY <1>1, <1>5 DEF OnlyMoves
  <2> QED BY <1>5, <2>1, <2>2, <2>3 DEF Contract!Answer, Contract!Truthful
<1> QED BY <1>2, <1>3, <1>4, <1>5, RequestsMove DEF Contract!Next

\* Fences, queues, leases, kills and session changes only ever do what EditContract
\* allows: an edit lands once, over what it was planned on or a foreign write, its
\* answer is final and true, and a refused edit stays unwritten.
THEOREM WriteKeepsContract == Spec => KeepsContract
<1>1. Init => Contract!Init
  BY DEF Init, Contract!Init
<1>2. Init => IInv /\ Based
  BY InitEstablishes, InitBased
<1>3. IInv /\ Based /\ [Next]_vars => (IInv /\ Based)'
  BY NextPreserves, StepBased
<1>4. IInv /\ IInv' /\ Based /\ [Next]_vars => [Contract!Next]_(Contract!vars)
  BY StepKeepsContract
<1> QED BY <1>1, <1>2, <1>3, <1>4, PTL DEF Spec, KeepsContract, Contract!Spec

=============================================================================
