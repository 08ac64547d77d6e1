-------------------------- MODULE DispatchProofs ---------------------------
(***************************************************************************)
(* What one thread hands to another.  Updates of the model first: none is  *)
(* lost, none overtakes the rest of another, and the threads               *)
(* implement the queue of updates, for any number of threads, of updates   *)
(* and of interrupts inside an update.  Then messages to a thread that     *)
(* sleeps, and results of the operations of a transport.                   *)
(***************************************************************************)
EXTENDS Iterative, Poll, Transport, TLAPS

\* The updates thread t has taken out of its queues.
TakenBy(t) == sent - Len(inbox[t]) - Len(delayed[t])

\* What waits in a thread, one that failed included: delayed updates first,
\* then those in the inbox, numbered without a gap up to the last one sent.
Numbered(t) ==
    /\ TakenBy(t) \in Nat
    /\ \A i \in 1 .. Len(delayed[t]) : delayed[t][i] = TakenBy(t) + i
    /\ \A i \in 1 .. Len(inbox[t]) : inbox[t][i] = TakenBy(t) + Len(delayed[t]) + i
    /\ delayed[t] # <<>> => interrupted[t] \/ draining[t]

\* Where a thread is in the updates it has taken.
Placed(t) ==
    /\ last[t].u <= TakenBy(t)
    /\ last[t].k \in 1 .. Parts(last[t].u)
    /\ resume[t] # None =>
        /\ last[t].k < Parts(last[t].u) /\ last[t].u > 0
        /\ resume[t] = [u |-> last[t].u, k |-> last[t].k + 1]
    /\ t \notin failed =>
        /\ last[t].u = TakenBy(t)
        /\ interrupted[t] <=> resume[t] # None
        /\ ~interrupted[t] => last[t].k = Parts(last[t].u)

Inv == TypeOK /\ sent <= MaxUpdates /\ \A t \in Threads : Numbered(t) /\ Placed(t)

----------------------------------------------------------------------------
\* An update has a part, and a number within the bound.
LEMMA PartsOf == ASSUME NEW u \in Nat, u <= MaxUpdates PROVE Parts(u) \in Nat /\ Parts(u) >= 1
BY PartsAssumption

\* The initial states satisfy the invariant.
LEMMA InitInv == Init => Inv
<1>1. SUFFICES ASSUME Init PROVE Inv
  OBVIOUS
<1>2. 0 <= MaxUpdates /\ Parts(0) \in Nat /\ Parts(0) >= 1
  BY PartsAssumption
<1>3. TypeOK
  BY <1>1, <1>2 DEF Init, TypeOK, None, Part
<1>4. ASSUME NEW t \in Threads PROVE Numbered(t) /\ Placed(t)
  BY <1>1, <1>2 DEF Init, Numbered, Placed, TakenBy, None
<1>5. QED
  BY <1>1, <1>2, <1>3, <1>4 DEF Inv, Init

\* A step of one thread does not touch the others.
LEMMA Others ==
  ASSUME NEW s \in Threads, Numbered(s), Placed(s), sent' = sent,
         inbox'[s] = inbox[s], delayed'[s] = delayed[s], interrupted'[s] = interrupted[s],
         draining'[s] = draining[s], resume'[s] = resume[s], last'[s] = last[s],
         s \in failed' <=> s \in failed
  PROVE  Numbered(s)' /\ Placed(s)'
<1>1. TakenBy(s)' = TakenBy(s)
  BY DEF TakenBy
<1>2. Numbered(s)'
  BY <1>1 DEF Numbered
<1>3. Placed(s)'
  BY <1>1 DEF Placed
<1>4. QED
  BY <1>2, <1>3

\* The part that is applied has its number within the update.
LEMMA TargetPart ==
  ASSUME NEW t \in Threads, NEW u \in Nat, u >= 1, u <= MaxUpdates,
         NEW k \in Nat, 1 <= k, k <= Parts(u)
  PROVE  Target(t, u, k) \in Nat /\ k <= Target(t, u, k) /\ Target(t, u, k) <= Parts(u)
BY PartsOf DEF Target

\* After an application the thread is at the part applied, and interrupted
\* exactly when there is a rest.
LEMMA ApplyPlaced ==
  ASSUME Inv, NEW t \in Threads, NEW u \in Nat, u >= 1, u <= MaxUpdates,
         NEW k \in Nat, 1 <= k, k <= Parts(u), Apply(t, u, k),
         u <= TakenBy(t)', t \notin failed => u = TakenBy(t)'
  PROVE  /\ Placed(t)'
         /\ last' \in [Threads -> Part] /\ resume' \in [Threads -> Part]
         /\ interrupted' \in [Threads -> BOOLEAN]
         /\ stopping' \subseteq Threads /\ failed' \subseteq stopping' /\ committed' \subseteq Threads
<1> DEFINE p == Target(t, u, k)
<1>1. p \in Nat /\ 1 <= p /\ p <= Parts(u) /\ Parts(u) \in Nat
  BY TargetPart, PartsOf
<1>2. /\ last' = [last EXCEPT ![t] = [u |-> u, k |-> p]]
      /\ interrupted' = [interrupted EXCEPT ![t] = p < Parts(u)]
      /\ resume' = [resume EXCEPT ![t] = IF p < Parts(u) THEN [u |-> u, k |-> p + 1] ELSE None]
      /\ failed' = failed /\ stopping' = stopping
  BY DEF Apply
<1> HIDE DEF p
<1>3. last'[t] = [u |-> u, k |-> p] /\ (interrupted'[t] <=> p < Parts(u))
  BY <1>2 DEF Inv, TypeOK
<1>4. resume'[t] = IF p < Parts(u) THEN [u |-> u, k |-> p + 1] ELSE None
  BY <1>2 DEF Inv, TypeOK
<1>5. [u |-> u, k |-> p + 1] # None
  BY DEF None
<1>6. Placed(t)'
  BY <1>1, <1>2, <1>3, <1>4, <1>5 DEF Placed
<1>7. last' \in [Threads -> Part] /\ resume' \in [Threads -> Part]
  BY <1>1, <1>2 DEF Inv, TypeOK, Part, None
<1>8. interrupted' \in [Threads -> BOOLEAN]
  BY <1>2 DEF Inv, TypeOK
<1>9. committed' \subseteq Threads
  BY DEF Apply, Inv, TypeOK
<1>10. QED
  BY <1>2, <1>6, <1>7, <1>8, <1>9 DEF Inv, TypeOK

\* A failure leaves the thread where it is.
LEMMA FailPlaced ==
  ASSUME Inv, NEW t \in Threads, Fail(t), TakenBy(t)' \in Int, TakenBy(t) <= TakenBy(t)'
  PROVE  /\ Placed(t)'
         /\ last' \in [Threads -> Part] /\ resume' \in [Threads -> Part]
         /\ interrupted' \in [Threads -> BOOLEAN]
         /\ stopping' \subseteq Threads /\ failed' \subseteq stopping' /\ committed' \subseteq Threads
<1>1. t \in failed' /\ last' = last /\ interrupted' = interrupted /\ resume'[t] = None
  BY DEF Fail, Inv, TypeOK
<1>2. last[t].u \in Nat /\ TakenBy(t) \in Nat /\ last[t].u <= TakenBy(t)
      /\ last[t].k \in 1 .. Parts(last[t].u)
  BY DEF Inv, TypeOK, Part, Numbered, Placed
<1>3. Placed(t)'
  <2>1. last[t].u <= TakenBy(t)'
    BY <1>2
  <2>2. QED
    BY <1>1, <1>2, <2>1 DEF Placed
<1>4. None \in Part
  BY DEF None, Part
<1>5. resume' \in [Threads -> Part]
  BY <1>4 DEF Fail, Inv, TypeOK
<1>6. stopping' \subseteq Threads /\ failed' \subseteq stopping' /\ committed' \subseteq Threads
  BY DEF Fail, Inv, TypeOK
<1>7. QED
  BY <1>1, <1>3, <1>5, <1>6 DEF Inv, TypeOK

\* An application, of the one kind or the other, touches no other thread.
LEMMA ProcessOthers ==
  ASSUME Inv, NEW t \in Threads, NEW u, NEW k, Process(t, u, k), NEW s \in Threads, s # t
  PROVE  /\ interrupted'[s] = interrupted[s] /\ resume'[s] = resume[s] /\ last'[s] = last[s]
         /\ (s \in failed' <=> s \in failed)
BY DEF Process, Apply, Fail, Inv, TypeOK

\* What a thread takes from a queue has the next number.
LEMMA Next1 ==
  ASSUME Inv, NEW t \in Threads
  PROVE  /\ Len(inbox[t]) \in Nat /\ Len(delayed[t]) \in Nat /\ TakenBy(t) \in Nat
         /\ inbox[t] # <<>> /\ delayed[t] = <<>> =>
                Head(inbox[t]) = TakenBy(t) + 1 /\ TakenBy(t) + 1 <= sent /\ TakenBy(t) + 1 <= MaxUpdates
         /\ delayed[t] # <<>> =>
                Head(delayed[t]) = TakenBy(t) + 1 /\ TakenBy(t) + 1 <= sent /\ TakenBy(t) + 1 <= MaxUpdates
<1>1. /\ inbox[t] \in Seq(Nat) /\ delayed[t] \in Seq(Nat) /\ sent \in Nat
      /\ sent <= MaxUpdates /\ MaxUpdates \in Nat
  BY PartsAssumption DEF Inv, TypeOK
<1>2. Len(inbox[t]) \in Nat /\ Len(delayed[t]) \in Nat /\ TakenBy(t) \in Nat
  BY <1>1 DEF Inv, Numbered
<1>3. ASSUME inbox[t] # <<>>, delayed[t] = <<>>
      PROVE  Head(inbox[t]) = TakenBy(t) + 1 /\ TakenBy(t) + 1 <= sent /\ TakenBy(t) + 1 <= MaxUpdates
  <2>1. Len(inbox[t]) >= 1 /\ Len(delayed[t]) = 0 /\ Head(inbox[t]) = inbox[t][1]
    BY <1>1, <1>3
  <2>2. inbox[t][1] = TakenBy(t) + Len(delayed[t]) + 1
    BY <1>2, <2>1 DEF Inv, Numbered
  <2>3. TakenBy(t) + 1 <= sent
    <3> DEFINE n == Len(inbox[t])
               m == Len(delayed[t])
    <3>1. TakenBy(t) = sent - n - m /\ n \in Nat /\ m \in Nat /\ sent \in Nat /\ n >= 1
      BY <1>1, <1>2, <2>1 DEF TakenBy
    <3> HIDE DEF n, m
    <3>2. QED
      BY <3>1
  <2>4. QED
    BY <1>1, <1>2, <2>1, <2>2, <2>3
<1>4. ASSUME delayed[t] # <<>>
      PROVE  Head(delayed[t]) = TakenBy(t) + 1 /\ TakenBy(t) + 1 <= sent /\ TakenBy(t) + 1 <= MaxUpdates
  <2>1. Len(delayed[t]) >= 1 /\ Head(delayed[t]) = delayed[t][1]
    BY <1>1, <1>4
  <2>2. delayed[t][1] = TakenBy(t) + 1
    BY <1>2, <2>1 DEF Inv, Numbered
  <2>3. TakenBy(t) + 1 <= sent
    <3> DEFINE n == Len(inbox[t])
               m == Len(delayed[t])
    <3>1. TakenBy(t) = sent - n - m /\ n \in Nat /\ m \in Nat /\ sent \in Nat /\ m >= 1
      BY <1>1, <1>2, <2>1 DEF TakenBy
    <3> HIDE DEF n, m
    <3>2. QED
      BY <3>1
  <2>4. QED
    BY <1>1, <1>2, <2>1, <2>2, <2>3
<1>5. QED
  BY <1>2, <1>3, <1>4

\* An update is sent: it is the last one to wait in every thread.
LEMMA SendInv == ASSUME Inv, Send PROVE Inv'
<1>1. TypeOK' /\ sent' <= MaxUpdates
  BY PartsAssumption DEF Send, Inv, TypeOK
<1>2. ASSUME NEW t \in Threads PROVE Numbered(t)' /\ Placed(t)'
  <2>1. inbox[t] \in Seq(Nat) /\ delayed[t] \in Seq(Nat) /\ sent \in Nat
    BY DEF Inv, TypeOK
  <2>2. inbox'[t] = Append(inbox[t], sent + 1) /\ sent' = sent + 1 /\ delayed' = delayed
    BY DEF Send
  <2>3. Len(inbox'[t]) = Len(inbox[t]) + 1 /\ TakenBy(t)' = TakenBy(t)
    <3>1. Len(inbox'[t]) = Len(inbox[t]) + 1 /\ Len(inbox[t]) \in Nat /\ Len(delayed[t]) \in Nat
      BY <2>1, <2>2
    <3>2. sent' = sent + 1 /\ Len(delayed'[t]) = Len(delayed[t]) /\ sent \in Nat
      BY <2>1, <2>2
    <3>3. QED
      BY <3>1, <3>2 DEF TakenBy
  <2>4. ASSUME NEW i \in 1 .. Len(inbox'[t])
        PROVE  inbox'[t][i] = TakenBy(t) + Len(delayed[t]) + i
    <3>1. CASE i <= Len(inbox[t])
      BY <2>1, <2>2, <2>3, <2>4, <3>1 DEF Inv, Numbered
    <3>2. CASE i = Len(inbox[t]) + 1
      BY <2>1, <2>2, <3>2 DEF TakenBy
    <3>3. QED
      BY <2>1, <2>3, <3>1, <3>2
  <2>5. Numbered(t)'
    BY <2>2, <2>3, <2>4 DEF Send, Inv, Numbered
  <2>6. Placed(t)'
    BY <2>3 DEF Send, Inv, Placed
  <2>7. QED
    BY <2>5, <2>6
<1>3. QED
  BY <1>1, <1>2 DEF Inv

\* A handler of thread t keeps the invariant when it keeps what is said of t.
LEMMA OneThread ==
  ASSUME Inv, NEW t \in Threads, TypeOK', sent' = sent, Numbered(t)', Placed(t)',
         \A s \in Threads \ {t} :
            /\ inbox'[s] = inbox[s] /\ delayed'[s] = delayed[s] /\ draining'[s] = draining[s]
            /\ interrupted'[s] = interrupted[s] /\ resume'[s] = resume[s] /\ last'[s] = last[s]
            /\ (s \in failed' <=> s \in failed)
  PROVE  Inv'
<1>1. ASSUME NEW s \in Threads, s # t PROVE Numbered(s)' /\ Placed(s)'
  BY <1>1, Others DEF Inv
<1>2. QED
  BY <1>1 DEF Inv

\* An application in thread t, of an update it has taken, keeps its place.
LEMMA ProcessPlaced ==
  ASSUME Inv, NEW t \in Threads, NEW u \in Nat, u >= 1, u <= MaxUpdates,
         NEW k \in Nat, 1 <= k, k <= Parts(u), Process(t, u, k), TakenBy(t)' \in Nat,
         u <= TakenBy(t)', TakenBy(t) <= TakenBy(t)', t \notin failed => u = TakenBy(t)'
  PROVE  /\ Placed(t)'
         /\ last' \in [Threads -> Part] /\ resume' \in [Threads -> Part]
         /\ interrupted' \in [Threads -> BOOLEAN]
         /\ stopping' \subseteq Threads /\ failed' \subseteq stopping' /\ committed' \subseteq Threads
<1>1. CASE Apply(t, u, k)
  BY <1>1, ApplyPlaced
<1>2. CASE Fail(t)
  BY <1>2, FailPlaced
<1>3. QED
  BY <1>1, <1>2 DEF Process

\* An update that comes while the thread is interrupted goes to the end of the
\* delayed ones.
LEMMA UpdateDelayed ==
  ASSUME Inv, NEW t \in Threads, Update(t), interrupted[t]
  PROVE  Inv'
<1>1. /\ inbox[t] \in Seq(Nat) /\ inbox[t] # <<>> /\ delayed[t] \in Seq(Nat)
      /\ inbox'[t] = Tail(inbox[t]) /\ delayed'[t] = Append(delayed[t], Head(inbox[t]))
      /\ UNCHANGED <<sent, draining, interrupted, resume, stopping, failed, last, committed>>
  BY DEF Update, Inv, TypeOK
<1>2. TypeOK'
  <2>1. Tail(inbox[t]) \in Seq(Nat) /\ Append(delayed[t], Head(inbox[t])) \in Seq(Nat)
    BY <1>1
  <2>2. inbox' \in [Threads -> Seq(Nat)] /\ delayed' \in [Threads -> Seq(Nat)]
    <3>1. /\ inbox' = [inbox EXCEPT ![t] = Tail(inbox[t])]
          /\ delayed' = [delayed EXCEPT ![t] = Append(delayed[t], Head(inbox[t]))]
      BY DEF Update
    <3>2. QED
      BY <2>1, <3>1 DEF Inv, TypeOK
  <2>3. /\ sent' \in Nat /\ draining' \in [Threads -> BOOLEAN]
        /\ interrupted' \in [Threads -> BOOLEAN]
    BY <1>1 DEF Inv, TypeOK
  <2>4. resume' \in [Threads -> Part] /\ last' \in [Threads -> Part]
    BY <1>1 DEF Inv, TypeOK
  <2>5. stopping' \subseteq Threads /\ failed' \subseteq stopping' /\ committed' \subseteq Threads
    BY <1>1 DEF Inv, TypeOK
  <2>6. QED
    BY <2>2, <2>3, <2>4, <2>5 DEF TypeOK
<1> DEFINE n == Len(inbox[t])
           m == Len(delayed[t])
<1>3. n \in Nat /\ n >= 1 /\ m \in Nat /\ Len(inbox'[t]) = n - 1 /\ Len(delayed'[t]) = m + 1
  BY <1>1
<1>4. TakenBy(t) = sent - n - m /\ TakenBy(t)' = sent - (n - 1) - (m + 1) /\ sent \in Nat
  BY <1>1, <1>3 DEF TakenBy, Inv, TypeOK
<1>5. Head(inbox[t]) = TakenBy(t) + m + 1
  <2>1. Head(inbox[t]) = inbox[t][1]
    BY <1>1
  <2>2. QED
    BY <2>1, <1>3 DEF Inv, Numbered
<1>6. ASSUME NEW i \in 1 .. m + 1 PROVE delayed'[t][i] = TakenBy(t) + i
  <2>1. CASE i <= m
    <3>1. delayed'[t][i] = delayed[t][i]
      BY <1>1, <1>3, <2>1
    <3>2. QED
      BY <3>1, <1>3, <2>1 DEF Inv, Numbered
  <2>2. CASE i = m + 1
    <3>1. delayed'[t][i] = Head(inbox[t])
      BY <1>1, <2>2
    <3> HIDE DEF m
    <3>2. TakenBy(t) \in Nat
      BY DEF Inv, Numbered
    <3>3. QED
      BY <1>3, <1>5, <2>2, <3>1, <3>2
  <2>3. QED
    BY <1>3, <2>1, <2>2
<1>7. ASSUME NEW i \in 1 .. n - 1 PROVE inbox'[t][i] = TakenBy(t) + m + (i + 1)
  <2>1. inbox'[t][i] = inbox[t][i + 1]
    BY <1>1, <1>3
  <2>2. i + 1 \in 1 .. Len(inbox[t])
    BY <1>3
  <2>3. \A j \in 1 .. Len(inbox[t]) : inbox[t][j] = TakenBy(t) + m + j
    BY DEF Inv, Numbered
  <2>4. QED
    BY <2>1, <2>2, <2>3
<1> HIDE DEF n, m
<1>8. TakenBy(t)' = TakenBy(t) /\ TakenBy(t) \in Nat
  BY <1>3, <1>4 DEF Inv, Numbered
<1>9. Numbered(t)'
  <2>1. \A i \in 1 .. Len(delayed'[t]) : delayed'[t][i] = TakenBy(t)' + i
    BY <1>3, <1>6, <1>8
  <2>2. \A i \in 1 .. Len(inbox'[t]) : inbox'[t][i] = TakenBy(t)' + Len(delayed'[t]) + i
    <3>1. ASSUME NEW i \in 1 .. n - 1 PROVE inbox'[t][i] = TakenBy(t) + (m + 1) + i
      BY <1>3, <1>7, <1>8
    <3>2. QED
      BY <1>3, <1>8, <3>1
  <2>3. QED
    BY <1>1, <1>8, <2>1, <2>2 DEF Numbered
<1>10. Placed(t)'
  BY <1>1, <1>8 DEF Placed, Inv
<1>11. ASSUME NEW s \in Threads, s # t
       PROVE  inbox'[s] = inbox[s] /\ delayed'[s] = delayed[s]
  BY <1>11 DEF Update, Inv, TypeOK
<1>12. QED
  BY <1>1, <1>2, <1>9, <1>10, <1>11, OneThread

\* An update that comes at another time is taken: nothing is delayed then.
LEMMA UpdateTaken ==
  ASSUME Inv, NEW t \in Threads, Update(t), ~interrupted[t]
  PROVE  Inv'
<1>1. /\ inbox[t] \in Seq(Nat) /\ inbox[t] # <<>> /\ inbox'[t] = Tail(inbox[t])
      /\ inbox' = [inbox EXCEPT ![t] = Tail(inbox[t])] /\ ~draining[t]
      /\ UNCHANGED <<sent, draining, delayed>> /\ Process(t, Head(inbox[t]), 1)
  BY DEF Update, Inv, TypeOK
<1>2. delayed[t] = <<>>
  BY <1>1 DEF Inv, Numbered
<1> DEFINE n == Len(inbox[t])
           u == Head(inbox[t])
<1>3. u = TakenBy(t) + 1 /\ u <= MaxUpdates /\ TakenBy(t) \in Nat
  BY <1>1, <1>2, Next1
<1>4. n \in Nat /\ n >= 1 /\ Len(inbox'[t]) = n - 1 /\ Len(delayed[t]) = 0 /\ sent \in Nat
  BY <1>1, <1>2 DEF Inv, TypeOK
<1>5. TakenBy(t) = sent - n - 0 /\ TakenBy(t)' = sent - (n - 1) - 0
  BY <1>1, <1>4 DEF TakenBy
<1>6. ASSUME NEW i \in 1 .. n - 1 PROVE inbox'[t][i] = TakenBy(t) + (i + 1)
  <2>1. inbox'[t][i] = inbox[t][i + 1]
    BY <1>1, <1>4
  <2>2. inbox[t][i + 1] = TakenBy(t) + 0 + (i + 1)
    BY <1>4 DEF Inv, Numbered
  <2>3. QED
    BY <1>3, <2>1, <2>2
<1> HIDE DEF n
<1>7. TakenBy(t)' = TakenBy(t) + 1
  BY <1>4, <1>5
<1>8. Numbered(t)'
  <2>1. \A i \in 1 .. Len(inbox'[t]) : inbox'[t][i] = TakenBy(t)' + Len(delayed'[t]) + i
    <3>1. ASSUME NEW i \in 1 .. n - 1 PROVE inbox'[t][i] = (TakenBy(t) + 1) + 0 + i
      BY <1>3, <1>4, <1>6
    <3>2. QED
      BY <1>1, <1>4, <1>7, <3>1
  <2>2. delayed'[t] = <<>>
    BY <1>1, <1>2
  <2>3. QED
    BY <1>3, <1>7, <2>1, <2>2 DEF Numbered
<1>9. Parts(u) \in Nat /\ 1 <= Parts(u)
  BY <1>3, PartsOf
<1> HIDE DEF u
<1>10. /\ Placed(t)'
       /\ last' \in [Threads -> Part] /\ resume' \in [Threads -> Part]
       /\ interrupted' \in [Threads -> BOOLEAN]
       /\ stopping' \subseteq Threads /\ failed' \subseteq stopping' /\ committed' \subseteq Threads
  <2>1. Process(t, u, 1)
    BY <1>1 DEF u
  <2>2. u \in Nat /\ u >= 1 /\ TakenBy(t)' \in Nat /\ u = TakenBy(t)' /\ TakenBy(t) <= TakenBy(t)'
    BY <1>3, <1>7
  <2>3. QED
    BY <1>3, <1>9, <2>1, <2>2, ProcessPlaced
<1>11. TypeOK'
  <2>1. Tail(inbox[t]) \in Seq(Nat)
    BY <1>1
  <2>2. inbox' \in [Threads -> Seq(Nat)]
    BY <1>1, <2>1 DEF Inv, TypeOK
  <2>3. sent' \in Nat /\ delayed' \in [Threads -> Seq(Nat)] /\ draining' \in [Threads -> BOOLEAN]
    BY <1>1 DEF Inv, TypeOK
  <2>4. QED
    BY <1>10, <2>2, <2>3 DEF TypeOK
<1>12. ASSUME NEW s \in Threads, s # t
       PROVE  /\ inbox'[s] = inbox[s] /\ interrupted'[s] = interrupted[s]
              /\ resume'[s] = resume[s] /\ last'[s] = last[s] /\ (s \in failed' <=> s \in failed)
  <2>1. inbox'[s] = inbox[s]
    BY <1>1, <1>12 DEF Inv, TypeOK
  <2>2. QED
    BY <1>1, <1>12, <2>1, ProcessOthers
<1>13. \A s \in Threads \ {t} : draining'[s] = draining[s] /\ delayed'[s] = delayed[s] /\ sent' = sent
  BY <1>1
<1>14. sent' = sent
  BY <1>1
<1> HIDE DEF u
<1>15. QED
  BY <1>8, <1>10, <1>11, <1>12, <1>13, <1>14, OneThread

\* The rest of an interrupted update is the one taken last.
LEMMA InterruptInv ==
  ASSUME Inv, NEW t \in Threads, Interrupt(t)
  PROVE  Inv'
<1> DEFINE u == resume[t].u
           k == resume[t].k
<1>1. /\ resume[t] # None /\ Process(t, u, k) /\ UNCHANGED <<sent, inbox, delayed>>
      /\ draining' = [draining EXCEPT ![t] = TRUE]
  BY DEF Interrupt
<1>2. TakenBy(t) \in Nat /\ TakenBy(t)' = TakenBy(t)
  BY <1>1 DEF Inv, Numbered, TakenBy
<1>3. /\ u = last[t].u /\ k = last[t].k + 1 /\ u > 0 /\ u <= TakenBy(t) /\ u \in Nat
      /\ last[t].k \in 1 .. Parts(u) /\ last[t].k < Parts(u) /\ (t \notin failed => u = TakenBy(t))
  <2>1. last[t] \in Part /\ Placed(t) /\ resume[t] # None
    BY <1>1 DEF Inv, TypeOK
  <2>2. u = last[t].u /\ k = last[t].k + 1 /\ u > 0 /\ last[t].k < Parts(last[t].u)
    BY <2>1 DEF Placed
  <2>3. last[t].u \in Nat
    BY <2>1 DEF Part
  <2> HIDE DEF u, k
  <2>4. QED
    BY <2>1, <2>2, <2>3 DEF Placed
<1>4. TakenBy(t) <= sent /\ sent <= MaxUpdates /\ sent \in Nat /\ MaxUpdates \in Nat
  <2> DEFINE n == Len(inbox[t])
             m == Len(delayed[t])
  <2>1. n \in Nat /\ m \in Nat /\ sent \in Nat
    BY DEF Inv, TypeOK
  <2>3. TakenBy(t) = sent - n - m
    BY DEF TakenBy
  <2> HIDE DEF n, m
  <2>4. TakenBy(t) <= sent
    BY <2>1, <2>3
  <2>2. QED
    BY <2>1, <2>4, PartsAssumption DEF Inv
<1> HIDE DEF u, k
<1>5. Parts(u) \in Nat
  BY <1>2, <1>3, <1>4, PartsOf
<1>6. u <= MaxUpdates /\ u >= 1 /\ k \in Nat /\ 1 <= k /\ k <= Parts(u)
  BY <1>2, <1>3, <1>4, <1>5
<1>7. /\ Placed(t)'
      /\ last' \in [Threads -> Part] /\ resume' \in [Threads -> Part]
      /\ interrupted' \in [Threads -> BOOLEAN]
      /\ stopping' \subseteq Threads /\ failed' \subseteq stopping' /\ committed' \subseteq Threads
  <2>1. TakenBy(t)' \in Nat /\ u <= TakenBy(t)' /\ TakenBy(t) <= TakenBy(t)' /\ (t \notin failed => u = TakenBy(t)')
    BY <1>2, <1>3
  <2>2. QED
    BY <1>1, <1>3, <1>6, <2>1, ProcessPlaced
<1>8. draining' \in [Threads -> BOOLEAN] /\ draining'[t]
  BY <1>1 DEF Inv, TypeOK
<1>9. TypeOK'
  <2>1. sent' \in Nat /\ inbox' \in [Threads -> Seq(Nat)] /\ delayed' \in [Threads -> Seq(Nat)]
    BY <1>1 DEF Inv, TypeOK
  <2>2. QED
    BY <1>7, <1>8, <2>1 DEF TypeOK
<1>10. Numbered(t)'
  BY <1>1, <1>2, <1>8 DEF Inv, Numbered
<1>11. ASSUME NEW s \in Threads, s # t
       PROVE  /\ draining'[s] = draining[s] /\ interrupted'[s] = interrupted[s]
              /\ resume'[s] = resume[s] /\ last'[s] = last[s] /\ (s \in failed' <=> s \in failed)
  <2>1. draining'[s] = draining[s]
    BY <1>1, <1>11 DEF Inv, TypeOK
  <2>2. QED
    BY <1>1, <1>11, <2>1, ProcessOthers
<1>12. QED
  BY <1>1, <1>7, <1>9, <1>10, <1>11, OneThread

\* A round of the loop takes the update that was delayed first.
LEMMA DelayedInv ==
  ASSUME Inv, NEW t \in Threads, DelayedUpdate(t)
  PROVE  Inv'
<1>1. /\ delayed[t] \in Seq(Nat) /\ delayed[t] # <<>> /\ delayed'[t] = Tail(delayed[t])
      /\ delayed' = [delayed EXCEPT ![t] = Tail(delayed[t])] /\ draining[t]
      /\ UNCHANGED <<sent, draining, inbox>> /\ Process(t, Head(delayed[t]), 1)
  BY DEF DelayedUpdate, Inv, TypeOK
<1> DEFINE n == Len(inbox[t])
           m == Len(delayed[t])
           u == Head(delayed[t])
<1>2. u = TakenBy(t) + 1 /\ u <= MaxUpdates /\ TakenBy(t) \in Nat
  BY <1>1, Next1
<1>3. n \in Nat /\ m \in Nat /\ m >= 1 /\ Len(delayed'[t]) = m - 1 /\ sent \in Nat
  BY <1>1 DEF Inv, TypeOK
<1>4. TakenBy(t) = sent - n - m /\ TakenBy(t)' = sent - n - (m - 1)
  BY <1>1, <1>3 DEF TakenBy
<1>5. ASSUME NEW i \in 1 .. m - 1 PROVE delayed'[t][i] = TakenBy(t) + (i + 1)
  <2>1. delayed'[t][i] = delayed[t][i + 1]
    BY <1>1, <1>3
  <2>2. QED
    BY <2>1, <1>3 DEF Inv, Numbered
<1>6. ASSUME NEW i \in 1 .. n PROVE inbox[t][i] = TakenBy(t) + m + i
  BY DEF Inv, Numbered
<1>7. inbox'[t] = inbox[t] /\ Len(inbox'[t]) = n
  BY <1>1
<1> HIDE DEF n, m
<1>8. TakenBy(t)' = TakenBy(t) + 1
  BY <1>3, <1>4
<1>9. Numbered(t)'
  <2>1. \A i \in 1 .. Len(delayed'[t]) : delayed'[t][i] = TakenBy(t)' + i
    <3>1. ASSUME NEW i \in 1 .. m - 1 PROVE delayed'[t][i] = (TakenBy(t) + 1) + i
      BY <1>2, <1>3, <1>5
    <3>2. QED
      BY <1>3, <1>8, <3>1
  <2>2. \A i \in 1 .. Len(inbox'[t]) : inbox'[t][i] = TakenBy(t)' + Len(delayed'[t]) + i
    <3>1. ASSUME NEW i \in 1 .. n PROVE inbox'[t][i] = (TakenBy(t) + 1) + (m - 1) + i
      BY <1>2, <1>3, <1>6, <1>7
    <3>2. QED
      BY <1>3, <1>7, <1>8, <3>1
  <2>3. TakenBy(t)' \in Nat /\ draining'[t]
    BY <1>1, <1>2, <1>8
  <2>4. QED
    BY <2>1, <2>2, <2>3 DEF Numbered
<1>10. Parts(u) \in Nat /\ 1 <= Parts(u)
  BY <1>2, PartsOf
<1> HIDE DEF u
<1>11. /\ Placed(t)'
       /\ last' \in [Threads -> Part] /\ resume' \in [Threads -> Part]
       /\ interrupted' \in [Threads -> BOOLEAN]
       /\ stopping' \subseteq Threads /\ failed' \subseteq stopping' /\ committed' \subseteq Threads
  <2>1. Process(t, u, 1)
    BY <1>1 DEF u
  <2>2. u \in Nat /\ u >= 1 /\ TakenBy(t)' \in Nat /\ u = TakenBy(t)' /\ TakenBy(t) <= TakenBy(t)'
    BY <1>2, <1>8
  <2>3. QED
    BY <1>2, <1>10, <2>1, <2>2, ProcessPlaced
<1>12. TypeOK'
  <2>1. Tail(delayed[t]) \in Seq(Nat)
    BY <1>1
  <2>2. delayed' \in [Threads -> Seq(Nat)]
    BY <1>1, <2>1 DEF Inv, TypeOK
  <2>3. sent' \in Nat /\ inbox' \in [Threads -> Seq(Nat)] /\ draining' \in [Threads -> BOOLEAN]
    BY <1>1 DEF Inv, TypeOK
  <2>4. QED
    BY <1>11, <2>2, <2>3 DEF TypeOK
<1>13. ASSUME NEW s \in Threads, s # t
       PROVE  /\ delayed'[s] = delayed[s] /\ interrupted'[s] = interrupted[s]
              /\ resume'[s] = resume[s] /\ last'[s] = last[s] /\ (s \in failed' <=> s \in failed)
  <2>1. delayed'[s] = delayed[s]
    BY <1>1, <1>13 DEF Inv, TypeOK
  <2>2. QED
    BY <1>1, <1>13, <2>1, ProcessOthers
<1>14. sent' = sent /\ \A s \in Threads \ {t} : draining'[s] = draining[s] /\ inbox'[s] = inbox[s]
  BY <1>1
<1>15. QED
  BY <1>9, <1>11, <1>12, <1>13, <1>14, OneThread

\* The loop ends with nothing delayed, or at another interrupt.
LEMMA LoopEndInv ==
  ASSUME Inv, NEW t \in Threads, LoopEnd(t)
  PROVE  Inv'
<1>1. /\ UNCHANGED <<sent, inbox, delayed, interrupted, resume, stopping, failed, last, committed>>
      /\ draining' = [draining EXCEPT ![t] = FALSE] /\ (interrupted[t] \/ delayed[t] = <<>>)
  BY DEF LoopEnd
<1>2. draining' \in [Threads -> BOOLEAN] /\ \A s \in Threads \ {t} : draining'[s] = draining[s]
  BY <1>1 DEF Inv, TypeOK
<1>3. TypeOK'
  BY <1>1, <1>2 DEF Inv, TypeOK
<1>4. TakenBy(t)' = TakenBy(t)
  BY <1>1 DEF TakenBy
<1>5. Numbered(t)'
  BY <1>1, <1>4 DEF Inv, Numbered
<1>6. Placed(t)'
  BY <1>1, <1>4 DEF Inv, Placed
<1>7. QED
  BY <1>1, <1>2, <1>3, <1>5, <1>6, OneThread

\* A shutdown touches no queue.
LEMMA ShutdownInv ==
  ASSUME Inv, NEW t \in Threads, Shutdown(t)
  PROVE  Inv'
<1>1. /\ UNCHANGED <<sent, inbox, delayed, interrupted, resume, draining, failed, last, committed>>
      /\ stopping' = stopping \cup {t}
  BY DEF Shutdown
<1>2. TypeOK'
  BY <1>1 DEF Inv, TypeOK
<1>3. TakenBy(t)' = TakenBy(t)
  BY <1>1 DEF TakenBy
<1>4. Numbered(t)'
  BY <1>1, <1>3 DEF Inv, Numbered
<1>5. Placed(t)'
  BY <1>1, <1>3 DEF Inv, Placed
<1>6. QED
  BY <1>1, <1>2, <1>4, <1>5, OneThread

\* Every step keeps the invariant.
LEMMA NextInv == Inv /\ [Next]_vars => Inv'
<1>1. SUFFICES ASSUME Inv, [Next]_vars PROVE Inv'
  OBVIOUS
<1>2. CASE Send
  BY <1>1, <1>2, SendInv
<1>3. ASSUME NEW t \in Threads, Handler(t) \/ Shutdown(t) PROVE Inv'
  BY <1>1, <1>3, UpdateDelayed, UpdateTaken, InterruptInv, DelayedInv, LoopEndInv, ShutdownInv
     DEF Handler
<1>4. CASE UNCHANGED vars
  <2>1. TypeOK'
    BY <1>1, <1>4 DEF vars, Inv, TypeOK
  <2>2. ASSUME NEW t \in Threads PROVE Numbered(t)' /\ Placed(t)'
    BY <1>1, <1>4, Others DEF vars, Inv
  <2>3. QED
    BY <1>1, <1>4, <2>1, <2>2 DEF vars, Inv
<1>5. QED
  BY <1>1, <1>2, <1>3, <1>4 DEF Next

\* The invariant holds in every state.
LEMMA Invariance == Spec => []Inv
<1>1. Init /\ [][Next]_vars => []Inv
  BY InitInv, NextInv, PTL
<1>2. QED
  BY <1>1, PTL DEF Spec

----------------------------------------------------------------------------
\* The delayed updates come before those in the inbox.
LEMMA Concatenated ==
  ASSUME NEW a \in Seq(Nat), NEW b \in Seq(Nat), NEW i \in 1 .. Len(a) + Len(b)
  PROVE  (a \o b)[i] = IF i <= Len(a) THEN a[i] ELSE b[i - Len(a)]
OBVIOUS

\* Whatever is sent and whenever a diff is interrupted, the updates that wait in a
\* thread are all the later ones, in their order.
THEOREM Lossless == Spec => []NothingLost
<1>1. ASSUME Inv, NEW t \in Threads \ failed
      PROVE  /\ Len(Waiting(t)) = sent - last[t].u
             /\ \A i \in 1 .. Len(Waiting(t)) : Waiting(t)[i] = last[t].u + i
  <2> DEFINE n == Len(inbox[t])
             m == Len(delayed[t])
  <2>1. inbox[t] \in Seq(Nat) /\ delayed[t] \in Seq(Nat) /\ sent \in Nat /\ last[t].u = TakenBy(t)
    BY <1>1 DEF Inv, TypeOK, Placed
  <2>2. n \in Nat /\ m \in Nat /\ TakenBy(t) \in Nat /\ Len(Waiting(t)) = m + n
    BY <1>1, <2>1 DEF Waiting, Inv, Numbered
  <2>3. TakenBy(t) = sent - n - m
    BY DEF TakenBy
  <2>4. ASSUME NEW i \in 1 .. m PROVE Waiting(t)[i] = TakenBy(t) + i
    <3>1. Waiting(t)[i] = delayed[t][i]
      <4> HIDE DEF n, m
      <4>1. i \in 1 .. m + n /\ i <= m
        BY <2>2
      <4>2. QED
        BY <2>1, <4>1, Concatenated, Zenon DEF Waiting, n, m
    <3>2. Numbered(t)
      BY <1>1 DEF Inv
    <3>3. QED
      BY <3>1, <3>2 DEF Numbered
  <2>5. ASSUME NEW i \in m + 1 .. m + n PROVE Waiting(t)[i] = TakenBy(t) + m + (i - m)
    <3>1. Waiting(t)[i] = inbox[t][i - m] /\ i - m \in 1 .. n
      <4> HIDE DEF n, m
      <4>1. i \in 1 .. m + n /\ ~(i <= m) /\ i - m \in 1 .. n
        BY <2>2
      <4>2. QED
        BY <2>1, <4>1, Concatenated, Zenon DEF Waiting, n, m
    <3>2. Numbered(t)
      BY <1>1 DEF Inv
    <3>3. QED
      BY <3>1, <3>2 DEF Numbered
  <2> HIDE DEF n, m
  <2>6. Len(Waiting(t)) = sent - last[t].u
    BY <2>1, <2>2, <2>3
  <2>7. ASSUME NEW i \in 1 .. m + n PROVE Waiting(t)[i] = TakenBy(t) + i
    <3>1. CASE i <= m
      BY <2>2, <2>4, <3>1
    <3>2. CASE i > m
      BY <2>2, <2>5, <3>2
    <3>3. QED
      BY <2>2, <3>1, <3>2
  <2>8. QED
    BY <2>1, <2>2, <2>6, <2>7
<1>2. Inv => NothingLost
  BY <1>1 DEF NothingLost
<1>3. QED
  BY <1>2, Invariance, PTL

\* A thread is interrupted exactly while the rest of its diff is under way, and
\* updates are delayed only then.
THEOREM Matched == Spec => []InterruptedMatches
<1>1. Inv => InterruptedMatches
  BY DEF Inv, Numbered, Placed, InterruptedMatches
<1>2. QED
  BY <1>1, Invariance, PTL

----------------------------------------------------------------------------
\* A part that is applied is the next one of the queue, or a later one in a thread
\* that gave up.
LEMMA ApplyRefines ==
  ASSUME Inv, NEW t \in Threads, NEW u \in Nat, u >= 1, u <= sent,
         NEW k \in Nat, 1 <= k, k <= Parts(u), Apply(t, u, k), sent' = sent,
         Queue!Before(last[t], [u |-> u, k |-> k]),
         t \notin stopping => Queue!Following(last[t], [u |-> u, k |-> k])
  PROVE  Queue!Next
<1> DEFINE p == Target(t, u, k)
<1>1. u <= MaxUpdates /\ sent \in Nat
  BY PartsAssumption DEF Inv, TypeOK
<1>2. p \in Nat /\ k <= p /\ p <= Parts(u) /\ Parts(u) \in Nat
  BY <1>1, TargetPart, PartsOf
<1>3. last' = [last EXCEPT ![t] = [u |-> u, k |-> p]] /\ stopping' = stopping
  BY DEF Apply
<1>4. t \notin stopping => p = k
  BY DEF Target
<1>5. last[t].u \in Nat /\ last[t].k \in Nat
  BY DEF Inv, TypeOK, Part
<1> HIDE DEF p
<1>6. Queue!Before(last[t], [u |-> u, k |-> p])
  BY <1>2, <1>5 DEF Queue!Before
<1>7. u \in 1 .. sent /\ p \in 1 .. Parts(u)
  BY <1>1, <1>2
<1>8. Queue!ApplyPart(t)
  BY <1>3, <1>4, <1>6, <1>7 DEF Queue!ApplyPart
<1>9. QED
  BY <1>8 DEF Queue!Next

\* An application of the update with the next number, or of the rest of the one
\* under way, is a step of the queue; a failure is giving up.
LEMMA ProcessRefines ==
  ASSUME Inv, NEW t \in Threads, NEW u, NEW k, Process(t, u, k), sent' = sent,
         \/ u = TakenBy(t) + 1 /\ k = 1 /\ u <= sent /\ ~interrupted[t]
         \/ resume[t] # None /\ u = resume[t].u /\ k = resume[t].k
  PROVE  Queue!Next
<1>1. CASE Fail(t)
  BY <1>1 DEF Fail, Queue!Next, Queue!GiveUp
<1>2. ASSUME Apply(t, u, k), u = TakenBy(t) + 1, k = 1, u <= sent, ~interrupted[t]
      PROVE  Queue!Next
  <2>1. /\ TakenBy(t) \in Nat /\ last[t].u \in Nat /\ last[t].u <= TakenBy(t)
        /\ (t \notin failed => last[t].u = TakenBy(t) /\ last[t].k = Parts(last[t].u))
    BY <1>2 DEF Inv, Numbered, Placed, TypeOK, Part
  <2>2. u \in Nat /\ u >= 1 /\ u <= MaxUpdates
    BY <1>2, <2>1, PartsAssumption DEF Inv, TypeOK
  <2>3. 1 <= Parts(u)
    BY <2>2, PartsOf
  <2>4. Queue!Before(last[t], [u |-> u, k |-> k])
    BY <1>2, <2>1 DEF Queue!Before
  <2>5. t \notin stopping => Queue!Following(last[t], [u |-> u, k |-> k])
    BY <1>2, <2>1 DEF Queue!Following, Inv, TypeOK
  <2>6. QED
    BY <1>2, <2>2, <2>3, <2>4, <2>5, ApplyRefines
<1>3. ASSUME Apply(t, u, k), resume[t] # None, u = resume[t].u, k = resume[t].k
      PROVE  Queue!Next
  <2>1. last[t] \in Part /\ Placed(t) /\ Numbered(t) /\ sent \in Nat /\ sent <= MaxUpdates
    BY DEF Inv, TypeOK
  <2>2. /\ u = last[t].u /\ k = last[t].k + 1 /\ u > 0 /\ last[t].k < Parts(u)
        /\ last[t].k \in 1 .. Parts(u) /\ u <= TakenBy(t)
    BY <1>3, <2>1 DEF Placed
  <2>3. u \in Nat /\ last[t].k \in Nat /\ TakenBy(t) \in Nat
    BY <2>1, <2>2 DEF Part, Numbered
  <2>4. TakenBy(t) <= sent
    <3> DEFINE n == Len(inbox[t])
               m == Len(delayed[t])
    <3>1. n \in Nat /\ m \in Nat
      BY DEF Inv, TypeOK
    <3>2. TakenBy(t) = sent - n - m
      BY DEF TakenBy
    <3> HIDE DEF n, m
    <3>3. QED
      BY <2>1, <3>1, <3>2
  <2>5. u <= sent /\ u <= MaxUpdates
    BY <2>1, <2>2, <2>3, <2>4, PartsAssumption
  <2>6. Parts(u) \in Nat
    BY <2>3, <2>5, PartsOf
  <2>7. k \in Nat /\ 1 <= k /\ k <= Parts(u) /\ u >= 1
    BY <2>2, <2>3, <2>6
  <2>8. Queue!Before(last[t], [u |-> u, k |-> k])
    BY <2>2, <2>3 DEF Queue!Before
  <2>9. Queue!Following(last[t], [u |-> u, k |-> k])
    BY <2>2 DEF Queue!Following
  <2>10. QED
    BY <1>3, <2>3, <2>5, <2>7, <2>8, <2>9, ApplyRefines
<1>4. QED
  BY <1>1, <1>2, <1>3 DEF Process

\* Every step is a step of the queue or leaves it alone.
LEMMA NextRefines == Inv /\ [Next]_vars => [Queue!Next]_(Queue!vars)
<1>1. SUFFICES ASSUME Inv, [Next]_vars PROVE [Queue!Next]_(Queue!vars)
  OBVIOUS
<1>2. CASE Send
  BY <1>2 DEF Send, Queue!Next, Queue!Send
<1>3. ASSUME NEW t \in Threads, Update(t) PROVE [Queue!Next]_(Queue!vars)
  <2>1. CASE interrupted[t]
    BY <1>3, <2>1 DEF Update, Queue!vars
  <2>2. CASE ~interrupted[t]
    <3>1. /\ inbox[t] # <<>> /\ ~draining[t] /\ Process(t, Head(inbox[t]), 1) /\ sent' = sent
      BY <1>3, <2>2 DEF Update
    <3>2. delayed[t] = <<>>
      BY <1>1, <2>2, <3>1 DEF Inv, Numbered
    <3>3. Head(inbox[t]) = TakenBy(t) + 1 /\ Head(inbox[t]) <= sent
      BY <1>1, <3>1, <3>2, Next1
    <3>4. QED
      BY <1>1, <2>2, <3>1, <3>3, ProcessRefines
  <2>3. QED
    BY <2>1, <2>2
<1>4. ASSUME NEW t \in Threads, Interrupt(t) PROVE [Queue!Next]_(Queue!vars)
  BY <1>1, <1>4, ProcessRefines DEF Interrupt
<1>5. ASSUME NEW t \in Threads, DelayedUpdate(t) PROVE [Queue!Next]_(Queue!vars)
  <2>1. delayed[t] # <<>> /\ ~interrupted[t] /\ Process(t, Head(delayed[t]), 1) /\ sent' = sent
    BY <1>5 DEF DelayedUpdate
  <2>2. Head(delayed[t]) = TakenBy(t) + 1 /\ Head(delayed[t]) <= sent
    BY <1>1, <2>1, Next1
  <2>3. QED
    BY <1>1, <2>1, <2>2, ProcessRefines
<1>6. ASSUME NEW t \in Threads, LoopEnd(t) PROVE [Queue!Next]_(Queue!vars)
  BY <1>6 DEF LoopEnd, Queue!vars
<1>7. ASSUME NEW t \in Threads, Shutdown(t) PROVE [Queue!Next]_(Queue!vars)
  BY <1>7 DEF Shutdown, Queue!Next, Queue!GiveUp
<1>8. CASE UNCHANGED vars
  BY <1>8 DEF vars, Queue!vars
<1>9. QED
  BY <1>1, <1>2, <1>3, <1>4, <1>5, <1>6, <1>7, <1>8 DEF Next, Handler

\* The threads, with their interrupts, bouncers and delayed updates, implement the
\* queue that applies the updates in order, part by part.
THEOREM Implements == Spec => Refines
<1>1. Init => Queue!Init
  BY DEF Init, Queue!Init
<1>2. QED
  BY <1>1, NextRefines, Invariance, PTL DEF Spec, Refines, Queue!Spec

----------------------------------------------------------------------------
(***************************************************************************)
(* The thread of the file system never sleeps on a message, for any number *)
(* of threads that send to it.                                             *)
(***************************************************************************)

\* On windows there is no flag: notify sets the event at once.
NoFlag == os = "windows" => ~flag /\ \A p \in Producers : pc[p] \notin {"load", "store"}

\* From the last look at the queue to the sleep: whoever sends a message after
\* that has written to the pipe or is not done with notify.
Covered ==
    (at = "spin" \/ (at = "poll" /\ ~nested)) /\ inbound > 0
        => pipe > 0 \/ \E p \in Producers : pc[p] # "idle"

PollInv == PollTypeOK /\ NoFlag /\ FlagBacked /\ Covered

\* The initial states satisfy the invariant.
LEMMA PollInitInv == PollInit => PollInv
<1>1. SUFFICES ASSUME PollInit PROVE PollInv
  OBVIOUS
<1>2. os \in {"unix", "windows"}
  BY <1>1 DEF PollInit, Systems
<1>3. PollTypeOK
  BY <1>1, <1>2 DEF PollInit, PollTypeOK, Places, Steps
<1>4. NoFlag /\ FlagBacked /\ Covered
  BY <1>1 DEF PollInit, NoFlag, FlagBacked, Covered
<1>5. QED
  BY <1>3, <1>4 DEF PollInv

\* enqueue keeps it: the sender goes on to notify.
LEMMA EnqueueInv == ASSUME PollInv, NEW p \in Producers, enqueue(p) PROVE PollInv'
<1>1. PollTypeOK'
  BY DEF PollInv, enqueue, Goes, PollTypeOK, Steps
<1>2. NoFlag'
  BY DEF PollInv, enqueue, Goes, PollTypeOK, NoFlag
<1>3. FlagBacked'
  BY DEF PollInv, enqueue, Goes, PollTypeOK, FlagBacked
<1>4. pc'[p] # "idle"
  BY DEF PollInv, enqueue, Goes, PollTypeOK
<1>5. QED
  BY <1>1, <1>2, <1>3, <1>4 DEF PollInv, Covered

\* A sender that finds the flag up goes away: somebody else has written to the
\* pipe, or is about to.
LEMMA LoadInv == ASSUME PollInv, NEW p \in Producers, load_flag(p) PROVE PollInv'
<1>1. PollTypeOK'
  BY DEF PollInv, load_flag, Goes, PollTypeOK, Steps
<1>2. NoFlag'
  BY DEF PollInv, load_flag, Goes, PollTypeOK, NoFlag
<1>3. ASSUME NEW q \in Producers, pc[q] = "write" PROVE pc'[q] = "write"
  BY <1>3 DEF PollInv, load_flag, Goes, PollTypeOK
<1>4. FlagBacked'
  BY <1>3 DEF PollInv, load_flag, FlagBacked
<1>5. Covered'
  <2>1. CASE flag
    BY <2>1, <1>3 DEF PollInv, load_flag, FlagBacked, Covered
  <2>2. CASE ~flag
    <3>1. pc'[p] = "store"
      BY <2>2 DEF PollInv, load_flag, Goes, PollTypeOK
    <3>2. QED
      BY <3>1 DEF Covered
  <2>3. QED
    BY <2>1, <2>2
<1>6. QED
  BY <1>1, <1>2, <1>4, <1>5 DEF PollInv

\* The flag goes up with its owner about to write.
LEMMA StoreInv == ASSUME PollInv, NEW p \in Producers, store(p) PROVE PollInv'
<1>1. PollTypeOK'
  BY DEF PollInv, store, Goes, PollTypeOK, Steps
<1>2. pc'[p] = "write"
  BY DEF PollInv, store, Goes, PollTypeOK
<1>3. NoFlag'
  BY DEF PollInv, store, PollTypeOK, NoFlag
<1>4. QED
  BY <1>1, <1>2, <1>3 DEF PollInv, FlagBacked, Covered

\* A byte, or the event, is there.
LEMMA WriteInv == ASSUME PollInv, NEW p \in Producers, write(p) PROVE PollInv'
<1>1. PollTypeOK'
  BY DEF PollInv, write, Goes, PollTypeOK, Steps
<1>2. pipe' > 0
  BY DEF PollInv, write, PollTypeOK
<1>3. NoFlag'
  BY DEF PollInv, write, Goes, PollTypeOK, NoFlag
<1>4. QED
  BY <1>1, <1>2, <1>3 DEF PollInv, FlagBacked, Covered

\* The thread itself: it looks at the queue before it spins, and clears the flag
\* before it looks again.
LEMMA RunInv == ASSUME PollInv, run PROVE PollInv'
<1>1. CASE do_process
  <2>1. PollTypeOK'
    <3>1. nested' \in BOOLEAN /\ at' \in Places
      BY <1>1, Zenon DEF do_process, Places
    <3>2. queue' \in Nat
      BY <1>1 DEF PollInv, PollTypeOK, do_process
    <3>3. QED
      BY <1>1, <3>1, <3>2 DEF PollInv, PollTypeOK, do_process
  <2>2. NoFlag'
    BY <1>1 DEF PollInv, do_process, PollTypeOK, NoFlag
  <2>3. FlagBacked'
    BY <1>1 DEF PollInv, do_process, PollTypeOK, NoFlag, FlagBacked
  <2>4. Covered'
    BY <1>1 DEF PollInv, do_process, PollTypeOK, Covered
  <2>5. QED
    BY <2>1, <2>2, <2>3, <2>4 DEF PollInv
<1>2. CASE try_pop_inbound
  <2>1. PollTypeOK'
    BY <1>2 DEF PollInv, try_pop_inbound, PollTypeOK, Places
  <2>2. NoFlag'
    BY <1>2 DEF PollInv, try_pop_inbound, PollTypeOK, NoFlag
  <2>3. FlagBacked'
    BY <1>2 DEF PollInv, try_pop_inbound, PollTypeOK, NoFlag, FlagBacked
  <2>4. Covered'
    BY <1>2 DEF PollInv, try_pop_inbound, PollTypeOK, Covered
  <2>5. QED
    BY <2>1, <2>2, <2>3, <2>4 DEF PollInv
<1>3. CASE spin
  <2>1. PollTypeOK'
    BY <1>3 DEF PollInv, spin, PollTypeOK, Places
  <2>2. NoFlag'
    BY <1>3 DEF PollInv, spin, PollTypeOK, NoFlag
  <2>3. FlagBacked'
    BY <1>3 DEF PollInv, spin, PollTypeOK, NoFlag, FlagBacked
  <2>4. Covered'
    BY <1>3 DEF PollInv, spin, PollTypeOK, Covered
  <2>5. QED
    BY <2>1, <2>2, <2>3, <2>4 DEF PollInv
<1>4. CASE poll
  <2>1. PollTypeOK'
    BY <1>4 DEF PollInv, poll, PollTypeOK, Places
  <2>2. NoFlag'
    BY <1>4 DEF PollInv, poll, PollTypeOK, NoFlag
  <2>3. FlagBacked'
    BY <1>4 DEF PollInv, poll, PollTypeOK, NoFlag, FlagBacked
  <2>4. Covered'
    BY <1>4 DEF PollInv, poll, PollTypeOK, Covered
  <2>5. QED
    BY <2>1, <2>2, <2>3, <2>4 DEF PollInv
<1>5. CASE drain
  <2>1. PollTypeOK'
    BY <1>5 DEF PollInv, drain, PollTypeOK, Places
  <2>2. NoFlag'
    BY <1>5 DEF PollInv, drain, PollTypeOK, NoFlag
  <2>3. FlagBacked'
    BY <1>5 DEF PollInv, drain, PollTypeOK, NoFlag, FlagBacked
  <2>4. Covered'
    BY <1>5 DEF PollInv, drain, PollTypeOK, Covered
  <2>5. QED
    BY <2>1, <2>2, <2>3, <2>4 DEF PollInv
<1>6. CASE clear
  <2>1. PollTypeOK'
    BY <1>6 DEF PollInv, clear, PollTypeOK, Places
  <2>2. NoFlag'
    BY <1>6 DEF PollInv, clear, PollTypeOK, NoFlag
  <2>3. FlagBacked'
    BY <1>6 DEF PollInv, clear, PollTypeOK, NoFlag, FlagBacked
  <2>4. Covered'
    BY <1>6 DEF PollInv, clear, PollTypeOK, Covered
  <2>5. QED
    BY <2>1, <2>2, <2>3, <2>4 DEF PollInv
<1>7. QED
  BY <1>1, <1>2, <1>3, <1>4, <1>5, <1>6 DEF run, async_cb

\* Every step keeps the invariant.
LEMMA PollNextInv == PollInv /\ [PollNext]_pollVars => PollInv'
<1>1. SUFFICES ASSUME PollInv, [PollNext]_pollVars PROVE PollInv'
  OBVIOUS
<1>2. CASE run
  BY <1>1, <1>2, RunInv
<1>3. ASSUME NEW p \in Producers, enqueue(p) \/ notify(p) PROVE PollInv'
  BY <1>1, <1>3, EnqueueInv, LoadInv, StoreInv, WriteInv DEF notify
<1>4. CASE UNCHANGED pollVars
  BY <1>1, <1>4 DEF pollVars, PollInv, PollTypeOK, NoFlag, FlagBacked, Covered
<1>5. QED
  BY <1>1, <1>2, <1>3, <1>4 DEF PollNext

\* The invariant holds in every state.
LEMMA PollInvariance == PollSpec => []PollInv
<1>1. QED
  BY PollInitInv, PollNextInv, PTL DEF PollSpec

\* Whatever the senders and the thread do, a thread that sleeps while a message is
\* in its inbound queue is about to be woken: no wake-up is lost.
THEOREM NeverSleepsOnMessage == PollSpec => []NoLostWakeup
<1>1. PollInv => NoLostWakeup
  BY DEF PollInv, PollTypeOK, Covered, NoLostWakeup, Sleeping
<1>2. QED
  BY <1>1, PollInvariance, PTL

\* async_flag is never left up without a byte in the pipe, a sender about to write
\* one, or the thread about to clear it: later messages are not held back for good.
THEOREM FlagSound == PollSpec => []FlagBacked
<1>1. PollInv => FlagBacked
  BY DEF PollInv
<1>2. QED
  BY <1>1, PollInvariance, PTL

----------------------------------------------------------------------------
(***************************************************************************)
(* A cancel ends what was running, whatever the order in which operations  *)
(* complete, are cancelled and are delivered, and however many are started.*)
(***************************************************************************)

\* Cancels is not inductive: a cancel that comes while one is pending is not
\* passed on.  It needs none because nothing was started since.
NothingRuns == ~vain /\ cancelling => \A o \in Ops : op[o] # "running"
CancelInv == Cancels /\ NothingRuns

\* What the operation o posts leaves the others as they are.
LEMMA PostOne ==
    ASSUME TransportTypeOK, NEW o \in Ops, NEW val \in {"idle", "running", "ok", "failed", "aborted"}, Post(o, val)
    PROVE  /\ op' \in [Ops -> {"idle", "running", "ok", "failed", "aborted"}]
           /\ op'[o] = val
           /\ \A x \in Ops : x # o => op'[x] = op[x]
  BY DEF Post, TransportTypeOK

\* The invariant holds at the start.
LEMMA CancelInitInv == TransportInit => CancelInv
<1> SUFFICES ASSUME TransportInit PROVE CancelInv
  OBVIOUS
<1>1. op \in [Ops -> {"idle", "running", "ok", "failed", "aborted"}] /\ starts \in 0 .. MaxStarts
  BY StartsAssumption DEF TransportInit
<1>2. TransportTypeOK
  BY <1>1 DEF TransportInit, TransportTypeOK
<1>3. CancelWorks /\ CancelCleared /\ NothingRuns
  BY DEF TransportInit, CancelWorks, CancelCleared, NothingRuns
<1> QED BY <1>2, <1>3 DEF CancelInv, Cancels

\* An operation starts: it was not asked to end, and if a cancel is pending this
\* is a start meanwhile, which the history remembers.
LEMMA StartStep ==
    ASSUME CancelInv, NEW o \in Ops, Start(o), NEW val \in {"running", "ok", "failed"}, Post(o, val),
           UNCHANGED <<kind, cancelling, stage>>
    PROVE  CancelInv'
<1>1. op' \in [Ops -> {"idle", "running", "ok", "failed", "aborted"}] /\ \A x \in Ops : x # o => op'[x] = op[x]
  BY PostOne DEF CancelInv, Cancels
<1>2. TransportTypeOK'
  BY <1>1, StartsAssumption DEF CancelInv, Cancels, TransportTypeOK, Start
<1>3. CancelWorks' /\ CancelCleared' /\ NothingRuns'
  BY <1>1 DEF CancelInv, Cancels, CancelWorks, CancelCleared, NothingRuns, Start, TransportTypeOK
<1> QED BY <1>2, <1>3 DEF CancelInv, Cancels

\* A result is posted for a running operation.
LEMMA CompleteStep == ASSUME CancelInv, NEW o \in Ops, Complete(o) PROVE CancelInv'
<1>1. PICK r \in {"ok", "failed"} : Post(o, r)
  BY DEF Complete
<1>2. /\ op' \in [Ops -> {"idle", "running", "ok", "failed", "aborted"}]
      /\ op'[o] = r /\ \A x \in Ops : x # o => op'[x] = op[x]
  BY <1>1, PostOne DEF CancelInv, Cancels
<1>3. TransportTypeOK'
  BY <1>2 DEF CancelInv, Cancels, TransportTypeOK, Complete
<1>4. CancelWorks' /\ CancelCleared' /\ NothingRuns'
  BY <1>2 DEF CancelInv, Cancels, CancelWorks, CancelCleared, NothingRuns, Complete, TransportTypeOK
<1> QED BY <1>3, <1>4 DEF CancelInv, Cancels

\* cancel: it is passed on, and aborts what runs, or one is pending and nothing runs.
LEMMA CancelStep == ASSUME CancelInv, cancel PROVE CancelInv'
<1>1. CASE cancelling
  <2>1. TransportTypeOK'
    BY <1>1 DEF CancelInv, Cancels, TransportTypeOK, cancel
  <2>2. CancelWorks' /\ CancelCleared' /\ NothingRuns'
    BY <1>1 DEF CancelInv, Cancels, CancelWorks, CancelCleared, NothingRuns, cancel, TransportTypeOK
  <2> QED BY <2>1, <2>2 DEF CancelInv, Cancels
<1>2. CASE ~cancelling
  <2>1. \A o \in Ops : op'[o] = IF op[o] = "running" THEN "aborted" ELSE op[o]
    BY <1>2 DEF cancel, Aborted
  <2>2. TransportTypeOK'
    BY <1>2 DEF CancelInv, Cancels, TransportTypeOK, cancel, Aborted
  <2>3. CancelWorks' /\ NothingRuns'
    BY <2>1, <2>2 DEF CancelWorks, NothingRuns, TransportTypeOK
  <2>4. CancelCleared'
    BY <2>1 DEF CancelCleared, cancel
  <2> QED BY <2>2, <2>3, <2>4 DEF CancelInv, Cancels
<1> QED BY <1>1, <1>2 DEF CancelInv, Cancels, TransportTypeOK

\* A result is delivered.  An aborted operation takes the pending cancel with it,
\* except for the handshake, which the history remembers.
LEMMA ErrorStep == ASSUME CancelInv, NEW o \in Ops, error(o) PROVE CancelInv'
<1>1. /\ op' \in [Ops -> {"idle", "running", "ok", "failed", "aborted"}]
      /\ op'[o] = "idle" /\ \A x \in Ops : x # o => op'[x] = op[x]
  BY PostOne DEF CancelInv, Cancels, error
<1>2. TransportTypeOK'
  BY <1>1 DEF CancelInv, Cancels, TransportTypeOK, error
<1>3. CancelWorks' /\ NothingRuns'
  BY <1>1 DEF CancelInv, Cancels, CancelWorks, NothingRuns, error, TransportTypeOK
<1>4. CancelCleared'
  BY <1>1 DEF CancelInv, Cancels, CancelCleared, error, TransportTypeOK
<1> QED BY <1>2, <1>3, <1>4 DEF CancelInv, Cancels

LEMMA SuccessStep == ASSUME CancelInv, NEW o \in Ops, success(o) PROVE CancelInv'
<1>1. /\ op' \in [Ops -> {"idle", "running", "ok", "failed", "aborted"}]
      /\ op'[o] = "idle" /\ \A x \in Ops : x # o => op'[x] = op[x]
  BY PostOne DEF CancelInv, Cancels, success
<1>2. TransportTypeOK'
  BY <1>1 DEF CancelInv, Cancels, TransportTypeOK, success, After
<1>3. CancelWorks' /\ CancelCleared' /\ NothingRuns'
  BY <1>1 DEF CancelInv, Cancels, CancelWorks, CancelCleared, NothingRuns, success, TransportTypeOK
<1> QED BY <1>2, <1>3 DEF CancelInv, Cancels

----------------------------------------------------------------------------
\* Every step keeps the invariant.
LEMMA CancelNextInv == CancelInv /\ [TransportNext]_transportVars => CancelInv'
<1> SUFFICES ASSUME CancelInv, [TransportNext]_transportVars PROVE CancelInv'
  OBVIOUS
<1>1. CASE async_connect
  BY <1>1, StartStep DEF async_connect, Ops
<1>2. CASE async_handshake
  <2>1. \E r \in {"running", "ok", "failed"} : Post("handshake", r)
    BY <1>2 DEF async_handshake
  <2> QED BY <1>2, <2>1, StartStep DEF async_handshake, Ops
<1>3. CASE async_recv
  BY <1>3, StartStep DEF async_recv, Ops
<1>4. CASE async_send
  BY <1>4, StartStep DEF async_send, Ops
<1>5. CASE cancel
  BY <1>5, CancelStep
<1>6. ASSUME NEW o \in Ops, Complete(o) \/ error(o) \/ success(o) PROVE CancelInv'
  BY <1>6, CompleteStep, ErrorStep, SuccessStep
<1>7. CASE UNCHANGED transportVars
  BY <1>7 DEF transportVars, CancelInv, Cancels, TransportTypeOK, CancelWorks, CancelCleared, NothingRuns
<1> QED BY <1>1, <1>2, <1>3, <1>4, <1>5, <1>6, <1>7 DEF TransportNext

\* transport::impl: as long as no cancel was in vain, an operation the actor asked
\* to cancel does not keep running, and a cancel is remembered only until an
\* aborted operation is delivered.
THEOREM CancelEnds == TransportSpec => []Cancels
<1>1. CancelInv => Cancels
  BY DEF CancelInv
<1> QED BY CancelInitInv, CancelNextInv, <1>1, PTL DEF TransportSpec
=============================================================================
