-------------------------- MODULE NotificationProofs --------------------------
(***************************************************************************)
(* The safety properties of the notification worker, for any number of      *)
(* workers, events, subscriptions, messages and faults.                     *)
(*                                                                          *)
(* OffsetsCovered and RowsBackedByPushes speak of what is committed; a step *)
(* commits what an open transaction holds, so the invariant says what an    *)
(* open transaction may hold: its event is unclaimed, no other transaction  *)
(* has it, and each outcome it has recorded is of a push that was made.     *)
(* RepeatsNeedFaults is not inductive either: what makes a second push      *)
(* impossible without a fault is that the first is still known, to the      *)
(* transaction that made it or by the claim that transaction committed.     *)
(* The invariant counts the pushes nobody knows of any more, one for each   *)
(* crash or error.                                                          *)
(***************************************************************************)
EXTENDS Notification, TLAPS

Handling == {"claim", "deliver", "ack"}

(* A worker past FetchMessage has a message, and one at CommitMessages has  *)
(* dealt with it.                                                           *)
InHand ==
    \A w \in Workers :
        /\ pc[w] \in Handling => offset[w] < Len(log[w])
        /\ pc[w] = "ack" => Current(w) \in processed \cup Bad

Covered == \A w \in Workers : \A i \in 1..offset[w] : log[w][i] \in processed \cup Bad

Delivers(w, e) == pc[w] = "deliver" /\ Current(w) = e

(* An open transaction has claimed its event alone.                         *)
OneClaim ==
    \A w \in Workers, e \in Recs :
        Delivers(w, e) => /\ e \notin processed
                          /\ \A x \in Workers : Delivers(x, e) => x = w

(* Outcomes are those of the open transaction, of subscriptions its loop    *)
(* has passed; a successful one has its push.                               *)
OpenResults ==
    \A w \in Workers, s \in Subs :
        result[w][s] # "none" =>
            /\ pc[w] = "deliver" /\ s \notin queue[w]
            /\ result[w][s] \in {"sent", "delivered"} => pushes[s][Current(w)] > 0

(* A push of e to s is known: to the claim of e, or to a transaction that   *)
(* will commit both.                                                        *)
Known(s, e) ==
    e \in processed \/ \E w \in Workers : Delivers(w, e) /\ result[w][s] # "none"

PushesPaid ==
    \A s \in Subs, e \in Recs :
        pushes[s][e] <= crashes + errors + (IF Known(s, e) THEN 1 ELSE 0)

Inv == TypeOK /\ InHand /\ Covered /\ OneClaim /\ OpenResults /\ RowsBackedByPushes /\ PushesPaid

LEMMA InitInv == Init => Inv
  <1> SUFFICES ASSUME Init PROVE Inv
    OBVIOUS
  <1>1. TypeOK
    BY NotificationAssumption DEF Init, TypeOK, NoResult
  <1>2. InHand /\ Covered /\ OneClaim
    BY DEF Init, InHand, Covered, OneClaim, Delivers, Handling
  <1>3. OpenResults
    BY DEF Init, OpenResults, NoResult
  <1>4. RowsBackedByPushes
    BY DEF Init, RowsBackedByPushes, Topics
  <1>5. PushesPaid
    BY DEF Init, PushesPaid
  <1> QED BY <1>1, <1>2, <1>3, <1>4, <1>5 DEF Inv

(* The message in hand is one of its partition.                             *)
LEMMA InHandIsRec ==
    ASSUME TypeOK, NEW w \in Workers, offset[w] < Len(log[w])
    PROVE  offset[w] + 1 \in 1..Len(log[w]) /\ Current(w) \in Recs
  <1>1. log[w] \in Seq(Recs) /\ offset[w] \in Nat /\ Len(log[w]) \in Nat
    BY DEF TypeOK
  <1>2. offset[w] + 1 \in 1..Len(log[w])
    BY <1>1
  <1> QED BY <1>1, <1>2 DEF Current

(* The types of the counters a bound on pushes is made of.                  *)
LEMMA PushTypes ==
    ASSUME TypeOK
    PROVE  /\ crashes \in Nat /\ errors \in Nat
           /\ \A s \in Subs, e \in Recs : pushes[s][e] \in Nat
  BY DEF TypeOK

(* A step that pushes nothing and forgets nothing keeps the count.          *)
LEMMA NothingForgotten ==
    ASSUME Inv, UNCHANGED <<pushes, crashes, errors>>,
           \A s \in Subs, e \in Recs : Known(s, e) => Known(s, e)'
    PROVE  PushesPaid'
  <1> SUFFICES ASSUME NEW s \in Subs, NEW e \in Recs
               PROVE  (pushes[s][e] <= crashes + errors + (IF Known(s, e) THEN 1 ELSE 0))'
    BY DEF PushesPaid
  <1>1. pushes[s][e] \in Nat /\ crashes \in Nat /\ errors \in Nat
    BY PushTypes DEF Inv
  <1>2. pushes[s][e] <= crashes + errors + (IF Known(s, e) THEN 1 ELSE 0)
    BY DEF Inv, PushesPaid
  <1>3. CASE Known(s, e)
    <2>1. Known(s, e)'
      BY <1>3
    <2> QED BY <1>1, <1>2, <1>3, <2>1
  <1>4. CASE ~Known(s, e)
    <2>1. pushes[s][e] <= crashes + errors
      BY <1>1, <1>2, <1>4
    <2>2. CASE Known(s, e)'
      BY <1>1, <2>1, <2>2
    <2>3. CASE ~Known(s, e)'
      BY <1>1, <2>1, <2>3
    <2> QED BY <2>2, <2>3
  <1> QED BY <1>3, <1>4

-----------------------------------------------------------------------------
(* The world around the worker.                                             *)

LEMMA WorldInv ==
    ASSUME Inv,
           \/ \E s \in Subs : Register(s) \/ Revoke(s)
           \/ ChangeSettings
           \/ UNCHANGED vars
    PROVE  Inv'
  <1>1. UNCHANGED <<log, offset, processed, deliveries, pushes, outbox, pc, queue, result,
                    crashes, errors>>
    BY DEF Register, Revoke, ChangeSettings, vars
  <1>2. active' \in SUBSET Subs /\ allowed' \in BOOLEAN
    BY DEF Register, Revoke, ChangeSettings, vars, Inv, TypeOK
  <1>3. TypeOK'
    BY <1>1, <1>2 DEF Inv, TypeOK
  <1>4. InHand' /\ Covered' /\ OneClaim' /\ OpenResults' /\ RowsBackedByPushes'
    BY <1>1 DEF Inv, InHand, Covered, OneClaim, Delivers, OpenResults, RowsBackedByPushes, Current
  <1>5. PushesPaid'
    BY <1>1 DEF Inv, PushesPaid, Known, Delivers, Current
  <1> QED BY <1>3, <1>4, <1>5 DEF Inv

LEMMA ProduceInv ==
    ASSUME Inv, NEW v \in Workers, NEW r \in Recs, Produce(v, r)
    PROVE  Inv'
  <1>1. UNCHANGED <<offset, processed, deliveries, active, allowed, pushes, outbox, pc, queue,
                    result, crashes, errors>>
    BY DEF Produce
  <1>2. log' = [log EXCEPT ![v] = Append(log[v], r)] /\ log \in [Workers -> Seq(Recs)]
    BY DEF Produce, Inv, TypeOK
  <1>3. ASSUME NEW w \in Workers
        PROVE  /\ log'[w] \in Seq(Recs) /\ Len(log'[w]) >= Len(log[w])
               /\ Len(log[w]) \in Nat /\ Len(log'[w]) \in Nat
               /\ \A i \in 1..Len(log[w]) : log'[w][i] = log[w][i]
    <2>1. log[w] \in Seq(Recs) /\ Len(log[w]) \in Nat
      BY <1>2
    <2>2. CASE w = v
      BY <1>2, <2>1, <2>2
    <2>3. CASE w # v
      BY <1>2, <2>1, <2>3
    <2> QED BY <2>2, <2>3
  <1>4. \A w \in Workers : offset[w] \in Nat /\ offset[w] <= Len(log[w])
    BY DEF Inv, TypeOK
  <1>5. TypeOK'
    <2>1. log' \in [Workers -> Seq(Recs)]
      BY <1>2, <1>3
    <2>2. \A w \in Workers : offset'[w] <= Len(log'[w])
      BY <1>1, <1>3, <1>4
    <2> QED BY <1>1, <2>1, <2>2 DEF Inv, TypeOK
  <1>6. ASSUME NEW w \in Workers, pc[w] \in Handling
        PROVE  /\ offset'[w] < Len(log'[w])
               /\ Current(w)' = Current(w)
    <2>1. offset[w] < Len(log[w])
      BY <1>6 DEF Inv, InHand
    <2>2. offset[w] + 1 \in 1..Len(log[w])
      BY <2>1, InHandIsRec DEF Inv
    <2> QED BY <1>1, <1>3, <1>4, <2>1, <2>2 DEF Current
  <1>7. InHand'
    BY <1>1, <1>6 DEF Inv, InHand, Handling
  <1>8. Covered'
    <2>1. \A w \in Workers : \A i \in 1..offset[w] : i \in 1..Len(log[w])
      BY <1>3, <1>4
    <2> QED BY <1>1, <1>3, <2>1 DEF Inv, Covered
  <1>9. \A w \in Workers, e \in Recs : Delivers(w, e)' <=> Delivers(w, e)
    BY <1>1, <1>6 DEF Delivers, Handling
  <1>10. OneClaim'
    BY <1>1, <1>9 DEF Inv, OneClaim
  <1>11. OpenResults'
    BY <1>1, <1>6 DEF Inv, OpenResults, Handling
  <1>12. RowsBackedByPushes'
    BY <1>1 DEF Inv, RowsBackedByPushes
  <1>13. \A s \in Subs, e \in Recs : Known(s, e) => Known(s, e)'
    BY <1>1, <1>9 DEF Known
  <1>14. PushesPaid'
    BY <1>1, <1>13, NothingForgotten
  <1> QED BY <1>5, <1>7, <1>8, <1>10, <1>11, <1>12, <1>14 DEF Inv

-----------------------------------------------------------------------------
(* The worker's steps.                                                      *)

LEMMA FetchInv == ASSUME Inv, NEW v \in Workers, Fetch(v) PROVE Inv'
  <1>1. UNCHANGED <<log, offset, processed, deliveries, active, allowed, pushes, outbox,
                    queue, result, crashes, errors>>
    BY DEF Fetch
  <1>2. /\ pc[v] = "fetch" /\ offset[v] < Len(log[v])
        /\ pc' = [pc EXCEPT ![v] = IF Current(v) \in Bad THEN "ack" ELSE "claim"]
    BY DEF Fetch
  <1>3. TypeOK'
    BY <1>1, <1>2 DEF Inv, TypeOK
  <1>4. \A w \in Workers : Current(w)' = Current(w)
    BY <1>1 DEF Current
  <1>5. InHand' /\ Covered'
    BY <1>1, <1>2, <1>4 DEF Inv, TypeOK, InHand, Covered, Handling
  <1>6. \A w \in Workers, e \in Recs : Delivers(w, e)' <=> Delivers(w, e)
    BY <1>2, <1>4 DEF Delivers, Inv, TypeOK
  <1>7. OneClaim'
    BY <1>1, <1>6 DEF Inv, OneClaim
  <1>8. OpenResults'
    BY <1>1, <1>2, <1>4 DEF Inv, TypeOK, OpenResults
  <1>9. RowsBackedByPushes'
    BY <1>1 DEF Inv, RowsBackedByPushes
  <1>10. PushesPaid'
    BY <1>1, <1>6, NothingForgotten DEF Known
  <1> QED BY <1>3, <1>5, <1>7, <1>8, <1>9, <1>10 DEF Inv

(* The insert into processed_events waits for a transaction of the same     *)
(* event, and finds the row one that committed has left.                    *)
LEMMA ClaimInv == ASSUME Inv, NEW v \in Workers, Claim(v) PROVE Inv'
  <1>1. UNCHANGED <<log, offset, processed, deliveries, active, allowed, pushes, outbox,
                    result, crashes, errors>>
    BY DEF Claim
  <1>2. pc[v] = "claim" /\ ~Claimed(v)
    BY DEF Claim
  <1>3. \A w \in Workers : Current(w)' = Current(w)
    BY <1>1 DEF Current
  <1>4. CASE Current(v) \in processed
    <2>1. pc' = [pc EXCEPT ![v] = "ack"] /\ UNCHANGED queue
      BY <1>4 DEF Claim
    <2>2. TypeOK'
      BY <1>1, <2>1 DEF Inv, TypeOK
    <2>3. InHand' /\ Covered'
      BY <1>1, <1>2, <1>3, <1>4, <2>1 DEF Inv, TypeOK, InHand, Covered, Handling
    <2>4. \A w \in Workers, e \in Recs : Delivers(w, e)' <=> Delivers(w, e)
      BY <1>2, <1>3, <2>1 DEF Delivers, Inv, TypeOK
    <2>5. OneClaim'
      BY <1>1, <2>4 DEF Inv, OneClaim
    <2>6. OpenResults'
      BY <1>1, <1>2, <1>3, <2>1 DEF Inv, TypeOK, OpenResults
    <2>7. RowsBackedByPushes'
      BY <1>1 DEF Inv, RowsBackedByPushes
    <2>8. PushesPaid'
      BY <1>1, <2>4, NothingForgotten DEF Known
    <2> QED BY <2>2, <2>3, <2>5, <2>6, <2>7, <2>8 DEF Inv
  <1>5. CASE Current(v) \notin processed
    <2>1. /\ pc' = [pc EXCEPT ![v] = "deliver"]
          /\ queue' = [queue EXCEPT ![v] = IF allowed THEN active ELSE {}]
      BY <1>5 DEF Claim, StartDeliver
    <2>2. TypeOK'
      <3>1. (IF allowed THEN active ELSE {}) \in SUBSET Subs
        BY DEF Inv, TypeOK
      <3>2. queue' \in [Workers -> SUBSET Subs]
        BY <2>1, <3>1 DEF Inv, TypeOK
      <3> QED BY <1>1, <2>1, <3>2 DEF Inv, TypeOK
    <2>3. InHand' /\ Covered'
      BY <1>1, <1>2, <1>3, <2>1 DEF Inv, TypeOK, InHand, Covered, Handling
    <2>4. \A w \in Workers \ {v}, e \in Recs : Delivers(w, e)' <=> Delivers(w, e)
      BY <1>3, <2>1 DEF Delivers, Inv, TypeOK
    <2>5. \A e \in Recs : Delivers(v, e)' <=> e = Current(v)
      BY <1>3, <2>1 DEF Delivers, Inv, TypeOK
    <2>6. \A w \in Workers \ {v} : ~Delivers(w, Current(v))
      BY <1>2 DEF Claimed, Delivers
    <2>7. OneClaim'
      BY <1>1, <1>5, <2>4, <2>5, <2>6 DEF Inv, OneClaim
    <2>8. \A s \in Subs : result[v][s] = "none"
      BY <1>2 DEF Inv, OpenResults
    <2>9. OpenResults'
      BY <1>1, <1>3, <2>1, <2>8 DEF Inv, TypeOK, OpenResults
    <2>10. RowsBackedByPushes'
      BY <1>1 DEF Inv, RowsBackedByPushes
    <2>11. \A s \in Subs, e \in Recs : Known(s, e) => Known(s, e)'
      BY <1>1, <2>4, <2>8 DEF Known
    <2>12. PushesPaid'
      BY <1>1, <2>11, NothingForgotten
    <2> QED BY <2>2, <2>3, <2>7, <2>9, <2>10, <2>12 DEF Inv
  <1> QED BY <1>4, <1>5

(* The turn of deliver's loop for subscription s pushes at most once, and   *)
(* the transaction knows of it.                                             *)
LEMMA SendInv == ASSUME Inv, NEW v \in Workers, Send(v) PROVE Inv'
  <1>1. UNCHANGED <<log, offset, processed, deliveries, active, allowed, outbox, pc,
                    crashes, errors>>
    BY DEF Send
  <1>2. PICK u \in Subs :
           /\ pc[v] = "deliver" /\ IsNext(v, u)
           /\ queue' = [queue EXCEPT ![v] = @ \ {u}]
           /\ IF deliveries[u][Current(v)] # "none"
              THEN UNCHANGED <<pushes, result>>
              ELSE \E outcome \in Outcomes :
                     /\ outcome = "gone" => ~Deactivating(u)
                     /\ result' = [result EXCEPT ![v][u] = outcome]
                     /\ \E accepted \in Accepted(outcome) :
                           pushes' = [pushes EXCEPT ![u][Current(v)] = @ + accepted]
    BY DEF Send
  <1>3. PICK r \in Recs : r = Current(v)
    BY <1>2, InHandIsRec DEF Inv, InHand, Handling
  <1>4. Delivers(v, r) /\ r \notin processed /\ \A x \in Workers : Delivers(x, r) => x = v
    BY <1>2, <1>3 DEF Delivers, Inv, OneClaim
  <1>5. deliveries[u][r] = "none"
    BY <1>4 DEF Inv, RowsBackedByPushes
  <1>6. PICK outcome \in Outcomes :
           /\ result' = [result EXCEPT ![v][u] = outcome]
           /\ \E accepted \in Accepted(outcome) :
                 pushes' = [pushes EXCEPT ![u][r] = @ + accepted]
    BY <1>2, <1>3, <1>5
  <1>7. PICK accepted \in Accepted(outcome) : pushes' = [pushes EXCEPT ![u][r] = @ + accepted]
    BY <1>6
  <1>8. accepted \in {0, 1} /\ (outcome \in {"sent", "delivered"} => accepted = 1)
    BY <1>7 DEF Accepted, Outcomes
  <1>9. /\ pushes' \in [Subs -> [Recs -> Nat]]
        /\ pushes'[u][r] = pushes[u][r] + accepted
        /\ \A s \in Subs, e \in Recs : ~(s = u /\ e = r) => pushes'[s][e] = pushes[s][e]
        /\ \A s \in Subs, e \in Recs : pushes'[s][e] >= pushes[s][e]
    BY <1>7, <1>8 DEF Inv, TypeOK
  <1>10. /\ result' \in [Workers -> [Subs -> Outcomes \cup {"none"}]]
         /\ result'[v][u] = outcome /\ outcome # "none"
         /\ \A w \in Workers, s \in Subs : ~(w = v /\ s = u) => result'[w][s] = result[w][s]
    BY <1>6 DEF Inv, TypeOK, Outcomes
  <1>11. /\ queue' \in [Workers -> SUBSET Subs]
         /\ u \notin queue'[v]
         /\ \A w \in Workers : queue'[w] \subseteq queue[w]
    BY <1>2 DEF Inv, TypeOK
  <1>12. TypeOK'
    BY <1>1, <1>9, <1>10, <1>11 DEF Inv, TypeOK
  <1>13. \A w \in Workers : Current(w)' = Current(w)
    BY <1>1 DEF Current
  <1>14. \A w \in Workers, e \in Recs : Delivers(w, e)' <=> Delivers(w, e)
    BY <1>1, <1>13 DEF Delivers
  <1>15. InHand' /\ Covered' /\ OneClaim'
    BY <1>1, <1>13, <1>14 DEF Inv, InHand, Covered, OneClaim
  <1>16. OpenResults'
    <2> SUFFICES ASSUME NEW w \in Workers, NEW s \in Subs, result'[w][s] # "none"
                 PROVE  /\ pc'[w] = "deliver" /\ s \notin queue'[w]
                        /\ result'[w][s] \in {"sent", "delivered"} => pushes'[s][Current(w)'] > 0
      BY DEF OpenResults
    <2>1. CASE w = v /\ s = u
      <3>1. pushes[u][r] \in Nat
        BY DEF Inv, TypeOK
      <3> QED BY <1>1, <1>2, <1>3, <1>8, <1>9, <1>10, <1>11, <1>13, <2>1, <3>1
    <2>2. CASE ~(w = v /\ s = u)
      <3>1. /\ result[w][s] # "none" /\ result'[w][s] = result[w][s]
            /\ pc[w] = "deliver" /\ s \notin queue[w]
        BY <1>10, <2>2 DEF Inv, OpenResults
      <3>2. PICK c \in Recs : c = Current(w)
        BY <3>1, InHandIsRec DEF Inv, InHand, Handling
      <3>3. result[w][s] \in {"sent", "delivered"} => pushes[s][c] > 0
        BY <3>1, <3>2 DEF Inv, OpenResults
      <3>4. pushes'[s][c] >= pushes[s][c] /\ pushes[s][c] \in Nat /\ pushes'[s][c] \in Nat
        BY <1>9 DEF Inv, TypeOK
      <3>5. result'[w][s] \in {"sent", "delivered"} => pushes'[s][c] > 0
        BY <3>1, <3>3, <3>4
      <3> QED BY <1>1, <1>11, <1>13, <3>1, <3>2, <3>5
    <2> QED BY <2>1, <2>2
  <1>17. RowsBackedByPushes'
    <2> SUFFICES ASSUME NEW s \in Subs, NEW e \in Recs
                 PROVE  /\ deliveries'[s][e] \in {"sent", "delivered"} => pushes'[s][e] > 0
                        /\ deliveries'[s][e] # "none" => e \in processed'
                        /\ outbox'[s][e] = Topics(deliveries'[s][e])
      BY DEF RowsBackedByPushes
    <2>1. pushes'[s][e] >= pushes[s][e] /\ pushes[s][e] \in Nat /\ pushes'[s][e] \in Nat
      BY <1>9 DEF Inv, TypeOK
    <2> QED BY <1>1, <2>1 DEF Inv, RowsBackedByPushes
  <1>18. PushesPaid'
    <2> SUFFICES ASSUME NEW s \in Subs, NEW e \in Recs
                 PROVE  (pushes[s][e] <= crashes + errors + (IF Known(s, e) THEN 1 ELSE 0))'
      BY DEF PushesPaid
    <2>1. pushes[s][e] \in Nat /\ crashes \in Nat /\ errors \in Nat
      BY PushTypes DEF Inv
    <2>2. pushes[s][e] <= crashes + errors + (IF Known(s, e) THEN 1 ELSE 0)
      BY DEF Inv, PushesPaid
    <2>3. CASE s = u /\ e = r
      <3>1. ~Known(s, e)
        <4>1. u \in queue[v]
          BY <1>2 DEF IsNext
        <4>2. result[v][u] = "none"
          BY <4>1 DEF Inv, OpenResults
        <4> QED BY <1>4, <2>3, <4>2 DEF Known
      <3>2. Known(s, e)'
        BY <1>4, <1>10, <1>14, <2>3 DEF Known
      <3>3. pushes[s][e] <= crashes + errors
        BY <2>1, <2>2, <3>1
      <3> QED BY <1>1, <1>8, <1>9, <2>1, <2>3, <3>2, <3>3
    <2>4. CASE ~(s = u /\ e = r)
      <3>1. pushes'[s][e] = pushes[s][e] /\ crashes' = crashes /\ errors' = errors
        BY <1>1, <1>9, <2>4
      <3>2. ASSUME Known(s, e) PROVE Known(s, e)'
        <4>1. CASE e \in processed
          BY <1>1, <4>1 DEF Known
        <4>2. ASSUME NEW w \in Workers, Delivers(w, e), result[w][s] # "none"
              PROVE  Known(s, e)'
          BY <1>10, <1>14, <4>2 DEF Known
        <4> QED BY <3>2, <4>1, <4>2 DEF Known
      <3>3. CASE Known(s, e)
        <4>1. Known(s, e)'
          BY <3>2, <3>3
        <4> QED BY <2>1, <2>2, <3>1, <3>3, <4>1
      <3>4. CASE ~Known(s, e)
        <4>1. pushes[s][e] <= crashes + errors
          BY <2>1, <2>2, <3>4
        <4> QED BY <2>1, <3>1, <4>1
      <3> QED BY <3>3, <3>4
    <2> QED BY <2>3, <2>4
  <1> QED BY <1>12, <1>15, <1>16, <1>17, <1>18 DEF Inv

(* The events of one outcome, appended to none, are those of its row.       *)
LEMMA FirstTopics ==
    ASSUME NEW outcome \in Outcomes
    PROVE  /\ Status(outcome) \in {"sent", "delivered", "failed"}
           /\ Status(outcome) \in {"sent", "delivered"} => outcome \in {"sent", "delivered"}
           /\ Topics(Status(outcome)) \in Seq(EventTopics)
           /\ Topics("none") = <<>>
           /\ <<>> \o Topics(Status(outcome)) = Topics(Status(outcome))
  <1>1. Status(outcome) \in {"sent", "delivered", "failed"}
        /\ (Status(outcome) \in {"sent", "delivered"} => outcome \in {"sent", "delivered"})
    BY DEF Outcomes, Status
  <1>2. Topics("none") = <<>>
    BY DEF Topics
  <1>3. Topics(Status(outcome)) \in Seq(EventTopics)
    <2>1. \A a, b \in EventTopics : <<a>> \in Seq(EventTopics) /\ <<a, b>> \in Seq(EventTopics)
      OBVIOUS
    <2>2. /\ Topics("sent") = <<"notification.sent">>
          /\ Topics("delivered") = <<"notification.sent", "notification.delivered">>
          /\ Topics("failed") = <<"notification.failed">>
      BY DEF Topics
    <2>3. CASE Status(outcome) = "sent"
      BY <2>1, <2>2, <2>3 DEF EventTopics
    <2>4. CASE Status(outcome) = "delivered"
      BY <2>1, <2>2, <2>4 DEF EventTopics
    <2>5. CASE Status(outcome) = "failed"
      BY <2>1, <2>2, <2>5 DEF EventTopics
    <2> QED BY <1>1, <2>3, <2>4, <2>5
  <1>4. \A q \in Seq(EventTopics) : <<>> \o q = q
    OBVIOUS
  <1> QED BY <1>1, <1>2, <1>3, <1>4

(* The commit turns what the transaction knows into rows, its claim among   *)
(* them.                                                                    *)
LEMMA CommitInv == ASSUME Inv, NEW v \in Workers, CommitProcess(v) PROVE Inv'
  <1>1. /\ UNCHANGED <<log, offset, allowed, pushes, queue, crashes, errors>>
        /\ pc[v] = "deliver" /\ pc' = [pc EXCEPT ![v] = "ack"]
        /\ result' = [result EXCEPT ![v] = NoResult]
        /\ active' = active \ {s \in Subs : result[v][s] = "gone"}
    BY DEF CommitProcess
  <1>2. PICK r \in Recs : r = Current(v)
    BY <1>1, InHandIsRec DEF Inv, InHand, Handling
  <1>3. Delivers(v, r) /\ r \notin processed /\ \A x \in Workers : Delivers(x, r) => x = v
    BY <1>1, <1>2 DEF Delivers, Inv, OneClaim
  <1>4. \A s \in Subs : deliveries[s][r] = "none" /\ outbox[s][r] = <<>>
    <2>1. Topics("none") = <<>>
      BY DEF Topics
    <2> QED BY <1>3, <2>1 DEF Inv, RowsBackedByPushes
  <1>5. /\ processed' = processed \cup {r}
        /\ deliveries' = [s \in Subs |->
              IF result[v][s] # "none" THEN [deliveries[s] EXCEPT ![r] = Status(result[v][s])]
              ELSE deliveries[s]]
        /\ outbox' = [s \in Subs |->
              IF result[v][s] # "none"
              THEN [outbox[s] EXCEPT ![r] = @ \o Topics(Status(result[v][s]))]
              ELSE outbox[s]]
    BY <1>2, <1>4 DEF CommitProcess, Inserted
  <1>6. ASSUME NEW s \in Subs
        PROVE  /\ deliveries'[s] \in [Recs -> {"none", "sent", "delivered", "failed"}]
               /\ outbox'[s] \in [Recs -> Seq(EventTopics)]
               /\ \A e \in Recs \ {r} : deliveries'[s][e] = deliveries[s][e]
                                        /\ outbox'[s][e] = outbox[s][e]
               /\ deliveries'[s][r] \in {"sent", "delivered"} => pushes[s][r] > 0
               /\ outbox'[s][r] = Topics(deliveries'[s][r])
    <2>1. /\ deliveries[s] \in [Recs -> {"none", "sent", "delivered", "failed"}]
          /\ outbox[s] \in [Recs -> Seq(EventTopics)]
          /\ result[v][s] \in Outcomes \cup {"none"}
      BY DEF Inv, TypeOK
    <2>2. CASE result[v][s] = "none"
      <3>1. deliveries'[s] = deliveries[s] /\ outbox'[s] = outbox[s]
        BY <1>5, <2>2
      <3>2. outbox[s][r] = Topics(deliveries[s][r])
        BY DEF Inv, RowsBackedByPushes
      <3> QED BY <1>4, <2>1, <3>1, <3>2
    <2>3. CASE result[v][s] # "none"
      <3>1. PICK outcome \in Outcomes : outcome = result[v][s]
        BY <2>1, <2>3
      <3>2. PICK status \in {"sent", "delivered", "failed"} : status = Status(outcome)
        BY FirstTopics
      <3>3. /\ deliveries'[s] = [deliveries[s] EXCEPT ![r] = status]
            /\ outbox'[s] = [outbox[s] EXCEPT ![r] = <<>> \o Topics(status)]
        BY <1>4, <1>5, <2>3, <3>1, <3>2
      <3>4. Topics(status) \in Seq(EventTopics) /\ <<>> \o Topics(status) = Topics(status)
            /\ (status \in {"sent", "delivered"} => outcome \in {"sent", "delivered"})
        BY <3>2, FirstTopics
      <3>5. outcome \in {"sent", "delivered"} => pushes[s][r] > 0
        BY <1>2, <2>3, <3>1 DEF Inv, OpenResults
      <3>6. outbox'[s] = [outbox[s] EXCEPT ![r] = Topics(status)]
        BY <3>3, <3>4
      <3> QED BY <2>1, <3>2, <3>3, <3>4, <3>5, <3>6
    <2> QED BY <2>2, <2>3
  <1>7. /\ result' \in [Workers -> [Subs -> Outcomes \cup {"none"}]]
        /\ \A s \in Subs : result'[v][s] = "none"
        /\ \A w \in Workers \ {v} : result'[w] = result[w]
    BY <1>1 DEF Inv, TypeOK, NoResult
  <1>8. TypeOK'
    <2>1. /\ deliveries' \in [Subs -> [Recs -> {"none", "sent", "delivered", "failed"}]]
          /\ outbox' \in [Subs -> [Recs -> Seq(EventTopics)]]
      BY <1>5, <1>6
    <2>2. processed' \in SUBSET Recs /\ active' \in SUBSET Subs
      BY <1>1, <1>5 DEF Inv, TypeOK
    <2> QED BY <1>1, <1>7, <2>1, <2>2 DEF Inv, TypeOK
  <1>9. \A w \in Workers : Current(w)' = Current(w)
    BY <1>1 DEF Current
  <1>10. InHand' /\ Covered'
    BY <1>1, <1>2, <1>5, <1>9 DEF Inv, TypeOK, InHand, Covered, Handling
  <1>11. \A w \in Workers, e \in Recs : Delivers(w, e)' <=> w # v /\ Delivers(w, e)
    BY <1>1, <1>9 DEF Delivers, Inv, TypeOK
  <1>12. OneClaim'
    BY <1>3, <1>5, <1>11 DEF Inv, OneClaim
  <1>13. OpenResults'
    <2>1. \A w \in Workers \ {v} : pc'[w] = pc[w]
      BY <1>1 DEF Inv, TypeOK
    <2> QED BY <1>1, <1>7, <1>9, <2>1 DEF Inv, OpenResults
  <1>14. RowsBackedByPushes'
    <2> SUFFICES ASSUME NEW s \in Subs, NEW e \in Recs
                 PROVE  /\ deliveries'[s][e] \in {"sent", "delivered"} => pushes'[s][e] > 0
                        /\ deliveries'[s][e] # "none" => e \in processed'
                        /\ outbox'[s][e] = Topics(deliveries'[s][e])
      BY DEF RowsBackedByPushes
    <2>1. CASE e = r
      BY <1>1, <1>5, <1>6, <2>1
    <2>2. CASE e # r
      BY <1>1, <1>5, <1>6, <2>2 DEF Inv, RowsBackedByPushes
    <2> QED BY <2>1, <2>2
  <1>15. ASSUME NEW s \in Subs, NEW e \in Recs, Known(s, e) PROVE Known(s, e)'
    <2>1. CASE e \in processed
      BY <1>5, <2>1 DEF Known
    <2>2. ASSUME NEW w \in Workers, Delivers(w, e), result[w][s] # "none"
          PROVE  Known(s, e)'
      <3>1. CASE w = v
        BY <1>2, <1>5, <2>2, <3>1 DEF Known, Delivers
      <3>2. CASE w # v
        BY <1>7, <1>11, <2>2, <3>2 DEF Known
      <3> QED BY <3>1, <3>2
    <2> QED BY <1>15, <2>1, <2>2 DEF Known
  <1>16. PushesPaid'
    BY <1>1, <1>15, NothingForgotten
  <1> QED BY <1>8, <1>10, <1>12, <1>13, <1>14, <1>16 DEF Inv

LEMMA AckInv == ASSUME Inv, NEW v \in Workers, Ack(v) PROVE Inv'
  <1>1. UNCHANGED <<log, processed, deliveries, active, allowed, pushes, outbox, queue, result,
                    crashes, errors>>
    BY DEF Ack
  <1>2. /\ pc[v] = "ack" /\ pc' = [pc EXCEPT ![v] = "fetch"]
        /\ offset' = [offset EXCEPT ![v] = @ + 1]
    BY DEF Ack
  <1>3. /\ offset[v] \in Nat /\ Len(log[v]) \in Nat /\ offset[v] < Len(log[v])
        /\ log[v][offset[v] + 1] \in processed \cup Bad
    BY <1>2 DEF Inv, TypeOK, InHand, Handling, Current
  <1>4. offset'[v] = offset[v] + 1 /\ offset'[v] <= Len(log[v])
    BY <1>2, <1>3 DEF Inv, TypeOK
  <1>5. \A w \in Workers \ {v} : offset'[w] = offset[w] /\ pc'[w] = pc[w]
    BY <1>2 DEF Inv, TypeOK
  <1>6. pc'[v] = "fetch" /\ pc' \in [Workers -> {"fetch", "claim", "deliver", "ack", "stopped"}]
    BY <1>2 DEF Inv, TypeOK
  <1>7. TypeOK'
    <2>1. offset' \in [Workers -> Nat]
      BY <1>2 DEF Inv, TypeOK
    <2>2. \A w \in Workers : offset'[w] <= Len(log'[w])
      BY <1>1, <1>4, <1>5 DEF Inv, TypeOK
    <2> QED BY <1>1, <1>6, <2>1, <2>2 DEF Inv, TypeOK
  <1>8. \A w \in Workers \ {v} : Current(w)' = Current(w)
    BY <1>1, <1>5 DEF Current
  <1>9. InHand'
    BY <1>1, <1>5, <1>6, <1>8 DEF Inv, InHand, Handling
  <1>10. Covered'
    <2>1. \A i \in 1..offset'[v] : i \in 1..offset[v] \/ i = offset[v] + 1
      BY <1>3, <1>4
    <2> QED BY <1>1, <1>3, <1>5, <2>1 DEF Inv, Covered
  <1>11. \A w \in Workers, e \in Recs : Delivers(w, e)' <=> Delivers(w, e)
    BY <1>2, <1>5, <1>6, <1>8 DEF Delivers
  <1>12. OneClaim'
    BY <1>1, <1>11 DEF Inv, OneClaim
  <1>13. OpenResults'
    BY <1>1, <1>2, <1>5, <1>8 DEF Inv, OpenResults
  <1>14. RowsBackedByPushes'
    BY <1>1 DEF Inv, RowsBackedByPushes
  <1>15. PushesPaid'
    BY <1>1, <1>11, NothingForgotten DEF Known
  <1> QED BY <1>7, <1>9, <1>10, <1>12, <1>13, <1>14, <1>15 DEF Inv

(* What a rolled-back transaction knew is forgotten, and the fault that     *)
(* rolled it back is counted.                                               *)
LEMMA FaultInv == ASSUME Inv, NEW v \in Workers, Error(v) \/ Crash(v) PROVE Inv'
  <1>1. PICK next \in {"fetch", "stopped"} : Rollback(v, next)
    BY DEF Error, Crash
  <1>2. /\ UNCHANGED <<log, offset, processed, deliveries, active, allowed, pushes, outbox>>
        /\ pc' = [pc EXCEPT ![v] = next]
        /\ queue' = [queue EXCEPT ![v] = {}]
        /\ result' = [result EXCEPT ![v] = NoResult]
    BY <1>1 DEF Error, Crash, Rollback
  <1>3. /\ crashes' \in 0..MaxCrashes /\ errors' \in 0..MaxErrors
        /\ crashes' + errors' = crashes + errors + 1
    <2>1. crashes \in 0..MaxCrashes /\ errors \in 0..MaxErrors
      BY DEF Inv, TypeOK
    <2>2. CASE Error(v)
      BY <2>1, <2>2, NotificationAssumption DEF Error
    <2>3. CASE Crash(v)
      BY <2>1, <2>3, NotificationAssumption DEF Crash
    <2> QED BY <2>2, <2>3
  <1>4. /\ result' \in [Workers -> [Subs -> Outcomes \cup {"none"}]]
        /\ \A s \in Subs : result'[v][s] = "none"
        /\ \A w \in Workers \ {v} : result'[w] = result[w]
    BY <1>2 DEF Inv, TypeOK, NoResult
  <1>5. /\ pc' \in [Workers -> {"fetch", "claim", "deliver", "ack", "stopped"}]
        /\ pc'[v] \notin Handling
        /\ \A w \in Workers \ {v} : pc'[w] = pc[w] /\ queue'[w] = queue[w]
    BY <1>2 DEF Inv, TypeOK, Handling
  <1>6. TypeOK'
    <2>1. queue' \in [Workers -> SUBSET Subs]
      BY <1>2 DEF Inv, TypeOK
    <2> QED BY <1>2, <1>3, <1>4, <1>5, <2>1 DEF Inv, TypeOK
  <1>7. \A w \in Workers : Current(w)' = Current(w)
    BY <1>2 DEF Current
  <1>8. InHand' /\ Covered'
    BY <1>2, <1>5, <1>7 DEF Inv, InHand, Covered, Handling
  <1>9. \A w \in Workers, e \in Recs : Delivers(w, e)' => Delivers(w, e)
    BY <1>5, <1>7 DEF Delivers, Handling
  <1>10. OneClaim'
    BY <1>2, <1>9 DEF Inv, OneClaim
  <1>11. OpenResults'
    BY <1>2, <1>4, <1>5, <1>7 DEF Inv, OpenResults
  <1>12. RowsBackedByPushes'
    BY <1>2 DEF Inv, RowsBackedByPushes
  <1>13. PushesPaid'
    <2> SUFFICES ASSUME NEW s \in Subs, NEW e \in Recs
                 PROVE  (pushes[s][e] <= crashes + errors + (IF Known(s, e) THEN 1 ELSE 0))'
      BY DEF PushesPaid
    <2>1. pushes[s][e] \in Nat /\ crashes \in Nat /\ errors \in Nat
          /\ crashes' \in Nat /\ errors' \in Nat
      BY <1>3, PushTypes DEF Inv
    <2>2. pushes[s][e] <= crashes + errors + 1
      <3>1. pushes[s][e] <= crashes + errors + (IF Known(s, e) THEN 1 ELSE 0)
        BY DEF Inv, PushesPaid
      <3> QED BY <2>1, <3>1
    <2>3. pushes'[s][e] <= crashes' + errors'
      BY <1>2, <1>3, <2>1, <2>2
    <2> QED BY <1>2, <2>1, <2>3
  <1> QED BY <1>6, <1>8, <1>10, <1>11, <1>12, <1>13 DEF Inv

LEMMA NextInv == Inv /\ [Next]_vars => Inv'
  <1> SUFFICES ASSUME Inv, [Next]_vars PROVE Inv'
    OBVIOUS
  <1>1. ASSUME NEW w \in Workers, Work(w) PROVE Inv'
    BY <1>1, FetchInv, ClaimInv, SendInv, CommitInv, AckInv DEF Work
  <1>2. ASSUME NEW w \in Workers, Error(w) \/ Crash(w) PROVE Inv'
    BY <1>2, FaultInv
  <1>3. ASSUME NEW w \in Workers, NEW e \in Recs, Produce(w, e) PROVE Inv'
    BY <1>3, ProduceInv
  <1>4. ASSUME (\E s \in Subs : Register(s) \/ Revoke(s)) \/ ChangeSettings \/ UNCHANGED vars
        PROVE  Inv'
    BY <1>4, WorldInv
  <1> QED BY <1>1, <1>2, <1>3, <1>4 DEF Next

(* The three, of the specification without its fairness.                    *)
LEMMA InvHolds == Spec => []Inv
  BY InitInv, NextInv, PTL DEF Spec

(* No valid message below a committed offset is unprocessed: CommitMessages *)
(* follows the transaction of outbox.Process, and neither a crash between   *)
(* the two, nor a rebalanced duplicate, nor the offset of an undecodable    *)
(* message moves past one (RunWithProvider).                                *)
THEOREM NoMessageSkipped == Spec => []OffsetsCovered
  <1>1. Inv => OffsetsCovered
    BY DEF Inv, OffsetsCovered, Covered
  <1> QED BY <1>1, InvHolds, PTL

(* A device is pushed to once for a recommendation, and once more for each  *)
(* crash or error at most (deliver pushes from inside the transaction that  *)
(* claims the event).                                                       *)
THEOREM RepeatedPushesArePaidFor == Spec => []RepeatsNeedFaults
  <1>1. Inv => RepeatsNeedFaults
    <2> SUFFICES ASSUME Inv, NEW s \in Subs, NEW e \in Recs
                 PROVE  pushes[s][e] <= 1 + crashes + errors
      BY DEF RepeatsNeedFaults
    <2>1. pushes[s][e] \in Nat /\ crashes \in Nat /\ errors \in Nat
      BY PushTypes DEF Inv
    <2>2. pushes[s][e] <= crashes + errors + (IF Known(s, e) THEN 1 ELSE 0)
      BY DEF Inv, PushesPaid
    <2> QED BY <2>1, <2>2
  <1> QED BY <1>1, InvHolds, PTL

(* The delivery rows, their notification events and the claim are committed *)
(* together, and a row of a successful push has its push (outbox.Process,   *)
(* deliver).                                                                *)
THEOREM RowsTellOfPushes == Spec => []RowsBackedByPushes
  <1>1. Inv => RowsBackedByPushes
    BY DEF Inv
  <1> QED BY <1>1, InvHolds, PTL
=============================================================================
