--------------------- MODULE ConnectionInterfaceProofs ---------------------
(***************************************************************************)
(* Proofs about the server, its threads and the contracts, for any number  *)
(* of users, cars and accounts.                                            *)
(*                                                                         *)
(* The argument.  For every server: a thread never reads more than its     *)
(* user has written, every call in the pool or in the chain stems from a   *)
(* message of its user and is addressed to the contract at the index of    *)
(* the car (CallsOK), and calls of one user and one kind are pending and   *)
(* mined in the order of the messages (OrderOK).                           *)
(*                                                                         *)
(* Threads die only early: a list that has an entry for every number up to *)
(* n is longer than n, by counting (Pigeonhole).  What a thread misses is  *)
(* bounded: if recv returns all that has arrived, every chunk is full or   *)
(* ends with a message, so that one of any Reach messages is understood    *)
(* (LossOK).  And if the scripts wait until their calls are mined, a call  *)
(* is pending only while its thread waits for it (Awaited), so that an     *)
(* announcement is mined before its end is submitted, and the contract     *)
(* has recorded it (Recorded).                                             *)
(***************************************************************************)
EXTENDS ConnectionInterface, RideLogProofs, FiniteSetTheorems

LEMMA Constants ==
    /\ Users \subseteq Nat /\ Cars \subseteq Nat
    /\ Cardinality(Users) \in Nat /\ Cardinality(Cars) \in Nat
    /\ Users = 0 .. Cardinality(Users) - 1 /\ Cars = 0 .. Cardinality(Cars) - 1
    /\ NbAccounts \in Nat \ {0} /\ MaxChunk \in Nat \ {0, 1}
<1>1. Cardinality(Users) \in Nat /\ Cardinality(Cars) \in Nat
  BY ServerConstants, FS_CardinalityType
<1> QED BY <1>1, ServerConstants

LEMMA SubSeqFacts ==
    ASSUME NEW S, NEW s \in Seq(S), NEW m \in Nat, NEW n \in Nat, m <= n, n <= Len(s)
    PROVE  /\ SubSeq(s, m + 1, n) \in Seq(S)
           /\ Len(SubSeq(s, m + 1, n)) = n - m
           /\ \A i \in 1 .. n - m : SubSeq(s, m + 1, n)[i] = s[m + i]
OBVIOUS

\* What is left when geth takes a call out of the pool.
Without(s, i) == SubSeq(s, 1, i - 1) \o SubSeq(s, i + 1, Len(s))

LEMMA WithoutFacts ==
    ASSUME NEW S, NEW s \in Seq(S), NEW i \in 1 .. Len(s)
    PROVE  /\ Without(s, i) \in Seq(S) /\ Len(Without(s, i)) = Len(s) - 1
           /\ \A j \in 1 .. Len(s) - 1 :
                Without(s, i)[j] = IF j < i THEN s[j] ELSE s[j + 1]
<1> DEFINE a == SubSeq(s, 1, i - 1)
           b == SubSeq(s, i + 1, Len(s))
<1>1. Len(s) \in Nat /\ i \in Nat /\ i - 1 \in Nat /\ i <= Len(s) /\ 0 + 1 = 1
  OBVIOUS
<1>2. a \in Seq(S) /\ Len(a) = i - 1 /\ \A j \in 1 .. i - 1 : a[j] = s[j]
  <2>1. a = SubSeq(s, 0 + 1, i - 1)
    BY <1>1
  <2>2. 0 <= i - 1 /\ i - 1 <= Len(s) /\ 0 \in Nat
    BY <1>1
  <2> HIDE DEF a
  <2> QED BY <1>1, <2>1, <2>2, SubSeqFacts
<1>3. b \in Seq(S) /\ Len(b) = Len(s) - i /\ \A j \in 1 .. Len(s) - i : b[j] = s[i + j]
  BY <1>1, SubSeqFacts
<1> HIDE DEF a, b
<1>4. a \o b \in Seq(S) /\ Len(a \o b) = Len(s) - 1
      /\ \A j \in 1 .. Len(s) - 1 : (a \o b)[j] = IF j < i THEN a[j] ELSE b[j - i + 1]
  BY <1>1, <1>2, <1>3
<1>5. ASSUME NEW j \in 1 .. Len(s) - 1
      PROVE  (a \o b)[j] = IF j < i THEN s[j] ELSE s[j + 1]
  <2>1. CASE j < i
    BY <1>1, <1>2, <1>4, <2>1
  <2>2. CASE ~(j < i)
    <3>1. j - i + 1 \in 1 .. Len(s) - i /\ i + (j - i + 1) = j + 1
      BY <1>1, <2>2
    <3> QED BY <1>3, <1>4, <2>2, <3>1
  <2> QED BY <2>1, <2>2
<1>6. Without(s, i) = a \o b
  BY DEF Without, a, b
<1> QED BY <1>4, <1>5, <1>6

-----------------------------------------------------------------------------
(* The contract. *)

Entries == [idPassenger : Users, idCar : Cars]
Storage ==
    [idsTransaction : Seq(Nat), transactions : UNION {[T -> Entries] : T \in SUBSET Nat},
     ended : SUBSET Nat]

LEMMA AddTransactionInfoFacts ==
    ASSUME NEW k \in Storage, NEW t \in Nat, NEW u \in Users, NEW c \in Cars
    PROVE  LET n == AC!AddTransactionInfo(k, t, u, c) IN
           /\ n \in Storage
           /\ n.idsTransaction = Append(k.idsTransaction, t) /\ n.ended = k.ended
           /\ DOMAIN n.transactions = DOMAIN k.transactions \cup {t}
           /\ n.transactions[t] = [idPassenger |-> u, idCar |-> c]
           /\ \A s \in DOMAIN k.transactions \ {t} : n.transactions[s] = k.transactions[s]
<1> DEFINE f == [s \in DOMAIN k.transactions \cup {t} |->
                    IF s = t THEN [idPassenger |-> u, idCar |-> c] ELSE k.transactions[s]]
           ids == Append(k.idsTransaction, t)
           n == AC!AddTransactionInfo(k, t, u, c)
<1>1. PICK T \in SUBSET Nat : k.transactions \in [T -> Entries]
  BY DEF Storage
<1>2. f \in [T \cup {t} -> Entries] /\ T \cup {t} \in SUBSET Nat
  BY <1>1 DEF Entries
<1>3. f \in UNION {[R -> Entries] : R \in SUBSET Nat}
  BY <1>2
<1>4. ids \in Seq(Nat)
  BY DEF Storage
<1>5. n = [k EXCEPT !.idsTransaction = ids, !.transactions = f]
  BY DEF AC!AddTransactionInfo, Storage
<1> HIDE DEF f, ids, n
<1>6. n \in Storage /\ n.idsTransaction = ids /\ n.transactions = f /\ n.ended = k.ended
  BY <1>3, <1>4, <1>5 DEF Storage
<1> QED BY <1>6 DEF f, ids, n

LEMMA AddEndHourFacts ==
    ASSUME NEW k \in Storage, NEW t \in Nat
    PROVE  LET n == AC!AddEndHour(k, t) IN
           /\ n \in Storage /\ n.idsTransaction = k.idsTransaction
           /\ n.transactions = k.transactions
           /\ n.ended \subseteq k.ended \cup {t} /\ k.ended \subseteq n.ended
           /\ (\E i \in 1 .. Len(k.idsTransaction) : k.idsTransaction[i] = t) => t \in n.ended
<1> DEFINE n == AC!AddEndHour(k, t)
           m == [k EXCEPT !.ended = k.ended \cup {t}]
<1>1. /\ m \in Storage /\ m.idsTransaction = k.idsTransaction /\ m.transactions = k.transactions
      /\ m.ended = k.ended \cup {t}
  BY DEF Storage
<1>2. k.idsTransaction \in Seq(Nat)
  BY DEF Storage
<1>3. AC!ValidTransaction(k, t) <=>
        \E i \in 1 .. Len(k.idsTransaction) : k.idsTransaction[i] = t
  BY <1>2 DEF AC!ValidTransaction
<1>4. n = IF AC!ValidTransaction(k, t) THEN m ELSE k
  BY DEF AC!AddEndHour
<1> HIDE DEF n, m
<1> QED BY <1>1, <1>3, <1>4 DEF n

-----------------------------------------------------------------------------
(* Types. *)

CallType ==
    [user : Users, number : Nat, msg : Messages, account : Nat, address : Cars]

ServerTypes ==
    /\ TypeOK
    /\ read \in [Users -> Nat] /\ \A u \in Users : read[u] <= Written(u)
    /\ pc \in [Users -> {"recv", "query", "dead"}]
    /\ handled \in [Users -> Seq(Nat)]
    /\ dockerEnvUserList \in Seq(Users) /\ dockerEnvCarList \in Seq(Cars)
    /\ carPc \in [Cars -> {"recv", "deploy", "idle", "dead"}]
    /\ pool \in Seq(CallType) /\ chain \in Seq(CallType)
    /\ contract \in [Cars -> Storage]

\* Nothing is taken back: the logs, what has been read, and the lists grow.
Grows ==
    /\ \A u \in Users :
        /\ Len(log[u]) <= Len(log'[u]) /\ read[u] <= read'[u]
        /\ \A i \in 1 .. Len(log[u]) : log'[u][i] = log[u][i]
    /\ Len(dockerEnvCarList) <= Len(dockerEnvCarList')
    /\ \A i \in 1 .. Len(dockerEnvCarList) : dockerEnvCarList'[i] = dockerEnvCarList[i]
    /\ Len(dockerEnvUserList) <= Len(dockerEnvUserList')

LEMMA GrowsSame ==
    ASSUME ServerTypes, log' = log, dockerEnvCarList' = dockerEnvCarList,
           dockerEnvUserList' = dockerEnvUserList, \A u \in Users : read[u] <= read'[u]
    PROVE  Grows
<1>1. \A u \in Users : Len(log[u]) \in Nat
  BY DEF ServerTypes, TypeOK
<1>2. Len(dockerEnvCarList) \in Nat /\ Len(dockerEnvUserList) \in Nat
  BY DEF ServerTypes
<1> QED BY <1>1, <1>2 DEF Grows

LEMMA ReadStays ==
    ASSUME ServerTypes, read' = read PROVE \A u \in Users : read[u] <= read'[u]
BY DEF ServerTypes

\* recv returns what has arrived, and dataProcessing finds a message in it.
LEMMA ChunkFacts ==
    ASSUME ServerTypes, NEW u \in Users, NEW n \in Chunks(u)
    PROVE  /\ n \in Nat \ {0} /\ read[u] + n <= Written(u) /\ n <= MaxChunk
           /\ Written(u) = 2 * (Len(log[u]) + 1) /\ Len(log[u]) \in Nat
           /\ read[u] \in Nat
           /\ FirstWhole(u) \in Nat /\ read[u] <= 2 * FirstWhole(u)
           /\ 2 * FirstWhole(u) <= read[u] + 1
           /\ HasWords(u, n) => FirstWhole(u) <= Len(log[u])
           /\ ~ShortReads => n = MaxChunk \/ read[u] + n = Written(u)
<1>1. read[u] \in Nat /\ Len(log[u]) \in Nat /\ Written(u) = 2 * (Len(log[u]) + 1)
      /\ read[u] <= Written(u)
  BY DEF ServerTypes, TypeOK, Written
<1>2. MaxChunk \in Nat
  BY Constants
<1>3. FirstWhole(u) = (read[u] + 1) \div 2
  BY DEF FirstWhole
<1>4. \A r \in Nat : (r + 1) \div 2 \in Nat /\ r <= 2 * ((r + 1) \div 2)
                     /\ 2 * ((r + 1) \div 2) <= r + 1
  OBVIOUS
<1>5. FirstWhole(u) \in Nat /\ read[u] <= 2 * FirstWhole(u) /\ 2 * FirstWhole(u) <= read[u] + 1
  BY <1>1, <1>3, <1>4
<1> DEFINE arrived == Written(u) - read[u]
           most == IF arrived < MaxChunk THEN arrived ELSE MaxChunk
<1>6. n \in 1 .. most /\ (ShortReads \/ n = most)
  BY DEF Chunks
<1>7. n \in Nat \ {0} /\ read[u] + n <= Written(u) /\ n <= MaxChunk
      /\ (~ShortReads => n = MaxChunk \/ read[u] + n = Written(u))
  <2>1. arrived \in Nat
    BY <1>1
  <2>2. most \in Nat /\ most <= arrived /\ most <= MaxChunk /\ (most = MaxChunk \/ most = arrived)
    BY <1>2, <2>1
  <2> HIDE DEF most
  <2> QED BY <1>1, <1>2, <1>6, <2>1, <2>2
<1>8. HasWords(u, n) => FirstWhole(u) <= Len(log[u])
  BY <1>1, <1>5, <1>7 DEF HasWords
<1> QED BY <1>1, <1>5, <1>7, <1>8

LEMMA RecvFacts ==
    ASSUME ServerTypes, NEW u \in Users, Recv(u)
    PROVE  /\ read' \in [Users -> Nat] /\ handled' \in [Users -> Seq(Nat)]
           /\ \A v \in Users : read[v] <= read'[v] /\ read'[v] <= Written(v)
           /\ \A v \in Users \ {u} : read'[v] = read[v] /\ handled'[v] = handled[v]
           /\ handled'[u] = Append(handled[u], FirstWhole(u))
           /\ FirstWhole(u) \in 0 .. Len(log[u])
           /\ read[u] <= 2 * FirstWhole(u) /\ 2 * FirstWhole(u) + 2 <= read'[u]
           /\ read'[u] <= read[u] + MaxChunk
           /\ ~ShortReads => read'[u] = read[u] + MaxChunk \/ read'[u] = Written(u)
<1>1. PICK n \in Chunks(u) : HasWords(u, n) /\ read' = [read EXCEPT ![u] = @ + n]
  BY DEF Recv
<1>2. handled' = [handled EXCEPT ![u] = Append(handled[u], FirstWhole(u))]
  BY DEF Recv, ServerTypes
<1>3. /\ n \in Nat \ {0} /\ read[u] + n <= Written(u) /\ read[u] \in Nat
      /\ Len(log[u]) \in Nat /\ FirstWhole(u) \in Nat /\ read[u] <= 2 * FirstWhole(u)
      /\ FirstWhole(u) <= Len(log[u]) /\ Written(u) = 2 * (Len(log[u]) + 1)
      /\ (~ShortReads => n = MaxChunk \/ read[u] + n = Written(u))
      /\ n <= MaxChunk
  BY <1>1, ChunkFacts
<1>4. read'[u] = read[u] + n /\ \A v \in Users \ {u} : read'[v] = read[v]
  BY <1>1 DEF ServerTypes
<1>5. read' \in [Users -> Nat]
  BY <1>1, <1>3 DEF ServerTypes
<1>6. /\ handled' \in [Users -> Seq(Nat)] /\ handled'[u] = Append(handled[u], FirstWhole(u))
      /\ \A v \in Users \ {u} : handled'[v] = handled[v]
  BY <1>2, <1>3 DEF ServerTypes
<1>7. \A v \in Users : read[v] <= read'[v] /\ read'[v] <= Written(v)
  <2>1. \A v \in Users : read[v] \in Nat /\ read[v] <= Written(v)
    BY DEF ServerTypes
  <2> QED BY <1>3, <1>4, <2>1
<1>8. 2 * FirstWhole(u) + 2 <= read'[u]
  BY <1>1, <1>4 DEF HasWords
<1>9. /\ read'[u] <= read[u] + MaxChunk
      /\ ~ShortReads => read'[u] = read[u] + MaxChunk \/ read'[u] = Written(u)
  BY <1>3, <1>4, Constants
<1>10. FirstWhole(u) \in 0 .. Len(log[u])
  BY <1>3
<1> QED BY <1>3, <1>4, <1>5, <1>6, <1>7, <1>8, <1>9, <1>10

\* The message that a thread has understood.
LEMMA MessageFacts ==
    ASSUME ServerTypes, NEW u \in Users, Recv(u), FirstWhole(u) > 0
    PROVE  /\ FirstWhole(u) \in 1 .. Len(log[u]) /\ log[u][FirstWhole(u)] \in Messages
           /\ InRange(u, log[u][FirstWhole(u)]) =>
                LET c == log[u][FirstWhole(u)].car IN
                /\ c \in Cars /\ c + 1 \in 1 .. Len(dockerEnvCarList)
                /\ ContractAddress(c) \in Cars
<1> DEFINE m == log[u][FirstWhole(u)]
<1>1. FirstWhole(u) \in 0 .. Len(log[u]) /\ log[u] \in Seq(Messages)
  BY RecvFacts DEF ServerTypes, TypeOK
<1>2. FirstWhole(u) \in 1 .. Len(log[u])
  BY <1>1
<1>3. m \in Messages
  BY <1>1, <1>2
<1> HIDE DEF m
<1>4. ASSUME InRange(u, m)
      PROVE  m.car \in Cars /\ m.car + 1 \in 1 .. Len(dockerEnvCarList) /\ ContractAddress(m.car) \in Cars
  <2>1. m.car \in Cars /\ m.car \in Nat /\ m.car < Len(dockerEnvCarList)
    BY <1>3, <1>4, Constants DEF Messages, InRange
  <2>2. dockerEnvCarList \in Seq(Cars) /\ Len(dockerEnvCarList) \in Nat
    BY DEF ServerTypes
  <2>3. m.car + 1 \in 1 .. Len(dockerEnvCarList)
    BY <2>1, <2>2
  <2> QED BY <2>1, <2>2, <2>3 DEF ContractAddress
<1> QED BY <1>2, <1>3, <1>4 DEF m

\* The call that a thread submits.
Call(u) ==
    LET m == log[u][FirstWhole(u)]
    IN  [user |-> u, number |-> FirstWhole(u), msg |-> m, account |-> Account(u, m),
         address |-> ContractAddress(m.car)]

LEMMA ExecQueryFacts ==
    ASSUME ServerTypes, NEW u \in Users, ExecQuery(u)
    PROVE  LET x == Call(u) IN
           /\ Recv(u) /\ x \in CallType /\ x.user = u /\ x.number = FirstWhole(u)
           /\ x.number \in 1 .. Len(log[u]) /\ x.msg = log[u][x.number]
           /\ x.account = Account(u, x.msg)
           /\ x.msg.car + 1 \in 1 .. Len(dockerEnvCarList)
           /\ x.address = dockerEnvCarList[x.msg.car + 1]
           /\ pool' = Append(pool, x) /\ pc' = [pc EXCEPT ![u] = "query"]
           /\ UNCHANGED <<log, dockerEnvUserList, carPc, dockerEnvCarList, chain, contract>>
<1> DEFINE m == log[u][FirstWhole(u)]
           x == Call(u)
<1>1. Recv(u) /\ FirstWhole(u) > 0 /\ InRange(u, m)
  BY DEF ExecQuery
<1>2. /\ FirstWhole(u) \in 1 .. Len(log[u]) /\ FirstWhole(u) \in Nat /\ m \in Messages
      /\ m.car + 1 \in 1 .. Len(dockerEnvCarList) /\ ContractAddress(m.car) \in Cars
  BY <1>1, MessageFacts
<1>3. Account(u, m) \in Nat
  <2>1. u \in Nat /\ NbAccounts \in Nat \ {0}
    BY Constants
  <2>2. u % NbAccounts \in Nat
    BY <2>1
  <2> QED BY <2>2 DEF Account
<1>4. pool' = Append(pool, x) /\ pc' = [pc EXCEPT ![u] = "query"]
      /\ UNCHANGED <<log, dockerEnvUserList, carPc, dockerEnvCarList, chain, contract>>
  BY DEF ExecQuery, Call
<1> HIDE DEF m
<1>5. x = [user |-> u, number |-> FirstWhole(u), msg |-> m, account |-> Account(u, m),
           address |-> ContractAddress(m.car)]
  BY DEF Call, m
<1> HIDE DEF x
<1>6. x \in CallType
  BY <1>2, <1>3, <1>5 DEF CallType
<1>7. /\ x.user = u /\ x.number = FirstWhole(u) /\ x.msg = m /\ x.account = Account(u, m)
      /\ x.address = ContractAddress(m.car)
  BY <1>5
<1> QED BY <1>1, <1>2, <1>4, <1>6, <1>7 DEF x, m, ContractAddress

\* The storage that a mined call leaves behind.
LEMMA ExecutedFacts ==
    ASSUME ServerTypes, NEW x \in CallType
    PROVE  LET k == contract[x.address]
               n == Executed(x)[x.address]
           IN  /\ k \in Storage /\ n \in Storage /\ Executed(x) \in [Cars -> Storage]
               /\ \A c \in Cars \ {x.address} : Executed(x)[c] = contract[c]
               /\ x.msg.kind = "Transaction" =>
                    n = AC!AddTransactionInfo(k, x.msg.trans, x.user, x.msg.car)
               /\ x.msg.kind # "Transaction" => n = AC!AddEndHour(k, x.msg.trans)
<1> DEFINE k == contract[x.address]
           a == AC!AddTransactionInfo(k, x.msg.trans, x.user, x.msg.car)
           e == AC!AddEndHour(k, x.msg.trans)
<1>1. x.address \in Cars /\ x.user \in Users /\ x.msg.trans \in Nat /\ x.msg.car \in Cars
  BY DEF CallType, Messages
<1>2. k \in Storage
  BY <1>1 DEF ServerTypes
<1> HIDE DEF k
<1>3. a \in Storage /\ e \in Storage
  BY <1>1, <1>2, AddTransactionInfoFacts, AddEndHourFacts
<1>4. Executed(x) = [contract EXCEPT ![x.address] = IF x.msg.kind = "Transaction" THEN a ELSE e]
  BY DEF Executed, k
<1> HIDE DEF a, e
<1>5. /\ Executed(x) \in [Cars -> Storage]
      /\ Executed(x)[x.address] = IF x.msg.kind = "Transaction" THEN a ELSE e
      /\ \A c \in Cars \ {x.address} : Executed(x)[c] = contract[c]
  BY <1>1, <1>3, <1>4 DEF ServerTypes
<1> QED BY <1>1, <1>2, <1>5 DEF a, e, k

LEMMA MineFacts ==
    ASSUME ServerTypes, Mine
    PROVE  \E i \in 1 .. Len(pool) :
            /\ Minable(i) /\ pool[i] \in CallType
            /\ pool' = Without(pool, i) /\ pool' \in Seq(CallType)
            /\ Len(pool') = Len(pool) - 1
            /\ \A j \in 1 .. Len(pool') : pool'[j] = IF j < i THEN pool[j] ELSE pool[j + 1]
            /\ chain' = Append(chain, pool[i]) /\ chain' \in Seq(CallType)
            /\ contract' = Executed(pool[i])
            /\ pc' = [u \in Users |-> IF Waits(u, pool[i]) THEN "recv" ELSE pc[u]]
            /\ UNCHANGED <<log, read, handled, dockerEnvUserList, carPc, dockerEnvCarList>>
<1>1. pool \in Seq(CallType) /\ chain \in Seq(CallType) /\ DOMAIN pool = 1 .. Len(pool)
  BY DEF ServerTypes
<1>2. PICK i \in 1 .. Len(pool) :
            /\ Minable(i)
            /\ pool' = Without(pool, i)
            /\ chain' = Append(chain, pool[i])
            /\ contract' = Executed(pool[i])
            /\ pc' = [u \in Users |-> IF Waits(u, pool[i]) THEN "recv" ELSE pc[u]]
  BY <1>1 DEF Mine, Without
<1>3. pool[i] \in CallType
  BY <1>1
<1>4. /\ pool' \in Seq(CallType) /\ Len(pool') = Len(pool) - 1
      /\ \A j \in 1 .. Len(pool) - 1 : pool'[j] = IF j < i THEN pool[j] ELSE pool[j + 1]
  BY <1>1, <1>2, WithoutFacts
<1>5. chain' \in Seq(CallType)
  BY <1>1, <1>2, <1>3
<1>6. UNCHANGED <<log, read, handled, dockerEnvUserList, carPc, dockerEnvCarList>>
  BY DEF Mine
<1> QED BY <1>2, <1>3, <1>4, <1>5, <1>6

\* A step of RideLog.
LEMMA UserSendsFacts ==
    ASSUME ServerTypes, NEW u \in Users, UserSends(u)
    PROVE  /\ MaySend(u) /\ UNCHANGED <<serverVars, ledgerVars>>
           /\ Step(Nat)
           /\ \E m \in Messages : Appends(u, m)
<1>1. End(u) \/ \E t \in Nat, c \in Cars : Announce(u, t, c)
  <2>1. 0 .. Ids - 1 \subseteq Nat
    BY ServerConstants
  <2> QED BY <2>1 DEF UserSends
<1>2. Step(Nat)
  BY <1>1 DEF Step
<1>3. CASE End(u)
  <2>1. Latest(u) \in Messages
    BY <1>3 DEF End, Open, Latest, TypeOK, ServerTypes
  <2>2. AddEndHour(Latest(u).trans, Latest(u).car) \in Messages
    BY <2>1 DEF AddEndHour, Messages
  <2>3. Appends(u, AddEndHour(Latest(u).trans, Latest(u).car))
    BY <1>3, <2>2 DEF End, Appends, AddEndHour
  <2> QED BY <1>2, <2>2, <2>3 DEF UserSends
<1>4. CASE \E t \in Nat, c \in Cars : Announce(u, t, c)
  <2>1. PICK t \in Nat, c \in Cars : Announce(u, t, c)
    BY <1>4
  <2>2. Transaction(t, c) \in Messages
    BY DEF Transaction, Messages
  <2>3. Appends(u, Transaction(t, c))
    BY <2>1, <2>2 DEF Announce, Appends, Transaction
  <2> QED BY <1>2, <2>2, <2>3 DEF UserSends
<1> QED BY <1>1, <1>3, <1>4

LEMMA TypesStep ==
    ASSUME ServerTypes, [ServerNext]_allVars
    PROVE  ServerTypes' /\ Grows
<1>1. ASSUME log' = log, read' = read, pc' = pc, handled' = handled, pool' = pool,
             chain' = chain, contract' = contract, dockerEnvUserList' = dockerEnvUserList,
             carPc' \in [Cars -> {"recv", "deploy", "idle", "dead"}],
             dockerEnvCarList' = dockerEnvCarList
      PROVE  ServerTypes' /\ Grows
  <2>1. Grows
    BY <1>1, GrowsSame, ReadStays
  <2> QED BY <1>1, <2>1 DEF ServerTypes, TypeOK, Written
\* A thread has understood a message.
<1>2. ASSUME NEW u \in Users, Recv(u), log' = log, carPc' = carPc,
             dockerEnvCarList' = dockerEnvCarList, chain' = chain, contract' = contract,
             dockerEnvUserList' \in Seq(Users),
             Len(dockerEnvUserList) <= Len(dockerEnvUserList'),
             pool' \in Seq(CallType), pc' \in [Users -> {"recv", "query", "dead"}]
      PROVE  ServerTypes' /\ Grows
  <2>1. /\ read' \in [Users -> Nat] /\ handled' \in [Users -> Seq(Nat)]
        /\ \A v \in Users : read[v] <= read'[v] /\ read'[v] <= Written(v)
    BY <1>2, RecvFacts
  <2>2. \A v \in Users : Written(v)' = Written(v)
    BY <1>2 DEF Written
  <2>3. ServerTypes'
    BY <1>2, <2>1, <2>2 DEF ServerTypes, TypeOK
  <2>4. (\A v \in Users : Len(log[v]) \in Nat) /\ Len(dockerEnvCarList) \in Nat
    BY DEF ServerTypes, TypeOK
  <2> QED BY <1>2, <2>1, <2>3, <2>4 DEF Grows
<1>3. ASSUME NEW c \in Cars, CarThread(c) PROVE ServerTypes' /\ Grows
  <2>1. carPc' \in [Cars -> {"recv", "deploy", "idle", "dead"}]
    BY <1>3 DEF CarThread, CarCreation, CarCreationTorn, CreateEnvCar, CreateEnvCarFails, ServerTypes
  <2>2. CASE CreateEnvCar(c)
    <3>1. dockerEnvCarList' = Append(dockerEnvCarList, c)
          /\ UNCHANGED <<log, read, pc, handled, dockerEnvUserList, ledgerVars>>
      BY <2>2 DEF CreateEnvCar
    <3>2. /\ dockerEnvCarList' \in Seq(Cars)
          /\ Len(dockerEnvCarList) <= Len(dockerEnvCarList')
          /\ \A i \in 1 .. Len(dockerEnvCarList) : dockerEnvCarList'[i] = dockerEnvCarList[i]
      BY <3>1 DEF ServerTypes
    <3>3. ServerTypes'
      BY <2>1, <3>1, <3>2 DEF ServerTypes, TypeOK, Written, ledgerVars
    <3>4. (\A v \in Users : Len(log[v]) \in Nat /\ read[v] \in Nat) /\ Len(dockerEnvUserList) \in Nat
      BY DEF ServerTypes, TypeOK
    <3> QED BY <3>1, <3>2, <3>3, <3>4 DEF Grows
  <2>3. CASE ~CreateEnvCar(c)
    BY <1>1, <1>3, <2>1, <2>3
       DEF CarThread, CarCreation, CarCreationTorn, CreateEnvCarFails, ledgerVars
  <2> QED BY <2>2, <2>3
<1>4. ASSUME NEW u \in Users, UserSends(u) PROVE ServerTypes' /\ Grows
  <2>1. PICK m \in Messages : Appends(u, m)
    BY <1>4, UserSendsFacts
  <2>2. UNCHANGED <<serverVars, ledgerVars>>
    BY <1>4 DEF UserSends
  <2>3. /\ TypeOK'
        /\ \A v \in Users \ {u} : log'[v] = log[v]
        /\ Len(log[u]) \in Nat
        /\ Len(log'[u]) = Len(log[u]) + 1
        /\ \A i \in 1 .. Len(log[u]) : log'[u][i] = log[u][i]
    BY <2>1, AppendsFacts DEF ServerTypes
  <2>4. \A v \in Users : Len(log[v]) \in Nat /\ read[v] \in Nat /\ read[v] <= Written(v)
    BY DEF ServerTypes, TypeOK
  <2>5. \A v \in Users : Len(log[v]) <= Len(log'[v])
                         /\ \A i \in 1 .. Len(log[v]) : log'[v][i] = log[v][i]
    BY <2>3, <2>4
  <2>6. \A v \in Users : Len(log'[v]) \in Nat
    BY <2>3 DEF TypeOK
  <2>7. \A v \in Users : read[v] <= Written(v)'
    BY <2>4, <2>5, <2>6 DEF Written
  <2>8. ServerTypes'
    BY <2>2, <2>3, <2>7 DEF ServerTypes, serverVars, ledgerVars
  <2>9. Len(dockerEnvCarList) \in Nat /\ Len(dockerEnvUserList) \in Nat
    BY DEF ServerTypes
  <2> QED BY <2>2, <2>4, <2>5, <2>8, <2>9 DEF Grows, serverVars
<1>5. ASSUME NEW u \in Users, RecvNothing(u) PROVE ServerTypes' /\ Grows
  <2>1. PICK n \in Chunks(u) : read' = [read EXCEPT ![u] = @ + n]
    BY <1>5 DEF RecvNothing
  <2>2. n \in Nat /\ read[u] + n <= Written(u) /\ read[u] \in Nat
    BY ChunkFacts
  <2>3. UNCHANGED <<log, pc, handled, dockerEnvUserList, carPc, dockerEnvCarList, ledgerVars>>
    BY <1>5 DEF RecvNothing
  <2>4. read' \in [Users -> Nat] /\ read'[u] = read[u] + n /\ \A v \in Users \ {u} : read'[v] = read[v]
    BY <2>1, <2>2 DEF ServerTypes
  <2>5. \A v \in Users : read[v] \in Nat /\ read[v] <= Written(v) /\ Written(v)' = Written(v)
    BY <2>3 DEF ServerTypes, Written
  <2>6. \A v \in Users : read[v] <= read'[v] /\ read'[v] <= Written(v)'
    BY <2>2, <2>4, <2>5
  <2>7. ServerTypes'
    BY <2>3, <2>4, <2>6 DEF ServerTypes, TypeOK, ledgerVars
  <2> QED BY <2>3, <2>6, <2>7, GrowsSame
<1>6. ASSUME NEW u \in Users, CreateEnvUser(u) PROVE ServerTypes' /\ Grows
  <2>1. dockerEnvUserList' \in Seq(Users) /\ Len(dockerEnvUserList) <= Len(dockerEnvUserList')
    BY <1>6 DEF CreateEnvUser, ServerTypes
  <2> QED BY <1>2, <1>6, <2>1 DEF CreateEnvUser, ServerTypes, ledgerVars
<1>7. dockerEnvUserList \in Seq(Users) /\ Len(dockerEnvUserList) <= Len(dockerEnvUserList)
      /\ pool \in Seq(CallType) /\ pc \in [Users -> {"recv", "query", "dead"}]
  BY DEF ServerTypes
<1>8. ASSUME NEW u \in Users, ExecQuery(u) PROVE ServerTypes' /\ Grows
  <2>1. /\ Recv(u) /\ Call(u) \in CallType /\ pool' = Append(pool, Call(u))
        /\ pc' = [pc EXCEPT ![u] = "query"]
        /\ UNCHANGED <<log, dockerEnvUserList, carPc, dockerEnvCarList, chain, contract>>
    BY <1>8, ExecQueryFacts
  <2>2. pool' \in Seq(CallType) /\ pc' \in [Users -> {"recv", "query", "dead"}]
    BY <1>7, <2>1
  <2> QED BY <1>2, <1>7, <2>1, <2>2
<1>9. ASSUME NEW u \in Users, ExecQueryFails(u) PROVE ServerTypes' /\ Grows
  BY <1>2, <1>7, <1>9 DEF ExecQueryFails, ledgerVars
<1>10. ASSUME NEW u \in Users, QueryTimesOut(u) PROVE ServerTypes' /\ Grows
  <2>1. pc' \in [Users -> {"recv", "query", "dead"}]
    BY <1>7, <1>10 DEF QueryTimesOut
  <2>2. UNCHANGED <<log, read, handled, dockerEnvUserList, carPc, dockerEnvCarList, ledgerVars>>
    BY <1>10 DEF QueryTimesOut
  <2>3. Grows
    BY <2>2, GrowsSame, ReadStays
  <2> QED BY <2>1, <2>2, <2>3 DEF ServerTypes, TypeOK, Written, ledgerVars
<1>11. ASSUME NEW u \in Users, ThreadDies(u) PROVE ServerTypes' /\ Grows
  <2>1. pc' \in [Users -> {"recv", "query", "dead"}]
    BY <1>7, <1>11 DEF ThreadDies
  <2> QED BY <1>2, <1>7, <1>11, <2>1 DEF ThreadDies, ledgerVars
<1>12. CASE Mine
  <2>1. PICK i \in 1 .. Len(pool) :
            /\ pool[i] \in CallType
            /\ pool' \in Seq(CallType) /\ chain' \in Seq(CallType)
            /\ contract' = Executed(pool[i])
            /\ pc' = [u \in Users |-> IF Waits(u, pool[i]) THEN "recv" ELSE pc[u]]
            /\ UNCHANGED <<log, read, handled, dockerEnvUserList, carPc, dockerEnvCarList>>
    BY <1>12, MineFacts
  <2>2. contract' \in [Cars -> Storage]
    BY <2>1, ExecutedFacts
  <2>3. pc' \in [Users -> {"recv", "query", "dead"}]
    BY <1>7, <2>1
  <2>4. Grows
    BY <2>1, GrowsSame, ReadStays
  <2> QED BY <2>1, <2>2, <2>3, <2>4 DEF ServerTypes, TypeOK, Written
<1>13. CASE UNCHANGED allVars
  BY <1>1, <1>7, <1>13 DEF allVars, serverVars, ledgerVars, ServerTypes
<1> QED BY <1>3, <1>4, <1>5, <1>6, <1>8, <1>9, <1>10, <1>11, <1>12, <1>13
        DEF ServerNext, UserThread

-----------------------------------------------------------------------------
(* Calls. *)

\* A call is a message of its user that the server has read, sent from the
\* account and to the contract that the lists say, then and now.
CallOK(x) ==
    /\ x.number \in 1 .. Len(log[x.user]) /\ x.msg = log[x.user][x.number]
    /\ 2 * x.number + 2 <= read[x.user]
    /\ x.account = Account(x.user, x.msg)
    /\ x.msg.car + 1 \in 1 .. Len(dockerEnvCarList)
    /\ x.address = dockerEnvCarList[x.msg.car + 1]

CallsOK ==
    /\ \A i \in 1 .. Len(pool) : CallOK(pool[i])
    /\ \A i \in 1 .. Len(chain) : CallOK(chain[i])

\* Calls of one user from one account.
Alike(x, y) == x.user = y.user /\ x.msg.kind = y.msg.kind

\* The pool has the calls of a user in their order, and what is mined comes
\* before what is pending, for calls of one kind.
OrderOK ==
    /\ \A i, j \in 1 .. Len(pool) :
        i < j /\ pool[i].user = pool[j].user => pool[i].number < pool[j].number
    /\ \A i \in 1 .. Len(chain), j \in 1 .. Len(pool) :
        Alike(chain[i], pool[j]) => chain[i].number < pool[j].number
    /\ \A i, j \in 1 .. Len(chain) :
        i < j /\ Alike(chain[i], chain[j]) => chain[i].number < chain[j].number

LEMMA CallGrows ==
    ASSUME ServerTypes, ServerTypes', Grows, NEW x \in CallType, CallOK(x)
    PROVE  CallOK(x)'
<1>1. /\ x.user \in Users /\ x.number \in Nat /\ x.msg.car \in Cars
  BY DEF CallType, Messages
<1>2. /\ Len(log[x.user]) \in Nat /\ Len(log'[x.user]) \in Nat
      /\ read[x.user] \in Nat /\ read'[x.user] \in Nat
      /\ Len(dockerEnvCarList) \in Nat /\ Len(dockerEnvCarList') \in Nat
  BY <1>1 DEF ServerTypes, TypeOK
<1>3. /\ x.number \in 1 .. Len(log'[x.user]) /\ x.msg = log'[x.user][x.number]
  <2>1. x.number \in 1 .. Len(log[x.user]) /\ x.msg = log[x.user][x.number]
    BY DEF CallOK
  <2>2. Len(log[x.user]) <= Len(log'[x.user])
        /\ \A i \in 1 .. Len(log[x.user]) : log'[x.user][i] = log[x.user][i]
    BY <1>1 DEF Grows
  <2>3. x.number \in 1 .. Len(log'[x.user])
    BY <1>2, <2>1, <2>2
  <2>4. log'[x.user][x.number] = log[x.user][x.number]
    BY <2>1, <2>2, Zenon
  <2> QED BY <2>1, <2>3, <2>4
<1>4. 2 * x.number + 2 <= read'[x.user]
  BY <1>1, <1>2 DEF CallOK, Grows
<1>5. /\ x.msg.car + 1 \in 1 .. Len(dockerEnvCarList')
      /\ x.address = dockerEnvCarList'[x.msg.car + 1]
  <2> DEFINE k == x.msg.car + 1
  <2>1. k \in 1 .. Len(dockerEnvCarList) /\ x.address = dockerEnvCarList[k]
    BY DEF CallOK
  <2> HIDE DEF k
  <2>2. k \in 1 .. Len(dockerEnvCarList') /\ dockerEnvCarList'[k] = dockerEnvCarList[k]
    <3>1. Len(dockerEnvCarList) <= Len(dockerEnvCarList')
          /\ \A i \in 1 .. Len(dockerEnvCarList) : dockerEnvCarList'[i] = dockerEnvCarList[i]
      BY DEF Grows
    <3>2. k \in 1 .. Len(dockerEnvCarList')
      BY <1>2, <2>1, <3>1
    <3> QED BY <2>1, <3>1, <3>2, Zenon
  <2> QED BY <2>1, <2>2 DEF k
<1> QED BY <1>3, <1>4, <1>5 DEF CallOK

\* Steps of three kinds: a new call, a mined call, and all others.
LEMMA StepKinds ==
    ASSUME ServerTypes, [ServerNext]_allVars
    PROVE  \/ UNCHANGED ledgerVars
           \/ \E u \in Users : ExecQuery(u)
           \/ Mine
BY DEF ServerNext, CarThread, CarCreation, CarCreationTorn, CreateEnvCar, CreateEnvCarFails,
       UserSends, UserThread, RecvNothing, CreateEnvUser, ExecQueryFails, QueryTimesOut,
       ThreadDies, allVars, ledgerVars

LEMMA CallsStep ==
    ASSUME ServerTypes, CallsOK, [ServerNext]_allVars
    PROVE  CallsOK'
<1>1. ServerTypes' /\ Grows
  BY TypesStep
<1>2. \A x \in CallType : CallOK(x) => CallOK(x)'
  BY <1>1, CallGrows
<1>3. /\ \A i \in 1 .. Len(pool) : pool[i] \in CallType /\ CallOK(pool[i])
      /\ \A i \in 1 .. Len(chain) : chain[i] \in CallType /\ CallOK(chain[i])
  BY DEF ServerTypes, CallsOK
<1>4. /\ pool \in Seq(CallType) /\ chain \in Seq(CallType)
      /\ Len(pool) \in Nat /\ Len(chain) \in Nat
  BY DEF ServerTypes
\* The calls of the next state are calls of this one, or in order there.
<1>5. ASSUME \A i \in 1 .. Len(pool') : \E x \in CallType : x = pool'[i] /\ CallOK(x)',
             \A i \in 1 .. Len(chain') : \E x \in CallType : x = chain'[i] /\ CallOK(x)'
      PROVE  CallsOK'
  <2>1. ASSUME NEW i \in 1 .. Len(pool') PROVE CallOK(pool[i])'
    <3>1. PICK x \in CallType : x = pool'[i] /\ CallOK(x)'
      BY <1>5, <2>1
    <3> QED BY <3>1 DEF CallOK
  <2>2. ASSUME NEW i \in 1 .. Len(chain') PROVE CallOK(chain[i])'
    <3>1. PICK x \in CallType : x = chain'[i] /\ CallOK(x)'
      BY <1>5, <2>2
    <3> QED BY <3>1 DEF CallOK
  <2> QED BY <2>1, <2>2 DEF CallsOK
<1>6. CASE UNCHANGED ledgerVars
  BY <1>2, <1>3, <1>5, <1>6 DEF ledgerVars
<1>7. ASSUME NEW u \in Users, ExecQuery(u) PROVE CallsOK'
  <2> DEFINE x == Call(u)
             n == Len(pool)
  <2>1. /\ Recv(u) /\ x \in CallType /\ x.user = u /\ x.number = FirstWhole(u)
        /\ x.number \in 1 .. Len(log[u]) /\ x.msg = log[u][x.number]
        /\ x.account = Account(u, x.msg)
        /\ x.msg.car + 1 \in 1 .. Len(dockerEnvCarList)
        /\ x.address = dockerEnvCarList[x.msg.car + 1]
        /\ pool' = Append(pool, x)
        /\ UNCHANGED <<log, dockerEnvCarList, chain>>
    BY <1>7, ExecQueryFacts
  <2>2. 2 * x.number + 2 <= read'[u]
    BY <2>1, RecvFacts
  <2> HIDE DEF x
  <2>3. \E y \in CallType : y = x /\ CallOK(y)'
    BY <2>1, <2>2 DEF CallOK
  <2>4. Len(pool') = n + 1 /\ pool'[n + 1] = x /\ \A i \in 1 .. n : pool'[i] = pool[i]
    BY <1>4, <2>1
  <2>5. \A i \in 1 .. n + 1 : i = n + 1 \/ i \in 1 .. n
    BY <1>4
  <2> HIDE DEF n
  <2>6. \A i \in 1 .. n : \E y \in CallType : y = pool[i] /\ CallOK(y)'
    BY <1>2, <1>3 DEF n
  <2>7. \A i \in 1 .. Len(pool') : \E y \in CallType : y = pool'[i] /\ CallOK(y)'
    <3> SUFFICES ASSUME NEW i \in 1 .. n + 1
                 PROVE  \E y \in CallType : y = pool'[i] /\ CallOK(y)'
      BY <2>4
    <3> QED BY <2>3, <2>4, <2>5, <2>6
  <2>8. \A i \in 1 .. Len(chain') : \E y \in CallType : y = chain'[i] /\ CallOK(y)'
    BY <1>2, <1>3, <2>1
  <2> QED BY <1>5, <2>7, <2>8
<1>8. CASE Mine
  <2> DEFINE n == Len(chain)
  <2>1. PICK i \in 1 .. Len(pool) :
            /\ Len(pool') = Len(pool) - 1
            /\ \A j \in 1 .. Len(pool') : pool'[j] = IF j < i THEN pool[j] ELSE pool[j + 1]
            /\ chain' = Append(chain, pool[i])
    BY <1>8, MineFacts
  <2>2. \A j \in 1 .. Len(pool') : j \in 1 .. Len(pool) /\ j + 1 \in 1 .. Len(pool)
    BY <1>4, <2>1
  <2>3. \A j \in 1 .. Len(pool') : \E k \in 1 .. Len(pool) : pool'[j] = pool[k]
    BY <2>1, <2>2
  <2>4. pool[i] \in CallType
    BY <1>3
  <2>5. Len(chain') = n + 1 /\ chain'[n + 1] = pool[i] /\ \A j \in 1 .. n : chain'[j] = chain[j]
    BY <1>4, <2>1, <2>4
  <2>6. \A j \in 1 .. n + 1 : j = n + 1 \/ j \in 1 .. n
    BY <1>4
  <2>7. \A j \in 1 .. Len(pool') : \E y \in CallType : y = pool'[j] /\ CallOK(y)'
    BY <1>2, <1>3, <2>3
  <2>8. \E y \in CallType : y = pool[i] /\ CallOK(y)'
    BY <1>2, <1>3
  <2>9. \A j \in 1 .. n : \E y \in CallType : y = chain[j] /\ CallOK(y)'
    BY <1>2, <1>3
  <2> HIDE DEF n
  <2>10. \A j \in 1 .. Len(chain') : \E y \in CallType : y = chain'[j] /\ CallOK(y)'
    <3> SUFFICES ASSUME NEW j \in 1 .. n + 1
                 PROVE  \E y \in CallType : y = chain'[j] /\ CallOK(y)'
      BY <2>5
    <3> QED BY <2>5, <2>6, <2>8, <2>9
  <2> QED BY <1>5, <2>7, <2>10
<1> QED BY <1>6, <1>7, <1>8, StepKinds

LEMMA OrderStep ==
    ASSUME ServerTypes, CallsOK, OrderOK, [ServerNext]_allVars
    PROVE  OrderOK'
<1>1. /\ \A i \in 1 .. Len(pool) : pool[i] \in CallType /\ CallOK(pool[i])
      /\ \A i \in 1 .. Len(chain) : chain[i] \in CallType /\ CallOK(chain[i])
  BY DEF ServerTypes, CallsOK
<1>2. /\ pool \in Seq(CallType) /\ chain \in Seq(CallType)
      /\ Len(pool) \in Nat /\ Len(chain) \in Nat
  BY DEF ServerTypes
<1>3. CASE UNCHANGED ledgerVars
  BY <1>3 DEF ledgerVars, OrderOK, Alike
\* What a user's thread submits is newer than all calls of the user.
<1>4. ASSUME NEW u \in Users, ExecQuery(u) PROVE OrderOK'
  <2> DEFINE x == Call(u)
             n == Len(pool)
  <2>1. /\ x \in CallType /\ x.user = u /\ x.number = FirstWhole(u) /\ x.number \in Nat
        /\ Recv(u) /\ pool' = Append(pool, x) /\ chain' = chain
    BY <1>4, ExecQueryFacts DEF CallType
  <2>2. ASSUME NEW y \in CallType, CallOK(y), y.user = u PROVE y.number < x.number
    <3>1. 2 * y.number + 2 <= read[u] /\ y.number \in Nat /\ read[u] \in Nat
      BY <2>2 DEF CallOK, CallType, ServerTypes
    <3>2. read[u] <= 2 * x.number
      BY <2>1, RecvFacts
    <3> HIDE DEF x
    <3> QED BY <2>1, <3>1, <3>2
  <2> HIDE DEF x
  <2>3. Len(pool') = n + 1 /\ pool'[n + 1] = x /\ \A i \in 1 .. n : pool'[i] = pool[i]
    BY <1>2, <2>1
  <2>4. n \in Nat /\ \A i \in 1 .. n + 1 : i = n + 1 \/ i \in 1 .. n
    BY <1>2
  <2>5. \A i \in 1 .. n : pool[i].user = u => pool[i].number < x.number
    BY <1>1, <2>2
  <2>6. \A i \in 1 .. Len(chain) : chain[i].user = u => chain[i].number < x.number
    BY <1>1, <2>2
  <2>7. \A i, j \in 1 .. n :
            i < j /\ pool[i].user = pool[j].user => pool[i].number < pool[j].number
    BY DEF OrderOK
  <2>8. \A i \in 1 .. Len(chain), j \in 1 .. n :
            Alike(chain[i], pool[j]) => chain[i].number < pool[j].number
    BY DEF OrderOK
  <2> HIDE DEF n
  <2>9. ASSUME NEW i \in 1 .. n + 1, NEW j \in 1 .. n + 1, i < j, pool'[i].user = pool'[j].user
        PROVE  pool'[i].number < pool'[j].number
    <3>1. i \in 1 .. n
      BY <2>4, <2>9
    <3>2. CASE j \in 1 .. n
      BY <2>3, <2>7, <2>9, <3>1, <3>2
    <3>3. CASE j = n + 1
      BY <2>1, <2>3, <2>5, <2>9, <3>1, <3>3
    <3> QED BY <2>4, <3>2, <3>3
  <2>10. ASSUME NEW i \in 1 .. Len(chain), NEW j \in 1 .. n + 1, Alike(chain[i], pool'[j])
         PROVE  chain[i].number < pool'[j].number
    <3>1. CASE j \in 1 .. n
      BY <2>3, <2>8, <2>10, <3>1
    <3>2. CASE j = n + 1
      BY <2>1, <2>3, <2>6, <2>10, <3>2 DEF Alike
    <3> QED BY <2>4, <3>1, <3>2
  <2> QED BY <2>1, <2>3, <2>9, <2>10 DEF OrderOK, Alike
\* No pending call of the same account is before the one that is mined.
<1>5. CASE Mine
  <2>1. PICK i \in 1 .. Len(pool) :
            /\ Minable(i)
            /\ Len(pool') = Len(pool) - 1
            /\ \A j \in 1 .. Len(pool') : pool'[j] = IF j < i THEN pool[j] ELSE pool[j + 1]
            /\ chain' = Append(chain, pool[i])
    BY <1>5, MineFacts
  <2> DEFINE n == Len(chain)
             p == Len(pool)
             x == pool[i]
             From(j) == IF j < i THEN j ELSE j + 1
  <2>2. x \in CallType /\ CallOK(x)
    BY <1>1
  <2>3. Len(chain') = n + 1 /\ chain'[n + 1] = x /\ \A j \in 1 .. n : chain'[j] = chain[j]
    BY <1>2, <2>1, <2>2
  <2>4. \A j \in 1 .. n + 1 : j = n + 1 \/ j \in 1 .. n
    BY <1>2
  <2>5. \A j \in 1 .. p - 1 : From(j) \in 1 .. p /\ From(j) # i
    BY <1>2
  <2>6. \A j \in 1 .. p - 1 : pool'[j] = pool[From(j)]
    BY <2>1
  <2>7. \A j, k \in 1 .. p - 1 : j < k => From(j) < From(k)
    BY <1>2
  \* What stays in the pool and is of the same user and kind came later.
  <2>8. ASSUME NEW k \in 1 .. p, k # i, Alike(x, pool[k]) PROVE x.number < pool[k].number
    <3>1. pool[k].account = x.account
      BY <1>1, <2>2, <2>8 DEF CallOK, Alike, Account
    <3>2. ~(k < i)
      <4>1. k < i => k \in 1 .. i - 1
        OBVIOUS
      <4> QED BY <2>1, <3>1, <4>1 DEF Minable
    <3>3. i < k
      BY <2>8, <3>2
    <3> QED BY <2>8, <3>3 DEF OrderOK, Alike
  <2> HIDE DEF n, p, x, From
  <2>9. ASSUME NEW j \in 1 .. p - 1, NEW k \in 1 .. p - 1, j < k, pool'[j].user = pool'[k].user
        PROVE  pool'[j].number < pool'[k].number
    BY <2>5, <2>6, <2>7, <2>9 DEF OrderOK, p
  <2>10. ASSUME NEW j \in 1 .. n + 1, NEW k \in 1 .. p - 1, Alike(chain'[j], pool'[k])
         PROVE  chain'[j].number < pool'[k].number
    <3>1. From(k) \in 1 .. p /\ From(k) # i /\ pool'[k] = pool[From(k)]
      BY <2>5, <2>6
    <3>2. CASE j \in 1 .. n
      BY <2>3, <2>10, <3>1, <3>2 DEF OrderOK, n, p
    <3>3. CASE j = n + 1
      BY <2>3, <2>8, <2>10, <3>1, <3>3
    <3> QED BY <2>4, <3>2, <3>3
  <2>11. ASSUME NEW j \in 1 .. n + 1, NEW k \in 1 .. n + 1, j < k, Alike(chain'[j], chain'[k])
         PROVE  chain'[j].number < chain'[k].number
    <3>1. j \in 1 .. n
      BY <1>2, <2>4, <2>11 DEF n
    <3>2. CASE k \in 1 .. n
      BY <2>3, <2>11, <3>1, <3>2 DEF OrderOK, n
    <3>3. CASE k = n + 1
      BY <2>3, <2>11, <3>1, <3>3 DEF OrderOK, n, x
    <3> QED BY <2>4, <3>2, <3>3
  <2>12. Len(pool') = p - 1 /\ Len(chain') = n + 1
    BY <2>1, <2>3 DEF p
  <2> QED BY <2>9, <2>10, <2>11, <2>12 DEF OrderOK, Alike
<1> QED BY <1>3, <1>4, <1>5, StepKinds

-----------------------------------------------------------------------------
(* Records. *)

\* What one contract holds is true.
StorageTrue(k) ==
    /\ \A t \in DOMAIN k.transactions :
        Listed(log[k.transactions[t].idPassenger], Transaction(t, k.transactions[t].idCar))
    /\ \A t \in k.ended : \E u \in Users, d \in Cars : Listed(log[u], AddEndHour(t, d))

LEMMA ListedGrows ==
    ASSUME ServerTypes, ServerTypes', Grows, NEW u \in Users, NEW m, Listed(log[u], m)
    PROVE  Listed(log'[u], m)
<1>1. log[u] \in Seq(Messages) /\ log'[u] \in Seq(Messages)
  BY DEF ServerTypes, TypeOK
<1>2. /\ Len(log[u]) \in Nat /\ DOMAIN log[u] = 1 .. Len(log[u])
      /\ Len(log'[u]) \in Nat /\ DOMAIN log'[u] = 1 .. Len(log'[u])
  BY <1>1
<1>3. PICK i \in 1 .. Len(log[u]) : log[u][i] = m
  BY <1>2 DEF Listed
<1>4. Len(log[u]) <= Len(log'[u]) /\ log'[u][i] = log[u][i]
  BY DEF Grows
<1>5. i \in DOMAIN log'[u]
  BY <1>2, <1>4
<1> QED BY <1>3, <1>4, <1>5 DEF Listed

LEMMA StorageGrows ==
    ASSUME ServerTypes, ServerTypes', Grows, NEW k \in Storage, StorageTrue(k)
    PROVE  StorageTrue(k)'
<1>1. ASSUME NEW t \in DOMAIN k.transactions
      PROVE  Listed(log'[k.transactions[t].idPassenger],
                    Transaction(t, k.transactions[t].idCar))
  <2>1. PICK T \in SUBSET Nat : k.transactions \in [T -> Entries]
    BY DEF Storage
  <2>2. k.transactions[t].idPassenger \in Users
    BY <2>1 DEF Entries
  <2> QED BY <2>2, ListedGrows DEF StorageTrue
<1>2. ASSUME NEW t \in k.ended
      PROVE  \E u \in Users, d \in Cars : Listed(log'[u], AddEndHour(t, d))
  BY ListedGrows DEF StorageTrue
<1> QED BY <1>1, <1>2 DEF StorageTrue

\* A mined call is a message of its user, so what it writes is true.
LEMMA ExecutedTrue ==
    ASSUME ServerTypes, NEW x \in CallType, CallOK(x), StorageTrue(contract[x.address])
    PROVE  StorageTrue(Executed(x)[x.address])
<1> DEFINE k == contract[x.address]
           n == Executed(x)[x.address]
           t == x.msg.trans
<1>1. /\ x.address \in Cars /\ x.user \in Users /\ t \in Nat /\ x.msg.car \in Cars
      /\ x.msg \in Messages
  BY DEF CallType, Messages
<1>2. /\ k \in Storage /\ n \in Storage
      /\ x.msg.kind = "Transaction" => n = AC!AddTransactionInfo(k, t, x.user, x.msg.car)
      /\ x.msg.kind # "Transaction" => n = AC!AddEndHour(k, t)
  BY ExecutedFacts
<1>3. Listed(log[x.user], x.msg)
  <2>1. DOMAIN log[x.user] = 1 .. Len(log[x.user])
    BY <1>1 DEF ServerTypes, TypeOK
  <2> QED BY <2>1 DEF CallOK, Listed
<1>4. /\ \A s \in DOMAIN k.transactions :
          Listed(log[k.transactions[s].idPassenger], Transaction(s, k.transactions[s].idCar))
      /\ \A s \in k.ended : \E u \in Users, d \in Cars : Listed(log[u], AddEndHour(s, d))
  BY DEF StorageTrue
<1> HIDE DEF k, n
<1>5. CASE x.msg.kind = "Transaction"
  <2>1. /\ n.ended = k.ended /\ DOMAIN n.transactions = DOMAIN k.transactions \cup {t}
        /\ n.transactions[t] = [idPassenger |-> x.user, idCar |-> x.msg.car]
        /\ \A s \in DOMAIN k.transactions \ {t} : n.transactions[s] = k.transactions[s]
    BY <1>1, <1>2, <1>5, AddTransactionInfoFacts
  <2>2. x.msg = Transaction(t, x.msg.car)
    BY <1>1, <1>5 DEF Messages, Transaction
  <2>3. n.transactions[t].idPassenger = x.user /\ n.transactions[t].idCar = x.msg.car
    BY <2>1
  <2>4. ASSUME NEW s \in DOMAIN n.transactions
        PROVE  Listed(log[n.transactions[s].idPassenger], Transaction(s, n.transactions[s].idCar))
    <3>1. CASE s = t
      <4>1. Listed(log[x.user], Transaction(t, x.msg.car))
        BY <1>3, <2>2
      <4> QED BY <2>3, <3>1, <4>1
    <3>2. CASE s # t
      <4>1. s \in DOMAIN k.transactions /\ n.transactions[s] = k.transactions[s]
        BY <2>1, <3>2
      <4> QED BY <1>4, <4>1
    <3> QED BY <3>1, <3>2
  <2> QED BY <1>4, <2>1, <2>4 DEF StorageTrue, n
<1>6. CASE x.msg.kind # "Transaction"
  <2>1. n.transactions = k.transactions /\ n.ended \subseteq k.ended \cup {t}
    BY <1>1, <1>2, <1>6, AddEndHourFacts
  <2>2. x.msg = AddEndHour(t, x.msg.car)
    BY <1>1, <1>6 DEF Messages, AddEndHour
  <2>3. ASSUME NEW s \in n.ended
        PROVE  \E u \in Users, d \in Cars : Listed(log[u], AddEndHour(s, d))
    <3>1. CASE s = t
      <4>1. Listed(log[x.user], AddEndHour(t, x.msg.car))
        BY <1>3, <2>2
      <4> QED BY <1>1, <3>1, <4>1
    <3>2. CASE s \in k.ended
      BY <1>4, <3>2
    <3> QED BY <2>1, <3>1, <3>2
  <2> QED BY <1>4, <2>1, <2>3 DEF StorageTrue, n
<1> QED BY <1>5, <1>6

LEMMA RecordsStep ==
    ASSUME ServerTypes, CallsOK, RecordsTrue, [ServerNext]_allVars
    PROVE  RecordsTrue'
<1>1. ServerTypes' /\ Grows
  BY TypesStep
<1>2. \A c \in Cars : contract[c] \in Storage /\ StorageTrue(contract[c])
  BY DEF RecordsTrue, StorageTrue, ServerTypes
<1>3. \A k \in Storage : StorageTrue(k) => StorageTrue(k)'
  BY <1>1, StorageGrows
<1>4. ASSUME \A c \in Cars : \E k \in Storage : k = contract'[c] /\ StorageTrue(k)'
      PROVE  RecordsTrue'
  <2>1. ASSUME NEW c \in Cars PROVE StorageTrue(contract[c])'
    <3>1. PICK k \in Storage : k = contract'[c] /\ StorageTrue(k)'
      BY <1>4
    <3> QED BY <3>1 DEF StorageTrue
  <2> QED BY <2>1 DEF StorageTrue, RecordsTrue
<1>5. CASE contract' = contract
  BY <1>2, <1>3, <1>4, <1>5
<1>6. CASE Mine
  <2>1. PICK i \in 1 .. Len(pool) : pool[i] \in CallType /\ contract' = Executed(pool[i])
    BY <1>6, MineFacts
  <2> DEFINE x == pool[i]
  <2>2. CallOK(x)
    BY DEF CallsOK
  <2> HIDE DEF x
  <2>3. x \in CallType /\ x.address \in Cars
    BY <2>1 DEF x, CallType
  <2>4. /\ StorageTrue(Executed(x)[x.address]) /\ Executed(x)[x.address] \in Storage
        /\ \A c \in Cars \ {x.address} : Executed(x)[c] = contract[c]
    BY <1>2, <2>2, <2>3, ExecutedTrue, ExecutedFacts
  <2>5. \A c \in Cars : Executed(x)[c] \in Storage /\ StorageTrue(Executed(x)[c])
    BY <1>2, <2>4
  <2>6. ASSUME NEW c \in Cars PROVE \E k \in Storage : k = contract'[c] /\ StorageTrue(k)'
    <3>1. Executed(x)[c] = contract'[c]
      BY <2>1 DEF x
    <3>2. \A k \in Storage : k = Executed(x)[c] => StorageTrue(k)
      BY <2>5
    <3> QED BY <1>3, <2>5, <3>1, <3>2
  <2> QED BY <1>4, <2>6
<1> QED BY <1>5, <1>6, StepKinds DEF ledgerVars, ExecQuery

-----------------------------------------------------------------------------
(* What holds of every server. *)

ServerInv == ServerTypes /\ CallsOK /\ OrderOK /\ RecordsTrue

LEMMA ServerInitOK == ServerInit => ServerInv
<1> SUFFICES ASSUME ServerInit PROVE ServerInv
  OBVIOUS
<1>1. AC!NewContract \in Storage
  <2>1. << >> \in [{} -> Entries] /\ {} \in SUBSET Nat
    OBVIOUS
  <2>2. << >> \in UNION {[T -> Entries] : T \in SUBSET Nat}
    BY <2>1
  <2> QED BY <2>2 DEF AC!NewContract, Storage
<1>2. TypeOK
  BY DEF ServerInit, Init, TypeOK
<1>3. \A u \in Users : read[u] <= Written(u)
  <2>1. \A u \in Users : log[u] = << >> /\ read[u] = 0
    BY DEF ServerInit, Init
  <2>2. Len(<< >>) = 0
    OBVIOUS
  <2>3. \A u \in Users : Len(log[u]) = 0 /\ read[u] = 0
    BY <2>1, <2>2
  <2>4. 2 * (0 + 1) = 2 /\ 0 <= 2
    OBVIOUS
  <2>5. \A u \in Users : Written(u) = 2 * (0 + 1)
    BY <2>3 DEF Written
  <2> QED BY <2>3, <2>4, <2>5
<1>4. ServerTypes
  BY <1>1, <1>2, <1>3 DEF ServerInit, ServerTypes
<1>5. CallsOK /\ OrderOK
  <2>1. Len(pool) = 0 /\ Len(chain) = 0
    BY DEF ServerInit
  <2>2. 1 .. 0 = {}
    OBVIOUS
  <2> QED BY <2>1, <2>2 DEF CallsOK, OrderOK
<1>6. RecordsTrue
  <2>1. \A c \in Cars : contract[c] = AC!NewContract
    BY DEF ServerInit
  <2>2. DOMAIN AC!NewContract.transactions = {} /\ AC!NewContract.ended = {}
    BY DEF AC!NewContract
  <2> QED BY <2>1, <2>2 DEF RecordsTrue
<1> QED BY <1>4, <1>5, <1>6 DEF ServerInv

LEMMA ServerStep == ServerInv /\ [ServerNext]_allVars => ServerInv'
BY TypesStep, CallsStep, OrderStep, RecordsStep DEF ServerInv

LEMMA ServerInvariant == ServerSpec => []ServerInv
BY ServerInitOK, ServerStep, PTL DEF ServerSpec

\* The lists of the server, what its threads have read and what geth holds
\* have their types: a thread never reads more than its user has written, and
\* every call is addressed to the contract of some car.
THEOREM ServerTypeCorrect == ServerSpec => []ServerTypeOK
<1>1. ServerInv => ServerTypeOK
  <2> SUFFICES ASSUME ServerTypes PROVE ServerTypeOK
    BY DEF ServerInv
  <2>1. ASSUME NEW u \in Users PROVE read[u] \in 0 .. Written(u)
    <3>1. Len(log[u]) \in Nat /\ read[u] \in Nat /\ read[u] <= Written(u)
      BY DEF ServerTypes, TypeOK
    <3> QED BY <3>1 DEF Written
  <2>2. \A i \in DOMAIN pool : pool[i].address \in Cars
    <3>1. \A i \in DOMAIN pool : pool[i] \in CallType
      BY DEF ServerTypes
    <3> QED BY <3>1 DEF CallType
  <2> QED BY <2>1, <2>2 DEF ServerTypes, TypeOK, ServerTypeOK
<1> QED BY <1>1, ServerInvariant, PTL

\* Whatever is lost, torn, late or failing, geth mines each message at most
\* once and those of one kind of one user in the order they were sent.
THEOREM CallsMinedInOrder == ServerSpec => []MinedInOrder
<1>1. ServerInv => MinedInOrder
  <2> SUFFICES ASSUME ServerTypes, OrderOK PROVE MinedInOrder
    BY DEF ServerInv
  <2>1. DOMAIN chain = 1 .. Len(chain)
    BY DEF ServerTypes
  <2> QED BY <2>1 DEF OrderOK, Alike, MinedInOrder
<1> QED BY <1>1, ServerInvariant, PTL

\* The position of a car in dockerEnvCarList never changes: all calls about
\* it, pending or mined, go to one contract.
THEOREM CallsToOneContract == ServerSpec => []SameContract
<1>1. ServerInv => SameContract
  <2> SUFFICES ASSUME ServerTypes, CallsOK PROVE SameContract
    BY DEF ServerInv
  <2>1. DOMAIN chain = 1 .. Len(chain) /\ DOMAIN pool = 1 .. Len(pool)
    BY DEF ServerTypes
  <2>2. \A x \in Calls : x.address = dockerEnvCarList[x.msg.car + 1]
    BY <2>1 DEF CallsOK, CallOK, Calls
  <2> QED BY <2>2 DEF SameContract
<1> QED BY <1>1, ServerInvariant, PTL

\* What the contracts hold is what the users sent: addTransactionInfo records
\* an announcement of that user about that car, addEndHour a ride that some
\* user has ended.
THEOREM ContractsTrue == ServerSpec => []RecordsTrue
BY ServerInvariant, PTL DEF ServerInv

-----------------------------------------------------------------------------
(* Threads that die. *)

LEMMA Pigeonhole ==
    ASSUME NEW S \in SUBSET Nat, NEW list \in Seq(S), NEW n \in Nat,
           \A x \in 0 .. n : Listed(list, x)
    PROVE  n < Len(list)
<1> DEFINE f == [i \in 1 .. Len(list) |-> IF list[i] \in 0 .. n THEN list[i] ELSE 0]
<1>1. Len(list) \in Nat /\ DOMAIN list = 1 .. Len(list) /\ 0 \in 0 .. n
  OBVIOUS
<1>2. f \in [1 .. Len(list) -> 0 .. n]
  BY <1>1
<1>3. \A x \in 0 .. n : \E i \in 1 .. Len(list) : f[i] = x
  BY <1>1 DEF Listed
<1> HIDE DEF f
<1>4. ExistsSurjection(1 .. Len(list), 0 .. n)
  BY <1>2, <1>3 DEF ExistsSurjection, Surjection
<1>5. Cardinality(0 .. n) <= Len(list)
  BY <1>1, <1>4, FS_SurjCardinalityBound
<1>6. Cardinality(0 .. n) = n + 1
  BY FS_Interval
<1> QED BY <1>1, <1>5, <1>6

\* Only an index out of range ends a thread.
LEMMA StepDies ==
    ASSUME ServerTypes, [ServerNext]_allVars, NEW u \in Users, pc[u] # "dead", pc'[u] = "dead"
    PROVE  ThreadDies(u)
<1>1. CASE pc' = pc
  BY <1>1
<1>2. ASSUME NEW v \in Users, NEW p, pc' = [pc EXCEPT ![v] = p], v # u \/ p # "dead"
      PROVE  FALSE
  BY <1>2 DEF ServerTypes
<1>3. ASSUME NEW v \in Users, ThreadDies(v) PROVE ThreadDies(u)
  BY <1>2, <1>3 DEF ThreadDies
<1>4. ASSUME NEW v \in Users, ExecQuery(v) \/ QueryTimesOut(v) PROVE FALSE
  BY <1>2, <1>4 DEF ExecQuery, QueryTimesOut
<1>5. CASE Mine
  <2>1. PICK x : pc'[u] = IF Waits(u, x) THEN "recv" ELSE pc[u]
    BY <1>5 DEF Mine
  <2> QED BY <2>1
<1> QED BY <1>1, <1>3, <1>4, <1>5
        DEF ServerNext, CarThread, CarCreation, CarCreationTorn, CreateEnvCar,
            CreateEnvCarFails, UserSends, UserThread, RecvNothing, CreateEnvUser,
            ExecQueryFails, allVars, serverVars

\* Every server: by counting, a list that has an entry for each number up to n
\* is longer than n.  So a thread that dies of an index out of range, of its
\* own number or of the car's, was served before somebody with a number up to
\* that one.
THEOREM ThreadsDieEarly == ServerSpec => DiesOnlyEarly
<1> DEFINE Early ==
        \A u \in Users :
          pc[u] # "dead" /\ pc'[u] = "dead" =>
             \/ \E v \in 0 .. u : ~Listed(dockerEnvUserList, v)
             \/ \E c \in 0 .. log[u][FirstWhole(u)].car : ~Listed(dockerEnvCarList, c)
<1>1. ServerInv /\ [ServerNext]_allVars => [Early]_allVars
  <2> SUFFICES ASSUME ServerTypes, [ServerNext]_allVars, NEW u \in Users,
                      pc[u] # "dead", pc'[u] = "dead",
                      \A v \in 0 .. u : Listed(dockerEnvUserList, v),
                      \A c \in 0 .. log[u][FirstWhole(u)].car : Listed(dockerEnvCarList, c)
               PROVE  FALSE
    BY DEF ServerInv
  <2> DEFINE m == log[u][FirstWhole(u)]
  <2>1. Recv(u) /\ FirstWhole(u) > 0 /\ ~InRange(u, m)
    BY StepDies DEF ThreadDies
  <2>2. m \in Messages
    BY <2>1, MessageFacts
  <2>3. m.car \in Nat /\ u \in Nat /\ Users \in SUBSET Nat /\ Cars \in SUBSET Nat
    BY <2>2, Constants DEF Messages
  <2>4. u < Len(dockerEnvUserList)
    BY <2>3, Pigeonhole DEF ServerTypes
  <2>5. m.car < Len(dockerEnvCarList)
    BY <2>3, Pigeonhole DEF ServerTypes
  <2> QED BY <2>1, <2>4, <2>5 DEF InRange
<1> HIDE DEF Early
<1>2. ServerSpec => [][Early]_allVars
  BY <1>1, ServerInvariant, PTL DEF ServerSpec
<1> QED BY <1>2 DEF Early, DiesOnlyEarly

-----------------------------------------------------------------------------
(* Messages that are lost. *)

\* r fragments have been read and h understood.  All but the last chunks were
\* full or ended with a message, so that there is a message understood among
\* the last Reach before the next one, and in every window of that many.  With
\* chunks of two fragments nothing is ever torn.
Whole(r) == (r + 1) \div 2

LossOK(r, h) ==
    /\ MaxChunk = 2 => r = 2 * Whole(r)
    /\ r > 0 => \E j \in Nat : Whole(r) <= j + Reach /\ j < Whole(r) /\ Listed(h, j)
    /\ \A k \in Nat : 2 * (k + Reach) <= r =>
          \E j \in Nat : k <= j /\ j < k + Reach /\ Listed(h, j)

LossInv == \A u \in Users : LossOK(read[u], handled[u])

LEMMA WholeFacts ==
    /\ \A r \in Nat : /\ Whole(r) \in Nat /\ r <= 2 * Whole(r) /\ 2 * Whole(r) <= r + 1
                      /\ \A f \in Nat : r <= 2 * f /\ 2 * f <= r + 1 => Whole(r) = f
    /\ Reach \in Nat \ {0} /\ MaxChunk <= 2 * Reach /\ 2 * Reach <= MaxChunk + 1
<1>1. \A r \in Nat : /\ (r + 1) \div 2 \in Nat /\ r <= 2 * ((r + 1) \div 2)
                     /\ 2 * ((r + 1) \div 2) <= r + 1
  OBVIOUS
<1>2. \A r \in Nat : Whole(r) \in Nat /\ r <= 2 * Whole(r) /\ 2 * Whole(r) <= r + 1
  BY <1>1 DEF Whole
<1>3. ASSUME NEW r \in Nat, NEW f \in Nat, r <= 2 * f, 2 * f <= r + 1 PROVE Whole(r) = f
  <2> DEFINE w == Whole(r)
  <2>1. w \in Nat /\ r <= 2 * w /\ 2 * w <= r + 1
    BY <1>2
  <2> HIDE DEF w
  <2>2. w = f
    BY <1>3, <2>1
  <2> QED BY <2>2 DEF w
<1>4. MaxChunk \in Nat \ {0, 1} /\ Reach = Whole(MaxChunk)
  BY Constants DEF Reach, Whole
<1>5. Reach \in Nat /\ MaxChunk <= 2 * Reach /\ 2 * Reach <= MaxChunk + 1
  BY <1>2, <1>4
<1>6. Reach # 0
  BY <1>4, <1>5
<1> QED BY <1>2, <1>3, <1>5, <1>6

\* A chunk without words is the rest of a message that was torn.
LEMMA LossNothing ==
    ASSUME NEW r \in Nat, NEW h, LossOK(r, h), NEW n \in Nat \ {0}, NEW w \in Nat,
           n = MaxChunk \/ r + n = 2 * w, ~(2 * Whole(r) + 2 <= r + n)
    PROVE  LossOK(r + n, h)
<1> DEFINE f == Whole(r)
           e == Reach
<1>1. f \in Nat /\ r <= 2 * f /\ 2 * f <= r + 1 /\ MaxChunk \in Nat \ {0, 1} /\ e \in Nat \ {0}
  BY WholeFacts, Constants
<1>2. MaxChunk = 2 => r = 2 * f
  BY DEF LossOK
<1> HIDE DEF f, e
<1>3. r + 1 = 2 * f /\ n = 1
  BY <1>1, <1>2 DEF f
<1>4. r + n = 2 * f /\ r + n \in Nat /\ r > 0
  BY <1>1, <1>3
<1>5. Whole(r + n) = f
  BY <1>1, <1>4, WholeFacts
<1>6. PICK j \in Nat : f <= j + e /\ j < f /\ Listed(h, j)
  BY <1>4 DEF LossOK, f, e
<1>7. ASSUME NEW k \in Nat, 2 * (k + e) <= r + n
      PROVE  \E i \in Nat : k <= i /\ i < k + e /\ Listed(h, i)
  <2>1. CASE 2 * (k + e) <= r
    BY <2>1 DEF LossOK, e
  <2>2. CASE ~(2 * (k + e) <= r)
    <3>1. k + e = f
      BY <1>1, <1>3, <1>7, <2>2
    <3>2. k <= j /\ j < k + e
      BY <1>1, <1>6, <3>1
    <3> QED BY <1>6, <3>2
  <2> QED BY <2>1, <2>2
<1> QED BY <1>2, <1>4, <1>5, <1>6, <1>7 DEF LossOK, e

\* A chunk with words reaches at most Reach messages beyond the one it starts
\* with, and that one is understood.
LEMMA LossRecv ==
    ASSUME NEW r \in Nat, NEW h, NEW g, LossOK(r, h), NEW q \in Nat, NEW w \in Nat,
           2 * Whole(r) + 2 <= q, q <= r + MaxChunk, q = r + MaxChunk \/ q = 2 * w,
           Listed(g, Whole(r)), \A j \in Nat : Listed(h, j) => Listed(g, j)
    PROVE  LossOK(q, g)
<1> DEFINE f == Whole(r)
           e == Reach
           p == Whole(q)
<1>1. /\ f \in Nat /\ r <= 2 * f /\ 2 * f <= r + 1 /\ p \in Nat /\ q <= 2 * p /\ 2 * p <= q + 1
      /\ MaxChunk \in Nat \ {0, 1} /\ e \in Nat \ {0} /\ MaxChunk <= 2 * e
  BY WholeFacts, Constants
<1>2. MaxChunk = 2 => r = 2 * f
  BY DEF LossOK
<1> HIDE DEF f, e, p
<1>3. 2 * f + 2 <= q
  BY DEF f
<1>4. MaxChunk = 2 => q = 2 * p
  BY <1>1, <1>2, <1>3
<1>5. p <= f + e /\ f < p
  BY <1>1, <1>3
<1>6. ASSUME NEW k \in Nat, 2 * (k + e) <= q
      PROVE  \E i \in Nat : k <= i /\ i < k + e /\ Listed(g, i)
  <2>1. CASE 2 * (k + e) <= r
    <3>1. PICK i \in Nat : k <= i /\ i < k + e /\ Listed(h, i)
      BY <2>1 DEF LossOK, e
    <3> QED BY <3>1
  <2>2. CASE ~(2 * (k + e) <= r) /\ k + e = f
    <3>1. r > 0
      BY <1>1, <2>2
    <3>2. PICK j \in Nat : f <= j + e /\ j < f /\ Listed(h, j)
      BY <3>1 DEF LossOK, f, e
    <3>3. k <= j /\ j < k + e
      BY <1>1, <2>2, <3>2
    <3> QED BY <3>2, <3>3
  <2>3. CASE ~(2 * (k + e) <= r) /\ k + e # f
    <3>1. k <= f /\ f < k + e
      BY <1>1, <1>6, <2>3
    <3> QED BY <1>1, <3>1 DEF f
  <2> QED BY <2>1, <2>2, <2>3
<1> QED BY <1>1, <1>4, <1>5, <1>6 DEF LossOK, f, e, p

LEMMA LossStep ==
    ASSUME ~ShortReads, ServerTypes, LossInv, [ServerNext]_allVars
    PROVE  LossInv'
<1>1. CASE UNCHANGED <<read, handled>>
  BY <1>1 DEF LossInv, LossOK
<1>2. ASSUME NEW u \in Users, RecvNothing(u) PROVE LossInv'
  <2>1. PICK n \in Chunks(u) : ~HasWords(u, n) /\ read' = [read EXCEPT ![u] = @ + n]
    BY <1>2 DEF RecvNothing
  <2>2. /\ n \in Nat \ {0} /\ read[u] \in Nat /\ Written(u) = 2 * (Len(log[u]) + 1)
        /\ Len(log[u]) + 1 \in Nat /\ (n = MaxChunk \/ read[u] + n = Written(u))
    BY ChunkFacts
  <2>3. ~(2 * Whole(read[u]) + 2 <= read[u] + n)
    BY <2>1 DEF HasWords, FirstWhole, Whole
  <2>4. LossOK(read[u], handled[u])
    BY DEF LossInv
  <2>5. LossOK(read[u] + n, handled[u])
    BY <2>2, <2>3, <2>4, LossNothing
  <2>6. /\ read'[u] = read[u] + n /\ \A v \in Users \ {u} : read'[v] = read[v]
        /\ handled' = handled
    BY <1>2, <2>1 DEF ServerTypes, RecvNothing
  <2>7. \A v \in Users : LossOK(read'[v], handled'[v])
    BY <2>5, <2>6 DEF LossInv
  <2> QED BY <2>7 DEF LossInv, LossOK
<1>3. ASSUME NEW u \in Users, Recv(u) PROVE LossInv'
  <2>1. /\ read' \in [Users -> Nat]
        /\ \A v \in Users \ {u} : read'[v] = read[v] /\ handled'[v] = handled[v]
        /\ handled'[u] = Append(handled[u], FirstWhole(u))
        /\ FirstWhole(u) \in 0 .. Len(log[u])
        /\ 2 * FirstWhole(u) + 2 <= read'[u] /\ read'[u] <= read[u] + MaxChunk
        /\ read'[u] = read[u] + MaxChunk \/ read'[u] = Written(u)
    BY <1>3, RecvFacts
  <2>2. read[u] \in Nat /\ read'[u] \in Nat /\ handled[u] \in Seq(Nat)
        /\ Len(log[u]) + 1 \in Nat /\ Written(u) = 2 * (Len(log[u]) + 1)
    BY <2>1 DEF ServerTypes, TypeOK, Written
  <2>3. FirstWhole(u) = Whole(read[u]) /\ LossOK(read[u], handled[u])
    BY DEF FirstWhole, Whole, LossInv
  <2>4. FirstWhole(u) \in Nat
    BY <2>1, <2>2
  <2>5. /\ Listed(handled'[u], FirstWhole(u))
        /\ \A j \in Nat : Listed(handled[u], j) => Listed(handled'[u], j)
    <3> DEFINE l == Len(handled[u])
    <3>1. /\ l \in Nat /\ DOMAIN handled[u] = 1 .. l /\ DOMAIN handled'[u] = 1 .. l + 1
          /\ handled'[u][l + 1] = FirstWhole(u)
          /\ \A i \in 1 .. l : i \in 1 .. l + 1 /\ handled'[u][i] = handled[u][i]
      BY <2>1, <2>2, <2>4
    <3> HIDE DEF l
    <3>2. l + 1 \in 1 .. l + 1
      BY <3>1
    <3> QED BY <3>1, <3>2 DEF Listed
  <2>6. LossOK(read'[u], handled'[u])
    BY <2>1, <2>2, <2>3, <2>5, LossRecv
  <2>7. \A v \in Users : LossOK(read'[v], handled'[v])
    BY <2>1, <2>6 DEF LossInv
  <2> QED BY <2>7 DEF LossInv, LossOK
<1> QED BY <1>1, <1>2, <1>3
        DEF ServerNext, CarThread, CarCreation, CarCreationTorn, CreateEnvCar,
            CreateEnvCarFails, UserSends, UserThread, CreateEnvUser, ExecQuery,
            ExecQueryFails, QueryTimesOut, ThreadDies, Mine, allVars, serverVars

LEMMA LossInitOK == ServerInit => LossInv
<1> SUFFICES ASSUME ServerInit, NEW u \in Users PROVE LossOK(0, handled[u])
  BY DEF ServerInit, LossInv
<1>1. Whole(0) = 0 /\ Reach \in Nat \ {0}
  BY WholeFacts
<1>2. ~(0 > 0) /\ \A k \in Nat : ~(2 * (k + Reach) <= 0)
  BY <1>1
<1> QED BY <1>1, <1>2 DEF LossOK

\* Users that do not wait for the server lose messages.  As long as recv
\* returns all that has arrived, up to HEADER bytes, a thread understands one
\* of any (MaxChunk + 1) \div 2 messages in a row.
THEOREM LossesBounded == ServerSpec => []LossBounded
<1>1. CASE ShortReads
  <2>1. LossBounded
    BY <1>1 DEF LossBounded
  <2> QED BY <2>1, PTL
<1>2. CASE ~ShortReads
  <2>1. ServerInv /\ LossInv /\ [ServerNext]_allVars => LossInv'
    BY <1>2, LossStep DEF ServerInv
  <2>2. ServerInv /\ LossInv => LossBounded
    <3> SUFFICES ASSUME ServerTypes, LossInv, NEW u \in Users, NEW k \in 0 .. Len(log[u]),
                        2 * (k + Reach) <= read[u]
                 PROVE  \E j \in k .. k + Reach - 1 : Listed(handled[u], j)
      BY DEF LossBounded, ServerInv
    <3>1. k \in Nat /\ Reach \in Nat
      BY WholeFacts DEF ServerTypes, TypeOK
    <3>2. PICK j \in Nat : k <= j /\ j < k + Reach /\ Listed(handled[u], j)
      BY <3>1 DEF LossInv, LossOK
    <3>3. j \in k .. k + Reach - 1
      BY <3>1, <3>2
    <3> QED BY <3>2, <3>3
  <2> QED BY <2>1, <2>2, ServerInitOK, ServerStep, LossInitOK, PTL DEF ServerSpec
<1> QED BY <1>1, <1>2

-----------------------------------------------------------------------------
(* Scripts that wait until their calls are mined. *)

Known(k, t) == \E j \in 1 .. Len(k.idsTransaction) : k.idsTransaction[j] = t

\* A contract knows the transactions whose announcements have been mined.
Recorded ==
    \A i \in 1 .. Len(chain) :
        chain[i].msg.kind = "Transaction" =>
            Known(contract[chain[i].address], chain[i].msg.trans)

\* A pending call is the message that its user's thread waits for.
Awaited ==
    \A i \in 1 .. Len(pool) :
        LET u == pool[i].user IN
        /\ pc[u] = "query" /\ Len(handled[u]) > 0
        /\ handled[u][Len(handled[u])] = pool[i].number

LEMMA KnownStays ==
    ASSUME ServerTypes, NEW x \in CallType
    PROVE  /\ \A c \in Cars, t \in Nat : Known(contract[c], t) => Known(Executed(x)[c], t)
           /\ x.msg.kind = "Transaction" => Known(Executed(x)[x.address], x.msg.trans)
           /\ x.msg.kind # "Transaction" /\ Known(contract[x.address], x.msg.trans) =>
                x.msg.trans \in Executed(x)[x.address].ended
<1> DEFINE k == contract[x.address]
           n == Executed(x)[x.address]
           s == x.msg.trans
<1>1. /\ x.address \in Cars /\ x.user \in Users /\ s \in Nat /\ x.msg.car \in Cars
  BY DEF CallType, Messages
<1>2. /\ k \in Storage /\ n \in Storage
      /\ \A c \in Cars \ {x.address} : Executed(x)[c] = contract[c]
      /\ x.msg.kind = "Transaction" => n = AC!AddTransactionInfo(k, s, x.user, x.msg.car)
      /\ x.msg.kind # "Transaction" => n = AC!AddEndHour(k, s)
  BY ExecutedFacts
<1> HIDE DEF k, n, s
<1>3. k.idsTransaction \in Seq(Nat)
  BY <1>2 DEF Storage
<1>4. CASE x.msg.kind = "Transaction"
  <2>1. n.idsTransaction = Append(k.idsTransaction, s)
    <3>1. AC!AddTransactionInfo(k, s, x.user, x.msg.car).idsTransaction
            = Append(k.idsTransaction, s)
      BY <1>1, <1>2 DEF AC!AddTransactionInfo, Storage
    <3> QED BY <1>2, <1>4, <3>1
  <2> DEFINE a == k.idsTransaction
             l == Len(a)
  <2>2. l \in Nat /\ Len(n.idsTransaction) = l + 1 /\ n.idsTransaction[l + 1] = s
        /\ \A j \in 1 .. l : n.idsTransaction[j] = a[j] /\ j \in 1 .. l + 1
    BY <1>1, <1>3, <2>1
  <2>3. Known(n, s) /\ \A t \in Nat : Known(k, t) => Known(n, t)
    BY <2>2 DEF Known
  <2> QED BY <1>2, <1>4, <2>3 DEF k, n, s
<1>5. CASE x.msg.kind # "Transaction"
  <2>1. n.idsTransaction = k.idsTransaction /\ (Known(k, s) => s \in n.ended)
    BY <1>1, <1>2, <1>5, AddEndHourFacts DEF Known
  <2>2. \A t \in Nat : Known(k, t) => Known(n, t)
    BY <2>1 DEF Known
  <2> QED BY <1>2, <1>5, <2>1, <2>2 DEF k, n, s
<1> QED BY <1>4, <1>5

LEMMA RecordedStep ==
    ASSUME ServerTypes, Recorded, [ServerNext]_allVars
    PROVE  Recorded'
<1>1. CASE UNCHANGED <<chain, contract>>
  BY <1>1 DEF Recorded
<1>2. CASE Mine
  <2> DEFINE n == Len(chain)
  <2>1. PICK i \in 1 .. Len(pool) :
            /\ pool[i] \in CallType /\ chain' = Append(chain, pool[i])
            /\ contract' = Executed(pool[i])
    BY <1>2, MineFacts
  <2> DEFINE x == pool[i]
  <2>2. chain \in Seq(CallType) /\ n \in Nat
    BY DEF ServerTypes
  <2>3. Len(chain') = n + 1 /\ chain'[n + 1] = x /\ \A j \in 1 .. n : chain'[j] = chain[j]
    BY <2>1, <2>2
  <2>4. /\ \A c \in Cars, t \in Nat : Known(contract[c], t) => Known(contract'[c], t)
        /\ x.msg.kind = "Transaction" => Known(contract'[x.address], x.msg.trans)
    BY <2>1, KnownStays
  <2>5. \A j \in 1 .. n : chain[j].address \in Cars /\ chain[j].msg.trans \in Nat
    <3>1. \A j \in 1 .. n : chain[j] \in CallType
      BY <2>2
    <3> QED BY <3>1 DEF CallType, Messages
  <2>6. \A j \in 1 .. n : chain[j].msg.kind = "Transaction" =>
            Known(contract[chain[j].address], chain[j].msg.trans)
    BY DEF Recorded
  <2> HIDE DEF n, x
  <2>7. ASSUME NEW j \in 1 .. n + 1, chain'[j].msg.kind = "Transaction"
        PROVE  Known(contract'[chain'[j].address], chain'[j].msg.trans)
    <3>1. CASE j \in 1 .. n
      BY <2>3, <2>4, <2>5, <2>6, <2>7, <3>1
    <3>2. CASE j = n + 1
      BY <2>3, <2>4, <2>7, <3>2
    <3> QED BY <2>2, <3>1, <3>2 DEF n
  <2> QED BY <2>3, <2>7 DEF Recorded, Known
<1> QED BY <1>1, <1>2, StepKinds DEF ledgerVars, ExecQuery

LEMMA WellFormedKept ==
    ASSUME ServerTypes, RidesWellFormed, [ServerNext]_allVars
    PROVE  RidesWellFormed'
<1>1. CASE log' = log
  BY <1>1 DEF RidesWellFormed, EndsAnnounced, EndedOnce, OwnTransactions
<1>2. ASSUME NEW u \in Users, UserSends(u) PROVE RidesWellFormed'
  BY <1>2, UserSendsFacts, WellFormedStep DEF ServerTypes
<1> QED BY <1>1, <1>2
        DEF ServerNext, CarThread, CarCreation, CarCreationTorn, CreateEnvCar,
            CreateEnvCarFails, UserThread, RecvNothing, CreateEnvUser, ExecQuery,
            ExecQueryFails, QueryTimesOut, ThreadDies, Mine, allVars

LEMMA AwaitedStep ==
    ASSUME ~MayTimeOut, ServerTypes, OrderOK, Awaited, [ServerNext]_allVars
    PROVE  Awaited'
<1>1. CASE UNCHANGED <<pool, pc, handled>>
  BY <1>1 DEF Awaited
<1>2. /\ pool \in Seq(CallType) /\ Len(pool) \in Nat
      /\ \A i \in 1 .. Len(pool) : pool[i] \in CallType /\ pool[i].user \in Users
                                   /\ pool[i].number \in Nat
  <2>1. pool \in Seq(CallType) /\ Len(pool) \in Nat
    BY DEF ServerTypes
  <2>2. \A i \in 1 .. Len(pool) : pool[i] \in CallType
    BY <2>1
  <2> QED BY <2>1, <2>2 DEF CallType
\* A step of a thread that does not wait leaves the pending calls alone.
<1>3. ASSUME NEW u \in Users, pc[u] # "query",
             \A v \in Users \ {u} : pc'[v] = pc[v] /\ handled'[v] = handled[v],
             NEW i \in 1 .. Len(pool)
      PROVE  LET v == pool[i].user IN
             /\ pc'[v] = "query" /\ Len(handled'[v]) > 0
             /\ handled'[v][Len(handled'[v])] = pool[i].number
  <2>1. pool[i].user \in Users \ {u}
    BY <1>2, <1>3 DEF Awaited
  <2> QED BY <1>3, <2>1 DEF Awaited
<1>4. ASSUME NEW u \in Users, Recv(u), pool' = pool, \A v \in Users \ {u} : pc'[v] = pc[v]
      PROVE  Awaited'
  <2>1. pc[u] # "query" /\ \A v \in Users \ {u} : handled'[v] = handled[v]
    BY <1>4, RecvFacts DEF Recv
  <2> QED BY <1>3, <1>4, <2>1 DEF Awaited
<1>5. ASSUME NEW u \in Users, CreateEnvUser(u) \/ ExecQueryFails(u) \/ ThreadDies(u)
      PROVE  Awaited'
  <2>1. Recv(u) /\ pool' = pool /\ \A v \in Users \ {u} : pc'[v] = pc[v]
    BY <1>5 DEF CreateEnvUser, ExecQueryFails, ThreadDies, ledgerVars, ServerTypes
  <2> QED BY <1>4, <2>1
<1>6. ASSUME NEW u \in Users, ExecQuery(u) PROVE Awaited'
  <2> DEFINE x == Call(u)
             n == Len(pool)
             l == Len(handled[u])
  <2>1. /\ Recv(u) /\ x \in CallType /\ x.user = u /\ x.number = FirstWhole(u)
        /\ pool' = Append(pool, x) /\ pc' = [pc EXCEPT ![u] = "query"]
    BY <1>6, ExecQueryFacts
  <2>2. /\ pc[u] # "query" /\ \A v \in Users \ {u} : handled'[v] = handled[v]
        /\ handled'[u] = Append(handled[u], FirstWhole(u)) /\ handled[u] \in Seq(Nat)
        /\ pc'[u] = "query" /\ \A v \in Users \ {u} : pc'[v] = pc[v]
    BY <2>1, RecvFacts DEF Recv, ServerTypes
  <2> HIDE DEF x
  <2>3. l \in Nat /\ Len(handled'[u]) = l + 1 /\ handled'[u][l + 1] = x.number
    BY <2>1, <2>2
  <2>4. Len(handled'[u]) > 0 /\ handled'[u][Len(handled'[u])] = x.number
    BY <2>3
  <2>5. Len(pool') = n + 1 /\ pool'[n + 1] = x /\ \A i \in 1 .. n : pool'[i] = pool[i]
    BY <1>2, <2>1
  <2> HIDE DEF n, l
  <2>6. \A i \in 1 .. n + 1 : i = n + 1 \/ i \in 1 .. n
    BY <1>2 DEF n
  <2>7. ASSUME NEW i \in 1 .. n + 1
        PROVE  LET v == pool'[i].user IN
               /\ pc'[v] = "query" /\ Len(handled'[v]) > 0
               /\ handled'[v][Len(handled'[v])] = pool'[i].number
    <3>1. CASE i = n + 1
      BY <2>1, <2>2, <2>4, <2>5, <3>1
    <3>2. CASE i \in 1 .. n
      <4>1. pool'[i] = pool[i] /\ i \in 1 .. Len(pool)
        BY <2>5, <3>2 DEF n
      <4> QED BY <1>3, <2>2, <4>1
    <3> QED BY <2>6, <3>1, <3>2
  <2> QED BY <2>5, <2>7 DEF Awaited
<1>7. CASE Mine
  <2>1. PICK i \in 1 .. Len(pool) :
            /\ Len(pool') = Len(pool) - 1
            /\ \A j \in 1 .. Len(pool') : pool'[j] = IF j < i THEN pool[j] ELSE pool[j + 1]
            /\ pc' = [u \in Users |-> IF Waits(u, pool[i]) THEN "recv" ELSE pc[u]]
            /\ handled' = handled
    BY <1>7, MineFacts
  <2>2. ASSUME NEW j \in 1 .. Len(pool')
        PROVE  \E k \in 1 .. Len(pool) : k # i /\ pool'[j] = pool[k]
    <3>1. CASE j < i
      BY <1>2, <2>1, <3>1
    <3>2. CASE ~(j < i)
      <4>1. j + 1 \in 1 .. Len(pool) /\ j + 1 # i /\ pool'[j] = pool[j + 1]
        BY <1>2, <2>1, <3>2
      <4> QED BY <4>1
    <3> QED BY <3>1, <3>2
  <2>3. ASSUME NEW k \in 1 .. Len(pool), k # i PROVE pc'[pool[k].user] = "query"
    <3>1. pool[k].number # pool[i].number \/ pool[k].user # pool[i].user
      <4>1. k < i \/ i < k
        BY <1>2, <2>3
      <4> QED BY <1>2, <4>1 DEF OrderOK
    <3>2. ~Waits(pool[k].user, pool[i])
      BY <3>1 DEF Waits, Awaited
    <3>3. pc[pool[k].user] = "query" /\ pool[k].user \in Users
      BY <1>2 DEF Awaited
    <3> QED BY <2>1, <3>2, <3>3
  <2>4. ASSUME NEW j \in 1 .. Len(pool')
        PROVE  LET u == pool'[j].user IN
               /\ pc'[u] = "query" /\ Len(handled'[u]) > 0
               /\ handled'[u][Len(handled'[u])] = pool'[j].number
    <3>1. PICK k \in 1 .. Len(pool) : k # i /\ pool'[j] = pool[k]
      BY <2>2
    <3> QED BY <2>1, <2>3, <3>1 DEF Awaited
  <2> QED BY <2>4 DEF Awaited
<1> QED BY <1>1, <1>5, <1>6, <1>7
        DEF ServerNext, CarThread, CarCreation, CarCreationTorn, CreateEnvCar,
            CreateEnvCarFails, UserSends, UserThread, RecvNothing, QueryTimesOut,
            allVars, serverVars, ledgerVars

AwaitInv == ServerInv /\ RidesWellFormed /\ Recorded /\ Awaited

LEMMA AwaitInitOK == ServerInit => AwaitInv
<1> SUFFICES ASSUME ServerInit PROVE RidesWellFormed /\ Recorded /\ Awaited
  BY ServerInitOK DEF AwaitInv
<1>1. chain = << >> /\ pool = << >> /\ \A u \in Users : log[u] = << >>
  BY DEF ServerInit, Init
<1>2. Len(<< >>) = 0 /\ 1 .. 0 = {}
  OBVIOUS
<1>3. RidesWellFormed
  BY <1>1, <1>2 DEF RidesWellFormed, EndsAnnounced, EndedOnce, OwnTransactions
<1>4. Recorded /\ Awaited
  BY <1>1, <1>2 DEF Recorded, Awaited
<1> QED BY <1>3, <1>4

LEMMA AwaitStep == ~MayTimeOut /\ AwaitInv /\ [ServerNext]_allVars => AwaitInv'
<1> SUFFICES ASSUME ~MayTimeOut, AwaitInv, [ServerNext]_allVars PROVE AwaitInv'
  OBVIOUS
<1>1. ServerTypes /\ OrderOK /\ RidesWellFormed /\ Recorded /\ Awaited
  BY DEF AwaitInv, ServerInv
<1>2. ServerInv'
  BY ServerStep DEF AwaitInv
<1>3. RidesWellFormed' /\ Recorded' /\ Awaited'
  BY <1>1, WellFormedKept, RecordedStep, AwaitedStep
<1> QED BY <1>2, <1>3 DEF AwaitInv

\* When an end is mined, the announcement before it, if it was submitted, has
\* been mined, and in the same contract.
LEMMA EndFinds ==
    ASSUME AwaitInv, NEW i \in 1 .. Len(pool), pool[i].msg.kind = "addEndHour",
           NEW y \in Calls, y.user = pool[i].user, y.number = pool[i].number - 1
    PROVE  Known(contract[pool[i].address], pool[i].msg.trans)
<1> DEFINE x == pool[i]
           u == x.user
           k == x.number
<1>1. ServerTypes /\ CallsOK /\ OrderOK /\ Awaited /\ Recorded /\ EndsAnnounced
  BY DEF AwaitInv, ServerInv, RidesWellFormed
<1>2. x \in CallType /\ CallOK(x)
  BY <1>1 DEF ServerTypes, CallsOK
<1>3. u \in Users /\ k \in Nat
  BY <1>2 DEF CallType
<1>4. k \in 1 .. Len(log[u]) /\ x.msg = log[u][k]
      /\ x.address = dockerEnvCarList[x.msg.car + 1]
  BY <1>2 DEF CallOK
<1>5. log[u][k - 1] = Transaction(x.msg.trans, x.msg.car)
  BY <1>1, <1>3, <1>4 DEF EndsAnnounced
<1>6. ASSUME NEW j \in 1 .. Len(pool), pool[j] = y PROVE FALSE
  <2>1. pool[j].number = pool[i].number
    BY <1>1, <1>6 DEF Awaited
  <2> QED BY <1>3, <1>6, <2>1
<1>7. DOMAIN pool = 1 .. Len(pool) /\ DOMAIN chain = 1 .. Len(chain)
  BY <1>1 DEF ServerTypes
<1>8. PICK j \in 1 .. Len(chain) : chain[j] = y
  BY <1>6, <1>7 DEF Calls
<1>9. CallOK(chain[j])
  BY <1>1 DEF CallsOK
<1>10. /\ chain[j].msg = Transaction(x.msg.trans, x.msg.car)
       /\ chain[j].address = dockerEnvCarList[chain[j].msg.car + 1]
  BY <1>5, <1>8, <1>9 DEF CallOK
<1> HIDE DEF x, u, k
<1>11. /\ chain[j].msg.kind = "Transaction" /\ chain[j].msg.trans = x.msg.trans
       /\ chain[j].msg.car = x.msg.car
  BY <1>10 DEF Transaction
<1>12. chain[j].address = x.address
  BY <1>4, <1>10, <1>11
<1> QED BY <1>1, <1>11, <1>12 DEF Recorded, x

\* If the scripts wait until their calls are mined, addEndHour is ignored only
\* if the announcement before it was never submitted, whatever recv merged,
\* tore or lost and whichever scripts failed: the end, which comes from another
\* account and could overtake, is submitted after the announcement is mined,
\* and to the same contract.
THEOREM EndsAccepted == ~MayTimeOut => (ServerSpec => NoEndIgnored)
<1> SUFFICES ASSUME ~MayTimeOut PROVE ServerSpec => NoEndIgnored
  OBVIOUS
<1> DEFINE Accepted ==
        \A i \in DOMAIN chain' \ DOMAIN chain :
            /\ chain'[i].msg.kind = "addEndHour"
            /\ \E y \in Calls : y.user = chain'[i].user /\ y.number = chain'[i].number - 1
            => chain'[i].msg.trans \in contract'[chain'[i].address].ended
<1>1. AwaitInv /\ [ServerNext]_allVars => [Accepted]_allVars
  <2> SUFFICES ASSUME AwaitInv, [ServerNext]_allVars PROVE Accepted
    OBVIOUS
  <2>1. ServerTypes
    BY DEF AwaitInv, ServerInv
  <2>2. CASE chain' = chain
    BY <2>2
  <2>3. CASE Mine
    <3>1. PICK i \in 1 .. Len(pool) :
            /\ pool[i] \in CallType /\ chain' = Append(chain, pool[i])
            /\ contract' = Executed(pool[i])
      BY <2>1, <2>3, MineFacts
    <3> DEFINE x == pool[i]
               n == Len(chain)
    <3>2. chain \in Seq(CallType) /\ n \in Nat
      BY <2>1 DEF ServerTypes
    <3>3. DOMAIN chain = 1 .. n /\ DOMAIN chain' = 1 .. n + 1 /\ chain'[n + 1] = x
      BY <3>1, <3>2
    <3> HIDE DEF x, n
    <3>4. \A j \in DOMAIN chain' \ DOMAIN chain : chain'[j] = x
      <4>1. \A j \in (1 .. n + 1) \ (1 .. n) : j = n + 1
        BY <3>2
      <4> QED BY <3>3, <4>1
    <3>5. ASSUME x.msg.kind = "addEndHour", NEW y \in Calls, y.user = x.user,
                 y.number = x.number - 1
          PROVE  x.msg.trans \in contract'[x.address].ended
      <4>1. x \in CallType /\ contract' = Executed(x)
        BY <3>1 DEF x
      <4>2. Known(contract[x.address], x.msg.trans)
        BY <3>5, EndFinds DEF x
      <4> QED BY <2>1, <3>5, <4>1, <4>2, KnownStays
    <3> QED BY <3>4, <3>5
  <2> QED BY <2>1, <2>2, <2>3, StepKinds DEF ledgerVars, ExecQuery
<1> HIDE DEF Accepted
<1>2. ServerSpec => [][Accepted]_allVars
  BY <1>1, AwaitInitOK, AwaitStep, PTL DEF ServerSpec
<1> QED BY <1>2 DEF Accepted, NoEndIgnored
=============================================================================
