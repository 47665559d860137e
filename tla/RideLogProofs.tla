---------------------------- MODULE RideLogProofs ----------------------------
(***************************************************************************)
(* A sequence of rides guarantees RidesWellFormed, for any users and cars. *)
(***************************************************************************)
EXTENDS RideLog, TLAPS

TypeOK == log \in [Users -> Seq(Messages)]

\* What a step of the abstract specification does: one message is appended to
\* one user's log.  It is an end hour or an announcement of the open ride, or
\* the announcement of a new one.
Appends(u, m) ==
    /\ m \in Messages
    /\ log' = [log EXCEPT ![u] = Append(@, m)]
    /\ \/ Open(u) /\ m.trans = Latest(u).trans
       \/ Unused(m.trans) /\ m.kind = "Transaction"
    /\ m.kind = "addEndHour" => Open(u) /\ m.car = Latest(u).car

\* Every step of RideLog appends one such message.
LEMMA StepAppends ==
    ASSUME TypeOK, Step(Nat)
    PROVE  \E u \in Users : \E m \in Messages : Appends(u, m)
<1>1. PICK u \in Users : End(u) \/ \E t \in Nat, c \in Cars : Announce(u, t, c)
  BY DEF Step
<1>2. CASE End(u)
  <2>1. Latest(u) \in Messages
    BY <1>2 DEF End, Open, Latest, TypeOK
  <2>2. AddEndHour(Latest(u).trans, Latest(u).car) \in Messages
    BY <2>1 DEF AddEndHour, Messages
  <2>3. Appends(u, AddEndHour(Latest(u).trans, Latest(u).car))
    BY <1>2, <2>2 DEF End, Appends, AddEndHour
  <2> QED BY <2>2, <2>3
<1>3. CASE \E t \in Nat, c \in Cars : Announce(u, t, c)
  <2>1. PICK t \in Nat, c \in Cars : Announce(u, t, c)
    BY <1>3
  <2>2. Transaction(t, c) \in Messages
    BY DEF Transaction, Messages
  <2>3. Appends(u, Transaction(t, c))
    BY <2>1, <2>2 DEF Announce, Appends, Transaction
  <2> QED BY <2>2, <2>3
<1> QED BY <1>1, <1>2, <1>3

\* After such a step the other users' logs are the same and u's log is one
\* message longer.
LEMMA AppendsFacts ==
    ASSUME TypeOK, NEW u \in Users, NEW m \in Messages, Appends(u, m)
    PROVE  /\ TypeOK'
           /\ \A v \in Users \ {u} : log'[v] = log[v]
           /\ Len(log[u]) \in Nat
           /\ Len(log'[u]) = Len(log[u]) + 1
           /\ \A i \in 1 .. Len(log[u]) : log'[u][i] = log[u][i]
           /\ log'[u][Len(log[u]) + 1] = m
<1>1. /\ log[u] \in Seq(Messages)
      /\ log' = [log EXCEPT ![u] = Append(log[u], m)]
  BY DEF TypeOK, Appends
<1>2. log'[u] = Append(log[u], m) /\ Append(log[u], m) \in Seq(Messages)
  BY <1>1 DEF TypeOK
<1>3. TypeOK'
  BY <1>1, <1>2 DEF TypeOK
<1>4. \A v \in Users \ {u} : log'[v] = log[v]
  BY <1>1 DEF TypeOK
<1> QED BY <1>1, <1>2, <1>3, <1>4

\* The guarantee is inductive.
LEMMA WellFormedStep ==
    ASSUME TypeOK, RidesWellFormed, NEW u \in Users, NEW m \in Messages, Appends(u, m)
    PROVE  RidesWellFormed'
<1> DEFINE n == Len(log[u])
<1>1. /\ \A v \in Users \ {u} : log'[v] = log[v]
      /\ n \in Nat
      /\ Len(log'[u]) = n + 1
      /\ \A i \in 1 .. n : log'[u][i] = log[u][i]
      /\ log'[u][n + 1] = m
  BY AppendsFacts
<1>2. m.kind = "addEndHour" => n > 0 /\ log[u][n] = Transaction(m.trans, m.car)
  <2> SUFFICES ASSUME m.kind = "addEndHour"
               PROVE  n > 0 /\ log[u][n] = Transaction(m.trans, m.car)
    OBVIOUS
  <2>1. Open(u) /\ m.trans = Latest(u).trans /\ m.car = Latest(u).car
    BY DEF Appends
  <2>2. n > 0 /\ log[u][n] \in Messages /\ log[u][n].kind = "Transaction"
    BY <2>1 DEF Open, Latest, TypeOK
  <2> QED BY <2>1, <2>2 DEF Latest, Messages, Transaction
<1>3. EndsAnnounced'
  <2> SUFFICES ASSUME NEW v \in Users, NEW i \in 1 .. Len(log'[v]),
                      log'[v][i].kind = "addEndHour"
               PROVE  i > 1 /\ log'[v][i - 1] = Transaction(log'[v][i].trans, log'[v][i].car)
    BY DEF EndsAnnounced, Transaction
  <2>1. CASE v # u
    BY <1>1, <2>1 DEF RidesWellFormed, EndsAnnounced
  <2>2. CASE v = u /\ i <= n
    <3>1. i \in 1 .. n /\ log'[u][i] = log[u][i]
      BY <1>1, <2>2
    <3>2. i > 1 /\ log[u][i - 1] = Transaction(log[u][i].trans, log[u][i].car)
      BY <3>1, <2>2 DEF RidesWellFormed, EndsAnnounced
    <3>3. i - 1 \in 1 .. n
      BY <3>1, <3>2
    <3> QED BY <1>1, <2>2, <3>1, <3>2, <3>3
  <2>3. CASE v = u /\ i = n + 1
    BY <1>1, <1>2, <2>3
  <2> QED BY <1>1, <2>1, <2>2, <2>3
<1>4. \A i \in 1 .. n : log[u][i].kind = "addEndHour" => log[u][i].trans # m.trans
  <2> SUFFICES ASSUME NEW i \in 1 .. n, log[u][i].kind = "addEndHour"
               PROVE  log[u][i].trans # m.trans
    OBVIOUS
  <2>1. CASE Open(u) /\ m.trans = Latest(u).trans
    <3>1. n \in 1 .. n /\ i # n
      BY <1>1, <2>1 DEF Open, Latest
    <3> QED BY <1>1, <2>1, <3>1 DEF RidesWellFormed, EndedOnce, Latest
  <2>2. CASE Unused(m.trans)
    BY <2>2 DEF Unused
  <2> QED BY <2>1, <2>2 DEF Appends
<1>5. EndedOnce'
  <2> SUFFICES ASSUME NEW v \in Users, NEW i \in 1 .. Len(log'[v]), NEW j \in 1 .. Len(log'[v]),
                      i < j, log'[v][i].kind = "addEndHour"
               PROVE  log'[v][i].trans # log'[v][j].trans
    BY DEF EndedOnce
  <2>1. CASE v # u
    BY <1>1, <2>1 DEF RidesWellFormed, EndedOnce
  <2>2. CASE v = u /\ j <= n
    <3>1. i \in 1 .. n /\ j \in 1 .. n
      BY <1>1, <2>2
    <3> QED BY <1>1, <2>2, <3>1 DEF RidesWellFormed, EndedOnce
  <2>3. CASE v = u /\ j = n + 1
    <3>1. i \in 1 .. n
      BY <1>1, <2>3
    <3> QED BY <1>1, <1>4, <2>3, <3>1
  <2> QED BY <1>1, <2>1, <2>2, <2>3
<1>6. \A v \in Users \ {u} : \A j \in 1 .. Len(log[v]) : log[v][j].trans # m.trans
  <2> SUFFICES ASSUME NEW v \in Users \ {u}, NEW j \in 1 .. Len(log[v])
               PROVE  log[v][j].trans # m.trans
    OBVIOUS
  <2>1. CASE Open(u) /\ m.trans = Latest(u).trans
    <3>1. n \in 1 .. n
      BY <1>1, <2>1 DEF Open
    <3> QED BY <2>1, <3>1 DEF RidesWellFormed, OwnTransactions, Latest
  <2>2. CASE Unused(m.trans)
    BY <2>2 DEF Unused
  <2> QED BY <2>1, <2>2 DEF Appends
<1>7. OwnTransactions'
  <2> SUFFICES ASSUME NEW v \in Users, NEW w \in Users,
                      NEW i \in 1 .. Len(log'[v]), NEW j \in 1 .. Len(log'[w]), v # w
               PROVE  log'[v][i].trans # log'[w][j].trans
    BY DEF OwnTransactions
  <2>1. CASE v # u /\ w # u
    BY <1>1, <2>1 DEF RidesWellFormed, OwnTransactions
  <2>2. CASE v = u
    <3>1. log'[w] = log[w] /\ j \in 1 .. Len(log[w])
      BY <1>1, <2>2
    <3>2. CASE i <= n
      <4>1. i \in 1 .. n
        BY <1>1, <3>2
      <4> QED BY <1>1, <2>2, <3>1, <4>1 DEF RidesWellFormed, OwnTransactions
    <3>3. CASE i = n + 1
      BY <1>1, <1>6, <2>2, <3>1, <3>3
    <3> QED BY <1>1, <2>2, <3>2, <3>3
  <2>3. CASE w = u
    <3>1. log'[v] = log[v] /\ i \in 1 .. Len(log[v])
      BY <1>1, <2>3
    <3>2. CASE j <= n
      <4>1. j \in 1 .. n
        BY <1>1, <3>2
      <4> QED BY <1>1, <2>3, <3>1, <4>1 DEF RidesWellFormed, OwnTransactions
    <3>3. CASE j = n + 1
      BY <1>1, <1>6, <2>3, <3>1, <3>3
    <3> QED BY <1>1, <2>3, <3>2, <3>3
  <2> QED BY <2>1, <2>2, <2>3
<1> QED BY <1>3, <1>5, <1>7 DEF RidesWellFormed

\* Every behaviour of RideLog is well formed: the server may rely on the order
\* of a user's messages and on the numbers of their transactions.
THEOREM LogWellFormed == Spec => []RidesWellFormed
<1>1. Init => TypeOK /\ RidesWellFormed
  BY DEF Init, TypeOK, RidesWellFormed, EndsAnnounced, EndedOnce, OwnTransactions
<1>2. TypeOK /\ RidesWellFormed /\ [Step(Nat)]_log => TypeOK' /\ RidesWellFormed'
  <2> SUFFICES ASSUME TypeOK, RidesWellFormed, [Step(Nat)]_log
               PROVE  TypeOK' /\ RidesWellFormed'
    OBVIOUS
  <2>1. CASE Step(Nat)
    <3>1. PICK u \in Users, m \in Messages : Appends(u, m)
      BY <2>1, StepAppends
    <3> QED BY <3>1, AppendsFacts, WellFormedStep
  <2>2. CASE UNCHANGED log
    BY <2>2 DEF TypeOK, RidesWellFormed, EndsAnnounced, EndedOnce, OwnTransactions, Transaction
  <2> QED BY <2>1, <2>2
<1> QED BY <1>1, <1>2, PTL DEF Spec
=============================================================================
