------------------------- MODULE ClientLoopProofs -------------------------
(* Proofs about ClientLoop, for any number of clients and fd numbers.        *)
EXTENDS ClientLoop, FiniteSetTheorems, SequenceTheorems, WellFoundedInduction,
        TLAPS

(* A client that exists has an fd of its own; m_fd_event stays behind when a *)
(* refused connection gives it a new one.  A client is where its connection  *)
(* has got to.                                                               *)
FdsOwned ==
    /\ \A c \in live :
          /\ fd[c] \in Fds /\ ev[c] \in Fds
          /\ step[c] # "over" \/ state[c] # "notConnected" => ev[c] = fd[c]
    /\ \A c, d \in live : fd[c] = fd[d] => c = d
StepsFit ==
    \A c \in Clients :
        /\ fd[c] = NoFd => step[c] = "idle"
        /\ step[c] \in {"idle", "connecting"} =>
              state[c] = "notConnected" /\ c \notin answered
        /\ step[c] \in {"writing", "reading"} => state[c] = "connected"
        /\ sock[c] = "replied" => step[c] = "reading"

(* Only the fd of a client that waits or is connected is registered, and     *)
(* m_listen_fds has it.                                                      *)
Registered ==
    /\ DOMAIN epoll \subseteq listenFds
    /\ \A f \in DOMAIN epoll : \E c \in live : fd[c] = f
    /\ \A c \in live : fd[c] \in DOMAIN epoll =>
          step[c] = "connecting" \/ state[c] = "connected"

(* The callbacks of its fdEvent are those it asked for.                      *)
CallbacksOwn ==
    \A c \in live :
        /\ step[c] = "connecting" => writeCb[fd[c]] = <<"connect", c>>
        /\ state[c] = "connected" => writeCb[fd[c]] = <<"write", c>>
        /\ state[c] = "connected" /\ step[c] # "writing" => readCb[fd[c]] = c

(* A queued connect callback is the only one of its client, which waits for  *)
(* it if it still exists.                                                    *)
ConnectTasks ==
    \A i \in 1 .. Len(tasks) : \A c \in Clients :
        tasks[i] = <<"connect", c>> =>
            /\ fd[c] # NoFd
            /\ c \in live => step[c] = "connecting"
            /\ \A j \in 1 .. Len(tasks) : tasks[j] = <<"connect", c>> => j = i

IInv ==
    /\ TypeOK /\ FdsOwned /\ StepsFit /\ Registered /\ CallbacksOwn
    /\ ConnectTasks /\ WaitsQuietly

(* Every set of numbers that is not empty has a least element.               *)
LEMMA LeastNumber ==
  ASSUME NEW T \in SUBSET Nat, T # {}
  PROVE  \E n \in T : \A k \in T : n <= k
<1>1. PICK n \in T : \A k \in T : ~(<<k, n>> \in OpToRel(<, Nat))
  BY WFMin, NatLessThanWellFounded, Zenon
<1>2. ASSUME NEW k \in T PROVE ~(k < n)
  <2>1. k \in Nat /\ n \in Nat
    OBVIOUS
  <2>2. ASSUME k < n PROVE <<k, n>> \in OpToRel(<, Nat)
    BY <2>1, <2>2 DEF OpToRel
  <2> QED
    BY <1>1, <2>2, Zenon
<1>3. \A k \in T : n <= k
  <2>1. \A k \in T : k \in Nat /\ n \in Nat /\ ~(k < n)
    BY <1>2, Zenon
  <2> QED
    BY <2>1, SMT
<1> QED
  BY <1>3, Zenon


(* The function by which FlattenSeq is computed: f[i] is the concatenation   *)
(* of the first i sequences.                                                 *)
Concats(q, n, f) ==
    f = [i \in 1 .. n |-> IF i = 1 THEN q[i] ELSE f[i - 1] \o q[i]]

LEMMA ConcatsExist ==
  ASSUME NEW S, NEW q \in Seq(Seq(S)), NEW n \in 1 .. Len(q)
  PROVE  \E f \in [1 .. n -> Seq(S)] : Concats(q, n, f)
<1> DEFINE Has(k) == \E f \in [1 .. k -> Seq(S)] : Concats(q, k, f)
           T == {k \in 1 .. Len(q) : ~Has(k)}
<1>1. \A i \in 1 .. Len(q) : q[i] \in Seq(S)
  OBVIOUS
<1>2. SUFFICES ASSUME T # {} PROVE FALSE
  BY Zenon
<1>3. PICK k \in T : \A j \in T : k <= j
  <2> HIDE DEF Has
  <2>1. T \in SUBSET Nat
    OBVIOUS
  <2> HIDE DEF T
  <2> QED
    BY <1>2, <2>1, LeastNumber, Zenon
<1>4. k \in 1 .. Len(q) /\ Len(q) \in Nat
  OBVIOUS
<1>5. CASE k = 1
  <2> DEFINE g == [i \in 1 .. 1 |-> q[i]]
  <2>1. g \in [1 .. k -> Seq(S)] /\ Concats(q, k, g)
    BY <1>1, <1>4, <1>5 DEF Concats
  <2> QED
    BY <2>1, Zenon
<1>6. CASE k # 1
  <2>1. k - 1 \in 1 .. Len(q) /\ ~(k <= k - 1)
    BY <1>4, <1>6
  <2>2. Has(k - 1)
    BY <1>3, <2>1
  <2>3. PICK f \in [1 .. k - 1 -> Seq(S)] : Concats(q, k - 1, f)
    BY <2>2
  <2> DEFINE g == [i \in 1 .. k |-> IF i = k THEN f[k - 1] \o q[k] ELSE f[i]]
  <2>4. f[k - 1] \o q[k] \in Seq(S)
    BY <1>1, <1>4, <2>1
  <2>5. \A i \in 1 .. k : i # k => i \in 1 .. k - 1
    BY <1>4
  <2>6. g \in [1 .. k -> Seq(S)]
    BY <2>4, <2>5
  <2>7. \A i \in 1 .. k - 1 : f[i] = IF i = 1 THEN q[i] ELSE f[i - 1] \o q[i]
    BY <2>3 DEF Concats
  <2>8. ASSUME NEW i \in 1 .. k
        PROVE  g[i] = IF i = 1 THEN q[i] ELSE g[i - 1] \o q[i]
    <3>1. CASE i = k
      <4>1. k - 1 \in 1 .. k /\ k - 1 # k
        BY <1>4, <2>1
      <4> QED
        BY <1>6, <3>1, <4>1
    <3>2. CASE i # k
      <4>1. i \in 1 .. k - 1 /\ (i # 1 => i - 1 \in 1 .. k /\ i - 1 # k)
        BY <1>4, <3>2
      <4> QED
        BY <2>7, <3>2, <4>1
    <3> QED
      BY <3>1, <3>2
  <2> HIDE DEF g
  <2>9. Concats(q, k, g)
    BY <2>6, <2>8 DEF Concats
  <2> QED
    BY <2>6, <2>9, Zenon
<1> QED
  BY <1>5, <1>6

LEMMA ConcatsAt ==
  ASSUME NEW q, NEW n \in Nat, NEW f, Concats(q, n, f)
  PROVE  /\ n # 0 => f[1] = q[1]
         /\ \A j \in 1 .. n - 1 : f[j + 1] = f[j] \o q[j + 1]
<1>1. \A i \in 1 .. n : f[i] = IF i = 1 THEN q[i] ELSE f[i - 1] \o q[i]
  BY DEF Concats
<1>2. n # 0 => f[1] = q[1]
  BY <1>1
<1>3. ASSUME NEW j \in 1 .. n - 1
      PROVE  f[j + 1] = f[j] \o q[j + 1]
  <2> DEFINE i == j + 1
  <2>1. i \in 1 .. n /\ i # 1 /\ i - 1 = j
    OBVIOUS
  <2> HIDE DEF i
  <2>2. f[i] = f[j] \o q[i]
    BY <1>1, <2>1
  <2> QED
    BY <2>2 DEF i
<1> QED
  BY <1>2, <1>3

LEMMA ConcatsUnique ==
  ASSUME NEW q, NEW n \in Nat, NEW m \in Nat, n <= m, NEW f, NEW g,
         Concats(q, n, f), Concats(q, m, g)
  PROVE  \A i \in 1 .. n : f[i] = g[i]
<1> DEFINE T == {i \in 1 .. n : f[i] # g[i]}
<1>1. /\ n # 0 => f[1] = q[1] /\ g[1] = q[1]
      /\ \A j \in 1 .. n - 1 : /\ f[j + 1] = f[j] \o q[j + 1]
                              /\ g[j + 1] = g[j] \o q[j + 1]
  <2>1. \A j \in 1 .. n - 1 : j \in 1 .. m - 1
    OBVIOUS
  <2>2. n # 0 => m # 0
    OBVIOUS
  <2>3. /\ n # 0 => f[1] = q[1]
        /\ \A j \in 1 .. n - 1 : f[j + 1] = f[j] \o q[j + 1]
    BY ConcatsAt, Zenon
  <2>4. /\ m # 0 => g[1] = q[1]
        /\ \A j \in 1 .. m - 1 : g[j + 1] = g[j] \o q[j + 1]
    BY ConcatsAt, Zenon
  <2> QED
    BY <2>1, <2>2, <2>3, <2>4, Zenon
<1>2. SUFFICES ASSUME T # {} PROVE FALSE
  OBVIOUS
<1>3. PICK k \in T : \A j \in T : k <= j
  <2>1. T \in SUBSET Nat
    OBVIOUS
  <2> HIDE DEF T
  <2> QED
    BY <1>2, <2>1, LeastNumber, Zenon
<1>4. k \in 1 .. n /\ f[k] # g[k]
  OBVIOUS
<1>5. CASE k = 1
  BY <1>1, <1>4, <1>5
<1>6. CASE k # 1
  <2> DEFINE j == k - 1
  <2>1. j \in 1 .. n /\ j \in 1 .. n - 1 /\ ~(k <= j) /\ j + 1 = k
    BY <1>4, <1>6
  <2> HIDE DEF j
  <2>2. f[j] = g[j]
    BY <1>3, <2>1
  <2>3. f[j + 1] = g[j + 1]
    BY <1>1, <2>1, <2>2
  <2> QED
    BY <1>4, <2>1, <2>3
<1> QED
  BY <1>5, <1>6

LEMMA FlattenIs ==
  ASSUME NEW S, NEW q \in Seq(Seq(S)), Len(q) # 0
  PROVE  \E f \in [1 .. Len(q) -> Seq(S)] :
            Concats(q, Len(q), f) /\ FlattenSeq(q) = f[Len(q)]
<1> DEFINE n == Len(q)
           c == CHOOSE f : Concats(q, n, f)
<1>1. n \in 1 .. Len(q) /\ n \in Nat /\ n <= n
  OBVIOUS
<1>2. PICK g \in [1 .. n -> Seq(S)] : Concats(q, n, g)
  BY <1>1, ConcatsExist, Zenon
<1>3. Concats(q, n, c)
  BY <1>2, Zenon
<1>4. FlattenSeq(q) = c[n]
  BY DEF FlattenSeq, Concats
<1> HIDE DEF c
<1>5. \A i \in 1 .. n : c[i] = g[i]
  BY <1>1, <1>2, <1>3, ConcatsUnique
<1> QED
  BY <1>1, <1>2, <1>4, <1>5

LEMMA FlattenTyped ==
  ASSUME NEW S, NEW q \in Seq(Seq(S))
  PROVE  FlattenSeq(q) \in Seq(S)
<1>1. CASE Len(q) = 0
  <2>1. FlattenSeq(q) = q /\ q = <<>>
    BY <1>1 DEF FlattenSeq
  <2>2. <<>> \in Seq(S)
    OBVIOUS
  <2> QED
    BY <2>1, <2>2
<1>2. CASE Len(q) # 0
  <2>1. Len(q) \in 1 .. Len(q)
    BY <1>2
  <2>2. PICK f \in [1 .. Len(q) -> Seq(S)] : FlattenSeq(q) = f[Len(q)]
    BY <1>2, FlattenIs
  <2>3. f[Len(q)] \in Seq(S)
    BY <2>1
  <2> QED
    BY <2>2, <2>3
<1> QED
  BY <1>1, <1>2

(* How often an element is in a sequence, and in a flattened one.            *)
Absent(s, e) == \A i \in 1 .. Len(s) : s[i] # e
Once(s, e)   == \A i, j \in 1 .. Len(s) : s[i] = e /\ s[j] = e => i = j

LEMMA OnceInConcat ==
  ASSUME NEW S, NEW s \in Seq(S), NEW t \in Seq(S), NEW e,
         Once(s, e), Once(t, e), Absent(s, e) \/ Absent(t, e)
  PROVE  /\ Once(s \o t, e)
         /\ ~Absent(s \o t, e) => ~Absent(s, e) \/ ~Absent(t, e)
<1> DEFINE u == s \o t
<1>1. /\ Len(s) \in Nat /\ Len(t) \in Nat /\ Len(u) = Len(s) + Len(t)
      /\ \A i \in 1 .. Len(s) : u[i] = s[i]
      /\ \A i \in 1 .. Len(u) :
            \/ i \in 1 .. Len(s)
            \/ i - Len(s) \in 1 .. Len(t) /\ u[i] = t[i - Len(s)]
  OBVIOUS
<1> HIDE DEF u
<1>2. ASSUME NEW i \in 1 .. Len(u), u[i] = e
      PROVE  \/ i \in 1 .. Len(s) /\ s[i] = e
             \/ i - Len(s) \in 1 .. Len(t) /\ t[i - Len(s)] = e
  BY <1>1, <1>2
<1>3. ASSUME NEW i \in 1 .. Len(u), NEW j \in 1 .. Len(u), u[i] = e, u[j] = e
      PROVE  i = j
  <2>1. CASE Absent(s, e)
    <3>1. /\ i - Len(s) \in 1 .. Len(t) /\ t[i - Len(s)] = e
          /\ j - Len(s) \in 1 .. Len(t) /\ t[j - Len(s)] = e
      BY <1>2, <1>3, <2>1 DEF Absent
    <3>2. i - Len(s) = j - Len(s)
      BY <3>1 DEF Once
    <3> QED
      BY <1>1, <3>2
  <2>2. CASE Absent(t, e)
    <3>1. /\ i \in 1 .. Len(s) /\ s[i] = e
          /\ j \in 1 .. Len(s) /\ s[j] = e
      BY <1>2, <1>3, <2>2 DEF Absent
    <3> QED
      BY <3>1 DEF Once
  <2> QED
    BY <2>1, <2>2
<1>4. Once(u, e)
  BY <1>3 DEF Once
<1>5. ~Absent(u, e) => ~Absent(s, e) \/ ~Absent(t, e)
  BY <1>2 DEF Absent
<1> QED
  BY <1>4, <1>5 DEF u

LEMMA FlattenOnce ==
  ASSUME NEW S, NEW q \in Seq(Seq(S)), NEW e,
         \A i \in 1 .. Len(q) : Once(q[i], e),
         \A i, j \in 1 .. Len(q) :
            ~Absent(q[i], e) /\ ~Absent(q[j], e) => i = j
  PROVE  Once(FlattenSeq(q), e)
<1> DEFINE n == Len(q)
<1>1. CASE n = 0
  BY <1>1 DEF FlattenSeq, Once
<1>2. CASE n # 0
  <2>1. n \in Nat /\ n \in 1 .. n /\ \A i \in 1 .. n : q[i] \in Seq(S)
    BY <1>2
  <2>2. PICK f \in [1 .. n -> Seq(S)] :
           Concats(q, n, f) /\ FlattenSeq(q) = f[n]
    BY <1>2, FlattenIs
  <2>3. f[1] = q[1] /\ \A j \in 1 .. n - 1 : f[j + 1] = f[j] \o q[j + 1]
    <3> HIDE DEF n
    <3> QED
      BY <1>2, <2>1, <2>2, ConcatsAt
  <2> DEFINE OK(k) == /\ Once(f[k], e)
                      /\ ~Absent(f[k], e) =>
                            \E i \in 1 .. n : i <= k /\ ~Absent(q[i], e)
             T == {k \in 1 .. n : ~OK(k)}
  <2> HIDE DEF n
  <2>4. T = {}
    <3>1. SUFFICES ASSUME T # {} PROVE FALSE
      OBVIOUS
    <3>2. PICK k \in T : \A j \in T : k <= j
      <4>1. T \in SUBSET Nat
        BY <2>1
      <4> HIDE DEF T
      <4> QED
        BY <3>1, <4>1, LeastNumber, Zenon
    <3>3. k \in 1 .. n /\ ~OK(k)
      OBVIOUS
    <3>4. CASE k = 1
      <4>1. f[k] = q[1] /\ 1 \in 1 .. n /\ 1 <= k
        BY <2>1, <2>3, <3>4
      <4>2. OK(k)
        BY <4>1 DEF n
      <4> QED
        BY <3>3, <4>2
    <3>5. CASE k # 1
      <4> DEFINE j == k - 1
      <4>1. j \in 1 .. n /\ j \in 1 .. n - 1 /\ ~(k <= j) /\ j + 1 = k /\ j < k
        BY <2>1, <3>3, <3>5
      <4> HIDE DEF j
      <4>2. OK(j)
        <5>1. j \notin T
          BY <3>2, <4>1
        <5> HIDE DEF OK
        <5> QED
          BY <4>1, <5>1
      <4>3. f[k] = f[j] \o q[k] /\ f[j] \in Seq(S) /\ q[k] \in Seq(S)
        BY <2>1, <2>2, <2>3, <3>3, <4>1
      <4>4. Absent(f[j], e) \/ Absent(q[k], e)
        <5>1. SUFFICES ASSUME ~Absent(f[j], e), ~Absent(q[k], e) PROVE FALSE
          OBVIOUS
        <5>2. PICK i \in 1 .. n : i <= j /\ ~Absent(q[i], e)
          BY <4>2, <5>1
        <5>3. i = k
          BY <3>3, <5>1, <5>2 DEF n
        <5> QED
          BY <2>1, <3>3, <4>1, <5>2, <5>3
      <4>5. Once(f[j], e) /\ Once(q[k], e)
        BY <3>3, <4>2 DEF n
      <4>6. /\ Once(f[k], e)
            /\ ~Absent(f[k], e) => ~Absent(f[j], e) \/ ~Absent(q[k], e)
        BY <4>3, <4>4, <4>5, OnceInConcat
      <4>7. ASSUME ~Absent(f[k], e)
            PROVE  \E i \in 1 .. n : i <= k /\ ~Absent(q[i], e)
        <5>1. CASE ~Absent(q[k], e)
          <6>1. k <= k
            BY <2>1, <3>3
          <6> QED
            BY <3>3, <5>1, <6>1
        <5>2. CASE ~Absent(f[j], e)
          <6>1. PICK i \in 1 .. n : i <= j /\ ~Absent(q[i], e)
            BY <4>2, <5>2
          <6>2. i <= k
            BY <2>1, <3>3, <4>1, <6>1
          <6> QED
            BY <6>1, <6>2
        <5> QED
          BY <4>6, <4>7, <5>1, <5>2
      <4> QED
        BY <3>3, <4>6, <4>7
    <3> QED
      BY <3>4, <3>5
  <2>5. OK(n)
    <3> HIDE DEF OK
    <3> QED
      BY <2>1, <2>4
  <2> QED
    BY <2>2, <2>5
<1> QED
  BY <1>1, <1>2

LEMMA LowestOf ==
  ASSUME NEW T \in SUBSET Fds, T # {}
  PROVE  Lowest(T) \in T
<1>1. T \in SUBSET Nat
  BY ClientLoopFds
<1>2. \E n \in T : \A k \in T : n <= k
  BY <1>1, LeastNumber
<1> QED
  BY <1>2 DEF Lowest

(* There are fd numbers enough for a client that has none yet.               *)
LEMMA FreeFd ==
  ASSUME TypeOK, FdsOwned, NEW c \in Clients, fd[c] = NoFd
  PROVE  /\ Lowest(Fds \ Owned) \in Fds /\ c \notin live
         /\ \A d \in live : fd[d] # Lowest(Fds \ Owned)
<1>1. live \in SUBSET Clients /\ c \notin live
  BY ClientLoopFds DEF TypeOK, FdsOwned
<1>2. IsFiniteSet(live) /\ Cardinality(live) \in Nat
      /\ Cardinality(Clients) \in Nat /\ Cardinality(Fds) \in Nat
  BY <1>1, ClientLoopFds, FS_Subset, FS_CardinalityType
<1>3. Cardinality(live) < Cardinality(Clients)
  <2>1. live # Clients
    BY <1>1
  <2> QED
    BY <1>1, <1>2, <2>1, ClientLoopFds, FS_Subset
<1>4. IsFiniteSet(Owned) /\ Cardinality(Owned) <= Cardinality(live)
  <2> DEFINE g == [d \in live |-> fd[d]]
  <2>1. g \in Surjection(live, Owned)
    BY DEF Surjection, Owned
  <2> HIDE DEF g
  <2> QED
    BY <1>2, <2>1, FS_Surjection
<1>5. Fds \ Owned # {}
  <2>1. SUFFICES ASSUME Fds \subseteq Owned PROVE FALSE
    OBVIOUS
  <2>2. Cardinality(Fds) <= Cardinality(Owned)
    BY <1>4, <2>1, FS_Subset
  <2>3. Cardinality(Owned) \in Nat
    BY <1>4, FS_CardinalityType
  <2> QED
    BY <1>2, <1>3, <1>4, <2>2, <2>3, ClientLoopFds
<1>6. Lowest(Fds \ Owned) \in Fds \ Owned
  BY <1>5, LowestOf
<1> QED
  BY <1>1, <1>6 DEF Owned

(* The fd of the socket that replaces a refused one.                         *)
LEMMA FdAfterRefusal ==
  ASSUME TypeOK, FdsOwned, NEW c \in live
  PROVE  /\ Lowest((Fds \ Owned) \cup {fd[c]}) \in Fds
         /\ \A d \in live \ {c} : fd[d] # Lowest((Fds \ Owned) \cup {fd[c]})
<1> DEFINE T == (Fds \ Owned) \cup {fd[c]}
<1>1. T \in SUBSET Fds /\ T # {}
  BY DEF FdsOwned
<1>2. Lowest(T) \in T
  BY <1>1, LowestOf
<1>3. ASSUME NEW d \in live \ {c} PROVE fd[d] \in Owned /\ fd[d] # fd[c]
  BY DEF FdsOwned, Owned
<1> QED
  BY <1>1, <1>2, <1>3

LEMMA TailTyped ==
  ASSUME NEW S, NEW s \in Seq(S), s # <<>>
  PROVE  Tail(s) \in Seq(S)
  OBVIOUS

EpollTyped ==
    DOMAIN epoll \subseteq Fds /\ \A f \in DOMAIN epoll : epoll[f] \in Bits

(* What adding to the epoll set does when m_listen_fds has all that is in it.*)
LEMMA Registering ==
  ASSUME Registered, NEW f, NEW bits,
         AddEpollEvent(f, bits) \/ DelAndAdd(f, bits)
  PROVE  /\ listenFds' = listenFds \cup {f}
         /\ DOMAIN epoll' \subseteq DOMAIN epoll \cup {f}
         /\ \A g \in DOMAIN epoll' : g # f => g \in DOMAIN epoll
                                              /\ epoll'[g] = epoll[g]
         /\ f \in DOMAIN epoll' => epoll'[f] = bits
  BY DEF Registered, AddEpollEvent, DelAndAdd, Put

LEMMA RegisterTyped ==
  ASSUME TypeOK, Registered, NEW f \in Fds, NEW bits \in Bits,
         AddEpollEvent(f, bits) \/ DelAndAdd(f, bits)
  PROVE  EpollTyped' /\ listenFds' \in SUBSET Fds
<1>1. \A g \in DOMAIN epoll' : g \in Fds /\ epoll'[g] \in Bits
  BY Registering DEF TypeOK
<1> QED
  BY <1>1, Registering DEF TypeOK, EpollTyped

(* on_write of a connection, part by part.                                   *)
NextEvents(c, all) ==
    (events[ev[c]] \ (IF all THEN {"out"} ELSE {}))
    \cup (IF step[c] = "writing" THEN {"in"} ELSE {})

Sent(c, all) ==
    /\ unsent' = IF all THEN unsent \ {c} ELSE unsent \cup {c}
    /\ events' = [events EXCEPT ![ev[c]] = NextEvents(c, all)]
    /\ IF all \/ step[c] = "writing"
       THEN AddEpollEvent(ev[c], NextEvents(c, all))
       ELSE UNCHANGED <<epoll, listenFds>>
    /\ IF step[c] = "writing"
       THEN /\ step' = [step EXCEPT ![c] = "reading"]
            /\ ListenIn(ev[c], c)
            /\ control' = c
       ELSE UNCHANGED <<step, readCb, control>>

LEMMA OnWriteSends ==
  ASSUME NEW c, OnWrite(c), state[c] = "connected"
  PROVE  \E all \in BOOLEAN : Sent(c, all)
<1>1. PICK all \in BOOLEAN :
        LET kept == events[ev[c]] \ (IF all THEN {"out"} ELSE {})
            next == IF step[c] = "writing" THEN kept \cup {"in"} ELSE kept
        IN  /\ unsent' = IF all THEN unsent \ {c} ELSE unsent \cup {c}
            /\ events' = [events EXCEPT ![ev[c]] = next]
            /\ IF all \/ step[c] = "writing"
               THEN AddEpollEvent(ev[c], next)
               ELSE UNCHANGED <<epoll, listenFds>>
  BY DEF OnWrite
<1>2. IF step[c] = "writing"
      THEN /\ step' = [step EXCEPT ![c] = "reading"]
           /\ ListenIn(ev[c], c)
           /\ control' = c
      ELSE UNCHANGED <<step, readCb, control>>
  BY DEF OnWrite
<1> DEFINE kept == events[ev[c]] \ (IF all THEN {"out"} ELSE {})
           next == IF step[c] = "writing" THEN kept \cup {"in"} ELSE kept
<1>3. next = NextEvents(c, all)
  BY DEF NextEvents
<1> QED
  BY <1>1, <1>2, <1>3 DEF Sent

(* What an epoll_wait queues: for each fd its callbacks, of which a connect  *)
(* callback is its owner's.                                                  *)
Fitting(t) ==
    \A c \in Clients : t = <<"connect", c>> =>
        fd[c] # NoFd /\ (c \in live => step[c] = "connecting")
FittingTasks == {t \in Task : Fitting(t)}

LEMMA QueuedOf ==
  ASSUME TypeOK, FdsOwned, Registered, CallbacksOwn, NEW f \in DOMAIN epoll
  PROVE  /\ Queued(f) \in Seq(FittingTasks)
         /\ \A c \in Clients :
               /\ Once(Queued(f), <<"connect", c>>)
               /\ ~Absent(Queued(f), <<"connect", c>>)
                     => fd[c] = f /\ c \in live
<1>1. PICK d \in live : fd[d] = f
  BY DEF Registered
<1>2. \/ step[d] = "connecting" /\ writeCb[f] = <<"connect", d>>
      \/ writeCb[f] = <<"write", d>>
  BY <1>1 DEF Registered, CallbacksOwn
<1>3. d \in Clients /\ f \in Fds /\ fd[d] # NoFd
  BY <1>1, ClientLoopFds DEF TypeOK
<1>4. /\ writeCb[f] \in Task /\ <<"read", readCb[f]>> \in Task
  BY <1>3 DEF TypeOK, Task
<1>5. writeCb[f] \in FittingTasks
  <2>1. ASSUME NEW c \in Clients, writeCb[f] = <<"connect", c>>
        PROVE  c = d /\ step[d] = "connecting"
    BY <1>2, <2>1
  <2> QED
    BY <1>3, <1>4, <2>1 DEF FittingTasks, Fitting
<1>6. <<"read", readCb[f]>> \in FittingTasks
  BY <1>4 DEF FittingTasks, Fitting
<1> DEFINE r == IF "in" \in Reported(f) THEN <<<<"read", readCb[f]>>>>
                ELSE <<>>
           w == IF "out" \in Reported(f) THEN <<writeCb[f]>> ELSE <<>>
<1>7. r \in Seq(FittingTasks) /\ w \in Seq(FittingTasks)
  BY <1>5, <1>6
<1>8. Queued(f) = r \o w
  BY DEF Queued
<1>9. Queued(f) \in Seq(FittingTasks)
  BY <1>7, <1>8
<1>10. ASSUME NEW c \in Clients
       PROVE  /\ Once(Queued(f), <<"connect", c>>)
              /\ ~Absent(Queued(f), <<"connect", c>>)
                    => fd[c] = f /\ c \in live
  <2> DEFINE e == <<"connect", c>>
  <2>1. Absent(r, e)
    BY DEF Absent
  <2>2. Once(r, e) /\ Once(w, e)
    BY DEF Once
  <2>3. ~Absent(w, e) => c = d
    BY <1>2 DEF Absent
  <2> HIDE DEF r, w, e
  <2>4. /\ Once(r \o w, e)
        /\ ~Absent(r \o w, e) => ~Absent(r, e) \/ ~Absent(w, e)
    BY <1>7, <2>1, <2>2, OnceInConcat
  <2> QED
    BY <1>1, <1>8, <2>1, <2>3, <2>4 DEF e
<1> QED
  BY <1>9, <1>10

LEMMA PollTasks ==
  ASSUME TypeOK, FdsOwned, Registered, CallbacksOwn, Poll
  PROVE  tasks' \in Seq(Task) /\ ConnectTasks'
<1> DEFINE ready == {f \in DOMAIN epoll : Reported(f) # {}}
           n == Cardinality(ready)
<1>1. PICK order \in SetToSeqs(ready) :
         tasks' = FlattenSeq([i \in DOMAIN order |-> Queued(order[i])])
  BY DEF Poll
<1>2. n \in Nat
  <2>1. ready \in SUBSET Fds
    BY DEF TypeOK
  <2> HIDE DEF ready
  <2> QED
    BY <2>1, ClientLoopFds, FS_Subset, FS_CardinalityType
<1>3. /\ order \in [1 .. n -> ready]
      /\ \A i, j \in 1 .. n : i # j => order[i] # order[j]
  BY <1>1 DEF SetToSeqs
<1> DEFINE q == [i \in DOMAIN order |-> Queued(order[i])]
<1>4. ASSUME NEW i \in 1 .. n
      PROVE  /\ order[i] \in DOMAIN epoll
             /\ Queued(order[i]) \in Seq(FittingTasks)
             /\ \A c \in Clients :
                   /\ Once(Queued(order[i]), <<"connect", c>>)
                   /\ ~Absent(Queued(order[i]), <<"connect", c>>)
                         => fd[c] = order[i] /\ c \in live
  <2>1. order[i] \in DOMAIN epoll
    BY <1>3
  <2> QED
    BY <2>1, QueuedOf
<1> HIDE DEF ready, n
<1>5. /\ q = [i \in 1 .. n |-> Queued(order[i])]
      /\ DOMAIN q = 1 .. n
  BY <1>3
<1>6. q \in Seq(Seq(FittingTasks)) /\ Len(q) = n
  BY <1>2, <1>4, <1>5
<1>7. \A i \in 1 .. n : q[i] = Queued(order[i])
  BY <1>5
<1> HIDE DEF q
<1>8. tasks' = FlattenSeq(q)
  BY <1>1 DEF q
<1>9. tasks' \in Seq(FittingTasks)
  BY <1>6, <1>8, FlattenTyped
<1>10. ASSUME NEW c \in Clients PROVE Once(tasks', <<"connect", c>>)
  <2> DEFINE e == <<"connect", c>>
  <2>1. \A i \in 1 .. Len(q) : Once(q[i], e)
    BY <1>4, <1>6, <1>7
  <2>2. ASSUME NEW i \in 1 .. Len(q), NEW j \in 1 .. Len(q),
               ~Absent(q[i], e), ~Absent(q[j], e)
        PROVE  i = j
    <3>1. fd[c] = order[i] /\ fd[c] = order[j] /\ i \in 1 .. n /\ j \in 1 .. n
      BY <1>4, <1>6, <1>7, <2>2
    <3> QED
      BY <1>3, <3>1
  <2> HIDE DEF e
  <2>3. Once(FlattenSeq(q), e)
    BY <1>6, <2>1, <2>2, FlattenOnce
  <2> QED
    BY <1>8, <2>3 DEF e
<1>11. \A i \in 1 .. Len(tasks') : tasks'[i] \in FittingTasks
  BY <1>9
<1>12. tasks' \in Seq(Task)
  BY <1>9 DEF FittingTasks
<1>13. UNCHANGED <<live, fd, step>>
  BY DEF Poll
<1>14. ASSUME NEW i \in 1 .. Len(tasks'), NEW c \in Clients,
              tasks'[i] = <<"connect", c>>
       PROVE  /\ fd[c] # NoFd
              /\ c \in live => step[c] = "connecting"
              /\ \A j \in 1 .. Len(tasks') :
                    tasks'[j] = <<"connect", c>> => j = i
  <2>1. Fitting(tasks'[i])
    BY <1>11 DEF FittingTasks
  <2> QED
    BY <1>10, <1>14, <2>1 DEF Fitting, Once
<1> QED
  BY <1>12, <1>13, <1>14 DEF ConnectTasks

(* Every action keeps the types.                                             *)
LEMMA KeepsTypeOK ==
  ASSUME TypeOK, FdsOwned, Registered, CallbacksOwn, [Next]_clientVars
  PROVE  TypeOK'
<1>1. ASSUME NEW c \in Clients, Create(c) PROVE TypeOK'
  <2>1. UserCode /\ fd[c] = NoFd
    BY <1>1 DEF Create
  <2>2. Lowest(Fds \ Owned) \in Fds
    BY <2>1, FreeFd
  <2> QED
    BY <1>1, <2>2 DEF Create, TypeOK
<1>2. ASSUME NEW c \in Clients, ConnectNow(c) PROVE TypeOK'
  <2>1. /\ ev[c] \in Fds /\ events[ev[c]] \cup {"out"} \in Bits
        /\ DelAndAdd(ev[c], events[ev[c]] \cup {"out"})
    BY <1>2 DEF ConnectNow, FdsOwned, TypeOK, Bits
  <2>2. EpollTyped' /\ listenFds' \in SUBSET Fds
    BY <2>1, RegisterTyped
  <2> QED
    BY <1>2, <2>1, <2>2 DEF ConnectNow, SendMessage, ListenOut, TypeOK,
        EpollTyped,
       Bits, Task
<1>3. ASSUME NEW c \in Clients, ConnectLater(c) PROVE TypeOK'
  <2>1. /\ ev[c] \in Fds /\ events[ev[c]] \cup {"out"} \in Bits
        /\ AddEpollEvent(ev[c], events[ev[c]] \cup {"out"})
    BY <1>3 DEF ConnectLater, FdsOwned, TypeOK, Bits
  <2>2. EpollTyped' /\ listenFds' \in SUBSET Fds
    BY <2>1, RegisterTyped
  <2> QED
    BY <1>3, <2>1, <2>2 DEF ConnectLater, ListenOut, TypeOK, EpollTyped, Bits,
       Task
<1>4. ASSUME NEW c \in Clients, ConnectFails(c) PROVE TypeOK'
  BY <1>4
     DEF ConnectFails, UserCode, TypeOK, Bits, Task
<1>5. ASSUME NEW c \in Clients, Stop(c) PROVE TypeOK'
  BY <1>5
     DEF Stop, TypeOK, Bits, Task
<1>6. ASSUME NEW c \in Clients, Destroy(c) PROVE TypeOK'
  BY <1>6
     DEF Destroy, Dropped, TypeOK, Bits, Task
<1>7. CASE Return
  BY <1>7
     DEF Return, TypeOK, Bits, Task
<1>8. CASE Poll
  BY <1>8, PollTasks DEF Poll, Dropped, TypeOK
<1>9. CASE LeaveLoop
  BY <1>9
     DEF LeaveLoop, TypeOK, Bits, Task
<1>10. CASE CallGone
  <2>1. tasks' \in Seq(Task)
    BY <1>10, TailTyped DEF CallGone, Runs, TypeOK
  <2> QED
    BY <1>10, <2>1 DEF CallGone, TypeOK
<1>11. ASSUME NEW c \in Clients, ConnectedCb(c) PROVE TypeOK'
  <2>1. /\ ev[c] \in Fds /\ events[ev[c]] \cup {"out"} \in Bits
        /\ DelAndAdd(ev[c], events[ev[c]] \cup {"out"})
    BY <1>11 DEF ConnectedCb, FdsOwned, TypeOK, Bits
  <2>2. EpollTyped' /\ listenFds' \in SUBSET Fds
    BY <2>1, RegisterTyped
  <2>3. tasks' \in Seq(Task)
    BY <1>11, TailTyped DEF ConnectedCb, Runs, TypeOK
  <2> QED
    BY <1>11, <2>1, <2>2, <2>3 DEF ConnectedCb, SendMessage, ListenOut, TypeOK,
       EpollTyped, Bits, Task
<1>12. ASSUME NEW c \in Clients, RefusedCb(c) PROVE TypeOK'
  <2>1. Lowest((Fds \ Owned) \cup {fd[c]}) \in Fds
    BY <1>12, FdAfterRefusal DEF RefusedCb
  <2>2. tasks' \in Seq(Task)
    BY <1>12, TailTyped DEF RefusedCb, Runs, TypeOK
  <2> QED
    BY <1>12, <2>1, <2>2 DEF RefusedCb, Dropped, TypeOK
<1>13. ASSUME NEW c \in Clients, OnWrite(c) PROVE TypeOK'
  <2>1. ev[c] \in Fds /\ c \in live
    BY <1>13 DEF OnWrite, FdsOwned
  <2>2. tasks' \in Seq(Task)
    BY <1>13, TailTyped DEF OnWrite, Runs, TypeOK
  <2>3. CASE state[c] # "connected"
    BY <1>13, <2>2, <2>3 DEF OnWrite, TypeOK
  <2>4. CASE state[c] = "connected"
    <3>1. PICK all \in BOOLEAN : Sent(c, all)
      BY <1>13, <2>4, OnWriteSends
    <3>2. NextEvents(c, all) \in Bits
      BY <2>1 DEF NextEvents, TypeOK, Bits
    <3>3. EpollTyped' /\ listenFds' \in SUBSET Fds
      BY <2>1, <3>1, <3>2, RegisterTyped DEF Sent, TypeOK, EpollTyped
    <3>4. /\ step' \in [Clients -> {"idle", "connecting", "writing", "reading",
                                    "over"}]
          /\ readCb' \in [Fds -> Clients \cup {NoClient}]
          /\ control' \in {"main", "loop"} \cup Clients
      BY <2>1, <3>1 DEF Sent, ListenIn, TypeOK
    <3>5. unsent' \in SUBSET Clients /\ events' \in [Fds -> Bits]
      BY <2>1, <3>1, <3>2 DEF Sent, TypeOK
    <3> QED
      BY <1>13, <2>2, <3>3, <3>4, <3>5 DEF OnWrite, TypeOK, EpollTyped
  <2> QED
    BY <2>3, <2>4
<1>14. ASSUME NEW c \in Clients, OnRead(c) PROVE TypeOK'
  <2>1. tasks' \in Seq(Task)
    BY <1>14, TailTyped DEF OnRead, Runs, TypeOK
  <2>2. /\ state' \in [Clients -> {"notConnected", "connected", "closed"}]
        /\ step' \in [Clients -> {"idle", "connecting", "writing", "reading",
                                  "over"}]
        /\ sock' \in [Clients -> {"new", "inprogress", "up", "refused",
                                  "replied", "eof"}]
        /\ control' \in {"main", "loop"} \cup Clients
    BY <1>14 DEF OnRead, TypeOK
  <2>3. events' \in [Fds -> Bits] /\ listenFds' \in SUBSET Fds
    BY <1>14 DEF OnRead, TypeOK, Bits
  <2>4. EpollTyped'
    BY <1>14 DEF OnRead, Dropped, TypeOK, EpollTyped
  <2> QED
    BY <1>14, <2>1, <2>2, <2>3, <2>4 DEF OnRead, TypeOK, EpollTyped
<1>15. ASSUME NEW c \in Clients, Establish(c) PROVE TypeOK'
  BY <1>15
     DEF Establish, Network, TypeOK, Bits, Task
<1>16. ASSUME NEW c \in Clients, Refuse(c) PROVE TypeOK'
  BY <1>16
     DEF Refuse, Network, TypeOK, Bits, Task
<1>17. ASSUME NEW c \in Clients, Reply(c) PROVE TypeOK'
  BY <1>17
     DEF Reply, Network, TypeOK, Bits, Task
<1>18. ASSUME NEW c \in Clients, PeerClose(c) PROVE TypeOK'
  BY <1>18
     DEF PeerClose, Network, TypeOK, Bits, Task
<1>19. CASE UNCHANGED clientVars
  BY <1>19 DEF clientVars, TypeOK, Bits, Task
<1> QED
  BY <1>1, <1>2, <1>3, <1>4, <1>5, <1>6, <1>7, <1>8, <1>9, <1>10, <1>11,
      <1>12, <1>13, <1>14, <1>15, <1>16, <1>17, <1>18, <1>19
     DEF Next, User, Loop

(* Every client keeps an fd of its own.                                      *)
LEMMA KeepsFdsOwned ==
  ASSUME TypeOK, FdsOwned, StepsFit, ConnectTasks, [Next]_clientVars
  PROVE  FdsOwned'
<1>1. ASSUME NEW c \in Clients, Create(c) PROVE FdsOwned'
  <2>1. UserCode /\ fd[c] = NoFd
    BY <1>1 DEF Create
  <2>2. /\ Lowest(Fds \ Owned) \in Fds /\ c \notin live
        /\ \A d \in live : fd[d] # Lowest(Fds \ Owned)
    BY <2>1, FreeFd
  <2> DEFINE f == Lowest(Fds \ Owned)
  <2>3. /\ live' = live \cup {c} /\ fd' = [fd EXCEPT ![c] = f]
        /\ UNCHANGED <<state, step>>
    BY <1>1 DEF Create
  <2>4. fd'[c] = f /\ ev' = [ev EXCEPT ![c] = f]
    BY <1>1 DEF Create, TypeOK
  <2> HIDE DEF f
  <2> QED
    <3>1. \A d \in live : d # c /\ fd'[d] = fd[d] /\ ev'[d] = ev[d]
      BY <2>2, <2>3, <2>4 DEF TypeOK
    <3>2. fd'[c] = f /\ ev'[c] = f
      BY <2>4 DEF TypeOK
    <3>3. f \in Fds /\ \A d \in live : fd[d] # f
      BY <2>2 DEF f
    <3> QED
      BY <2>3, <3>1, <3>2, <3>3 DEF FdsOwned
<1>2. ASSUME NEW c \in Clients, ConnectNow(c) PROVE FdsOwned'
  BY <1>2
     DEF ConnectNow, UserCode, SendMessage, ListenOut, DelAndAdd, Put, TypeOK,
         FdsOwned
<1>3. ASSUME NEW c \in Clients, ConnectLater(c) PROVE FdsOwned'
  BY <1>3
     DEF ConnectLater, UserCode, ListenOut, AddEpollEvent, Put, TypeOK,
         FdsOwned
<1>4. ASSUME NEW c \in Clients, ConnectFails(c) PROVE FdsOwned'
  BY <1>4
     DEF ConnectFails, UserCode, TypeOK, FdsOwned
<1>5. ASSUME NEW c \in Clients, Stop(c) PROVE FdsOwned'
  BY <1>5
     DEF Stop, TypeOK, FdsOwned
<1>6. ASSUME NEW c \in Clients, Destroy(c) PROVE FdsOwned'
  BY <1>6
     DEF Destroy, Dropped, TypeOK, FdsOwned
<1>7. CASE Return
  BY <1>7
     DEF Return, TypeOK, FdsOwned
<1>8. CASE Poll
  BY <1>8
     DEF Poll, Dropped, TypeOK, FdsOwned
<1>9. CASE LeaveLoop
  BY <1>9
     DEF LeaveLoop, TypeOK, FdsOwned
<1>10. CASE CallGone
  BY <1>10
     DEF CallGone, Runs, TypeOK, FdsOwned
<1>11. ASSUME NEW c \in Clients, ConnectedCb(c) PROVE FdsOwned'
  <2>1. tasks[1] = <<"connect", c>> /\ 1 \in 1 .. Len(tasks)
    BY <1>11 DEF ConnectedCb, Runs, TypeOK
  <2>2. step[c] = "connecting"
    BY <1>11, <2>1 DEF ConnectedCb, ConnectTasks
  <2> QED
    BY <1>11, <2>2 DEF ConnectedCb, SendMessage, TypeOK, FdsOwned
<1>12. ASSUME NEW c \in Clients, RefusedCb(c) PROVE FdsOwned'
  <2>1. /\ Lowest((Fds \ Owned) \cup {fd[c]}) \in Fds
        /\ \A d \in live \ {c} : fd[d] # Lowest((Fds \ Owned) \cup {fd[c]})
    BY <1>12, FdAfterRefusal DEF RefusedCb
  <2>2. tasks[1] = <<"connect", c>> /\ 1 \in 1 .. Len(tasks)
    BY <1>12 DEF RefusedCb, Runs, TypeOK
  <2>3. step[c] = "connecting" /\ state[c] = "notConnected"
    BY <1>12, <2>2 DEF RefusedCb, ConnectTasks, StepsFit
  <2> QED
    BY <1>12, <2>1, <2>3 DEF RefusedCb, TypeOK, FdsOwned
<1>13. ASSUME NEW c \in Clients, OnWrite(c) PROVE FdsOwned'
  <2>1. /\ UNCHANGED <<live, fd, ev, state>>
        /\ \/ step' = step
           \/ step[c] = "writing" /\ step' = [step EXCEPT ![c] = "reading"]
    BY <1>13 DEF OnWrite
  <2>2. \A d \in Clients : step'[d] # "over" => step[d] # "over"
    BY <2>1 DEF TypeOK
  <2>3. live \subseteq Clients
    BY DEF TypeOK
  <2> QED
    BY <2>1, <2>2, <2>3 DEF FdsOwned
<1>14. ASSUME NEW c \in Clients, OnRead(c) PROVE FdsOwned'
  BY <1>14
     DEF OnRead, Runs, Dropped, TypeOK, FdsOwned
<1>15. ASSUME NEW c \in Clients, Establish(c) PROVE FdsOwned'
  BY <1>15
     DEF Establish, Network, TypeOK, FdsOwned
<1>16. ASSUME NEW c \in Clients, Refuse(c) PROVE FdsOwned'
  BY <1>16
     DEF Refuse, Network, TypeOK, FdsOwned
<1>17. ASSUME NEW c \in Clients, Reply(c) PROVE FdsOwned'
  BY <1>17
     DEF Reply, Network, TypeOK, FdsOwned
<1>18. ASSUME NEW c \in Clients, PeerClose(c) PROVE FdsOwned'
  BY <1>18
     DEF PeerClose, Network, TypeOK, FdsOwned
<1>19. CASE UNCHANGED clientVars
  BY <1>19 DEF clientVars, TypeOK, FdsOwned
<1> QED
  BY <1>1, <1>2, <1>3, <1>4, <1>5, <1>6, <1>7, <1>8, <1>9, <1>10, <1>11,
      <1>12, <1>13, <1>14, <1>15, <1>16, <1>17, <1>18, <1>19
     DEF Next, User, Loop

(* A client's step fits its connection.                                      *)
LEMMA KeepsStepsFit ==
  ASSUME TypeOK, FdsOwned, StepsFit, ConnectTasks, [Next]_clientVars
  PROVE  StepsFit'
<1>1. ASSUME NEW c \in Clients, Create(c) PROVE StepsFit'
  <2>1. UserCode /\ fd[c] = NoFd
    BY <1>1 DEF Create
  <2>2. Lowest(Fds \ Owned) \in Fds
    BY <2>1, FreeFd
  <2>3. Lowest(Fds \ Owned) # NoFd
    BY <2>2, ClientLoopFds
  <2> QED
    BY <1>1, <2>3 DEF Create, TypeOK, StepsFit
<1>2. ASSUME NEW c \in Clients, ConnectNow(c) PROVE StepsFit'
  <2>1. fd[c] # NoFd
    BY <1>2, ClientLoopFds DEF ConnectNow, FdsOwned
  <2> QED
    BY <1>2, <2>1 DEF ConnectNow, SendMessage, TypeOK, StepsFit
<1>3. ASSUME NEW c \in Clients, ConnectLater(c) PROVE StepsFit'
  <2>1. fd[c] # NoFd
    BY <1>3, ClientLoopFds DEF ConnectLater, FdsOwned
  <2> QED
    BY <1>3, <2>1 DEF ConnectLater, TypeOK, StepsFit
<1>4. ASSUME NEW c \in Clients, ConnectFails(c) PROVE StepsFit'
  <2>1. fd[c] # NoFd
    BY <1>4, ClientLoopFds DEF ConnectFails, FdsOwned
  <2> QED
    BY <1>4, <2>1 DEF ConnectFails, TypeOK, StepsFit
<1>5. ASSUME NEW c \in Clients, Stop(c) PROVE StepsFit'
  BY <1>5
     DEF Stop, TypeOK, StepsFit
<1>6. ASSUME NEW c \in Clients, Destroy(c) PROVE StepsFit'
  BY <1>6
     DEF Destroy, Dropped, TypeOK, StepsFit
<1>7. CASE Return
  BY <1>7
     DEF Return, TypeOK, StepsFit
<1>8. CASE Poll
  BY <1>8
     DEF Poll, Dropped, TypeOK, StepsFit
<1>9. CASE LeaveLoop
  BY <1>9
     DEF LeaveLoop, TypeOK, StepsFit
<1>10. CASE CallGone
  BY <1>10
     DEF CallGone, Runs, TypeOK, StepsFit
<1>11. ASSUME NEW c \in Clients, ConnectedCb(c) PROVE StepsFit'
  <2>1. fd[c] # NoFd
    BY <1>11, ClientLoopFds DEF ConnectedCb, FdsOwned
  <2>2. tasks[1] = <<"connect", c>> /\ 1 \in 1 .. Len(tasks)
    BY <1>11 DEF ConnectedCb, Runs, TypeOK
  <2>3. step[c] = "connecting"
    BY <1>11, <2>2 DEF ConnectedCb, ConnectTasks
  <2> QED
    BY <1>11, <2>1, <2>3 DEF ConnectedCb, SendMessage, TypeOK, StepsFit
<1>12. ASSUME NEW c \in Clients, RefusedCb(c) PROVE StepsFit'
  <2>1. Lowest((Fds \ Owned) \cup {fd[c]}) \in Fds
    BY <1>12, FdAfterRefusal DEF RefusedCb
  <2>2. Lowest((Fds \ Owned) \cup {fd[c]}) # NoFd
    BY <2>1, ClientLoopFds
  <2> QED
    BY <1>12, <2>2 DEF RefusedCb, TypeOK, StepsFit
<1>13. ASSUME NEW c \in Clients, OnWrite(c) PROVE StepsFit'
  <2>1. fd[c] # NoFd
    BY <1>13, ClientLoopFds DEF OnWrite, FdsOwned
  <2> QED
    BY <1>13, <2>1 DEF OnWrite, TypeOK, StepsFit
<1>14. ASSUME NEW c \in Clients, OnRead(c) PROVE StepsFit'
  <2>1. fd[c] # NoFd
    BY <1>14, ClientLoopFds DEF OnRead, FdsOwned
  <2> QED
    BY <1>14, <2>1 DEF OnRead, TypeOK, StepsFit
<1>15. ASSUME NEW c \in Clients, Establish(c) PROVE StepsFit'
  BY <1>15
     DEF Establish, Network, TypeOK, StepsFit
<1>16. ASSUME NEW c \in Clients, Refuse(c) PROVE StepsFit'
  BY <1>16
     DEF Refuse, Network, TypeOK, StepsFit
<1>17. ASSUME NEW c \in Clients, Reply(c) PROVE StepsFit'
  BY <1>17
     DEF Reply, Network, TypeOK, StepsFit
<1>18. ASSUME NEW c \in Clients, PeerClose(c) PROVE StepsFit'
  BY <1>18
     DEF PeerClose, Network, TypeOK, StepsFit
<1>19. CASE UNCHANGED clientVars
  BY <1>19 DEF clientVars, TypeOK, StepsFit
<1> QED
  BY <1>1, <1>2, <1>3, <1>4, <1>5, <1>6, <1>7, <1>8, <1>9, <1>10, <1>11,
      <1>12, <1>13, <1>14, <1>15, <1>16, <1>17, <1>18, <1>19
     DEF Next, User, Loop

(* Only fds of clients that wait or are connected get registered.            *)
LEMMA KeepsRegistered ==
  ASSUME TypeOK, FdsOwned, StepsFit, Registered, ConnectTasks,
      [Next]_clientVars
  PROVE  Registered'
<1>1. ASSUME NEW c \in Clients, Create(c) PROVE Registered'
  <2>1. UserCode /\ fd[c] = NoFd
    BY <1>1 DEF Create
  <2>2. c \notin live /\ \A d \in live : fd[d] # Lowest(Fds \ Owned)
    BY <2>1, FreeFd
  <2> DEFINE f == Lowest(Fds \ Owned)
  <2>3. /\ live' = live \cup {c} /\ fd' = [fd EXCEPT ![c] = f]
        /\ UNCHANGED <<state, step, epoll, listenFds>>
    BY <1>1 DEF Create
  <2> HIDE DEF f
  <2>4. fd'[c] = f /\ \A d \in live : fd'[d] = fd[d]
    BY <2>2, <2>3 DEF TypeOK
  <2>5. f \notin DOMAIN epoll
    BY <2>2 DEF Registered, f
  <2> QED
    BY <2>3, <2>4, <2>5 DEF Registered
<1>2. ASSUME NEW c \in Clients, ConnectNow(c) PROVE Registered'
  <2>1. c \in live /\ step[c] = "idle" /\ ev[c] = fd[c]
    BY <1>2 DEF ConnectNow, FdsOwned
  <2>2. DelAndAdd(fd[c], events[ev[c]] \cup {"out"})
    BY <1>2, <2>1 DEF ConnectNow
  <2>3. /\ listenFds' = listenFds \cup {fd[c]}
        /\ DOMAIN epoll' \subseteq DOMAIN epoll \cup {fd[c]}
    BY <2>2, Registering
  <2> QED
    BY <1>2, <2>1, <2>3 DEF ConnectNow, SendMessage, Registered, FdsOwned,
        TypeOK
<1>3. ASSUME NEW c \in Clients, ConnectLater(c) PROVE Registered'
  <2>1. c \in live /\ step[c] = "idle" /\ ev[c] = fd[c]
    BY <1>3 DEF ConnectLater, FdsOwned
  <2>2. AddEpollEvent(fd[c], events[ev[c]] \cup {"out"})
    BY <1>3, <2>1 DEF ConnectLater
  <2>3. /\ listenFds' = listenFds \cup {fd[c]}
        /\ DOMAIN epoll' \subseteq DOMAIN epoll \cup {fd[c]}
    BY <2>2, Registering
  <2> QED
    BY <1>3, <2>1, <2>3 DEF ConnectLater, Registered, FdsOwned, TypeOK
<1>4. ASSUME NEW c \in Clients, ConnectFails(c) PROVE Registered'
  BY <1>4
     DEF ConnectFails, UserCode, TypeOK, FdsOwned, Registered
<1>5. ASSUME NEW c \in Clients, Stop(c) PROVE Registered'
  BY <1>5
     DEF Stop, TypeOK, FdsOwned, Registered
<1>6. ASSUME NEW c \in Clients, Destroy(c) PROVE Registered'
  BY <1>6
     DEF Destroy, Dropped, TypeOK, FdsOwned, Registered
<1>7. CASE Return
  BY <1>7
     DEF Return, TypeOK, FdsOwned, Registered
<1>8. CASE Poll
  BY <1>8
     DEF Poll, Dropped, TypeOK, FdsOwned, Registered
<1>9. CASE LeaveLoop
  BY <1>9
     DEF LeaveLoop, TypeOK, FdsOwned, Registered
<1>10. CASE CallGone
  BY <1>10
     DEF CallGone, Runs, TypeOK, FdsOwned, Registered
<1>11. ASSUME NEW c \in Clients, ConnectedCb(c) PROVE Registered'
  <2>0. tasks[1] = <<"connect", c>> /\ 1 \in 1 .. Len(tasks)
    BY <1>11 DEF ConnectedCb, Runs, TypeOK
  <2>1. c \in live /\ step[c] = "connecting" /\ ev[c] = fd[c]
    BY <1>11, <2>0 DEF ConnectedCb, FdsOwned, ConnectTasks
  <2>2. DelAndAdd(fd[c], events[ev[c]] \cup {"out"})
    BY <1>11, <2>1 DEF ConnectedCb
  <2>3. /\ listenFds' = listenFds \cup {fd[c]}
        /\ DOMAIN epoll' \subseteq DOMAIN epoll \cup {fd[c]}
    BY <2>2, Registering
  <2> QED
    BY <1>11, <2>1, <2>3 DEF ConnectedCb, SendMessage, Registered, FdsOwned,
        TypeOK
<1>12. ASSUME NEW c \in Clients, RefusedCb(c) PROVE Registered'
  <2>0. tasks[1] = <<"connect", c>> /\ 1 \in 1 .. Len(tasks)
    BY <1>12 DEF RefusedCb, Runs, TypeOK
  <2>1. c \in live /\ step[c] = "connecting" /\ ev[c] = fd[c]
    BY <1>12, <2>0 DEF RefusedCb, FdsOwned, ConnectTasks
  <2>2. \A d \in live \ {c} : fd[d] # Lowest((Fds \ Owned) \cup {fd[c]})
    BY <1>12, FdAfterRefusal DEF RefusedCb
  <2> DEFINE f == Lowest((Fds \ Owned) \cup {fd[c]})
  <2>3. /\ UNCHANGED <<live, state>> /\ fd' = [fd EXCEPT ![c] = f]
        /\ step' = [step EXCEPT ![c] = "over"]
        /\ epoll' = Dropped({fd[c]}) /\ listenFds' = listenFds \ {fd[c]}
    BY <1>12, <2>1 DEF RefusedCb
  <2>4. DOMAIN epoll' = DOMAIN epoll \ {fd[c]}
    BY <2>3 DEF Dropped
  <2> HIDE DEF f
  <2>5. /\ fd'[c] = f /\ c \in Clients
        /\ \A d \in live \ {c} : fd'[d] = fd[d] /\ step'[d] = step[d]
    BY <2>1, <2>3 DEF TypeOK
  <2>6. f \notin DOMAIN epoll'
    <3>1. ASSUME NEW d \in live, fd[d] = f PROVE d = c
      BY <2>2, <3>1 DEF f
    <3> QED
      BY <2>4, <3>1 DEF Registered
  <2>7. DOMAIN epoll' \subseteq listenFds'
    BY <2>3, <2>4 DEF Registered
  <2>8. \A g \in DOMAIN epoll' : \E d \in live' : fd'[d] = g
    BY <2>3, <2>4, <2>5 DEF Registered
  <2>9. \A d \in live' : fd'[d] \in DOMAIN epoll' =>
           step'[d] = "connecting" \/ state'[d] = "connected"
    BY <2>3, <2>4, <2>5, <2>6 DEF Registered
  <2> QED
    BY <2>7, <2>8, <2>9 DEF Registered
<1>13. ASSUME NEW c \in Clients, OnWrite(c) PROVE Registered'
  <2>1. c \in live
    BY <1>13 DEF OnWrite
  <2>2. UNCHANGED <<live, fd, ev, state>>
    BY <1>13 DEF OnWrite
  <2>3. CASE state[c] # "connected"
    BY <1>13, <2>3 DEF OnWrite, Registered
  <2>4. CASE state[c] = "connected"
    <3>1. PICK all \in BOOLEAN : Sent(c, all)
      BY <1>13, <2>4, OnWriteSends
    <3>2. ev[c] = fd[c]
      <4>1. state[c] # "notConnected"
        BY <2>4
      <4> QED
        BY <2>1, <4>1 DEF FdsOwned
    <3>3. /\ DOMAIN epoll' \subseteq listenFds'
          /\ DOMAIN epoll' \subseteq DOMAIN epoll \cup {fd[c]}
      BY <3>1, <3>2, Registering DEF Sent, Registered
    <3>4. \A d \in Clients : d # c => step'[d] = step[d]
      BY <3>1 DEF Sent, TypeOK
    <3>5. live \subseteq Clients
      BY DEF TypeOK
    <3> QED
      BY <2>1, <2>2, <2>4, <3>3, <3>4, <3>5 DEF Registered, FdsOwned
  <2> QED
    BY <2>3, <2>4
<1>14. ASSUME NEW c \in Clients, OnRead(c) PROVE Registered'
  <2>1. c \in live /\ UNCHANGED <<live, fd, ev>>
    BY <1>14 DEF OnRead
  <2>2. CASE state[c] = "connected" /\ sock[c] = "eof"
    <3>1. ev[c] = fd[c]
      BY <2>1, <2>2 DEF FdsOwned
    <3>2. /\ state' = [state EXCEPT ![c] = "closed"]
          /\ step' = [step EXCEPT ![c] = "over"]
          /\ epoll' = IF ev[c] \in listenFds THEN Dropped({ev[c]}) ELSE epoll
          /\ listenFds' = listenFds \ {ev[c]}
      BY <1>14, <2>2 DEF OnRead
    <3>3. /\ DOMAIN epoll' = DOMAIN epoll \ {fd[c]}
          /\ listenFds' = listenFds \ {fd[c]}
      BY <3>1, <3>2 DEF Registered, Dropped
    <3> QED
      BY <2>1, <3>2, <3>3 DEF Registered, FdsOwned, TypeOK
  <2>3. CASE ~(state[c] = "connected" /\ sock[c] = "eof")
    <3>1. UNCHANGED <<state, epoll, listenFds>>
      BY <1>14, <2>3 DEF OnRead
    <3>2. \/ step' = step
          \/ state[c] = "connected" /\ step' = [step EXCEPT ![c] = "over"]
      BY <1>14, <2>3 DEF OnRead
    <3>3. \A d \in Clients : step'[d] = step[d] \/ state[d] = "connected"
      BY <3>2 DEF TypeOK
    <3>4. live \subseteq Clients
      BY DEF TypeOK
    <3> QED
      BY <2>1, <3>1, <3>3, <3>4 DEF Registered
  <2> QED
    BY <2>2, <2>3
<1>15. ASSUME NEW c \in Clients, Establish(c) PROVE Registered'
  BY <1>15
     DEF Establish, Network, TypeOK, FdsOwned, Registered
<1>16. ASSUME NEW c \in Clients, Refuse(c) PROVE Registered'
  BY <1>16
     DEF Refuse, Network, TypeOK, FdsOwned, Registered
<1>17. ASSUME NEW c \in Clients, Reply(c) PROVE Registered'
  BY <1>17
     DEF Reply, Network, TypeOK, FdsOwned, Registered
<1>18. ASSUME NEW c \in Clients, PeerClose(c) PROVE Registered'
  BY <1>18
     DEF PeerClose, Network, TypeOK, FdsOwned, Registered
<1>19. CASE UNCHANGED clientVars
  BY <1>19 DEF clientVars, TypeOK, FdsOwned, Registered
<1> QED
  BY <1>1, <1>2, <1>3, <1>4, <1>5, <1>6, <1>7, <1>8, <1>9, <1>10, <1>11,
      <1>12, <1>13, <1>14, <1>15, <1>16, <1>17, <1>18, <1>19
     DEF Next, User, Loop

(* The callbacks of an fd are its owner's.                                   *)
LEMMA KeepsCallbacksOwn ==
  ASSUME TypeOK, FdsOwned, StepsFit, ConnectTasks, CallbacksOwn,
      [Next]_clientVars
  PROVE  CallbacksOwn'
<1>1. ASSUME NEW c \in Clients, Create(c) PROVE CallbacksOwn'
  <2>1. UserCode /\ fd[c] = NoFd
    BY <1>1 DEF Create
  <2>2. step[c] = "idle" /\ state[c] = "notConnected"
    BY <2>1 DEF StepsFit
  <2> QED
    BY <1>1, <2>2 DEF Create, TypeOK, CallbacksOwn
<1>2. ASSUME NEW c \in Clients, ConnectNow(c) PROVE CallbacksOwn'
  <2>1. c \in live /\ step[c] = "idle" /\ ev[c] = fd[c] /\ fd[c] \in Fds
    BY <1>2 DEF ConnectNow, FdsOwned
  <2>2. state[c] = "notConnected"
    BY <2>1 DEF StepsFit
  <2> QED
    BY <1>2, <2>1, <2>2 DEF ConnectNow, SendMessage, ListenOut, CallbacksOwn,
        FdsOwned, TypeOK
<1>3. ASSUME NEW c \in Clients, ConnectLater(c) PROVE CallbacksOwn'
  <2>1. c \in live /\ step[c] = "idle" /\ ev[c] = fd[c] /\ fd[c] \in Fds
    BY <1>3 DEF ConnectLater, FdsOwned
  <2>2. state[c] = "notConnected"
    BY <2>1 DEF StepsFit
  <2> QED
    BY <1>3, <2>1, <2>2 DEF ConnectLater, ListenOut, CallbacksOwn, FdsOwned,
        TypeOK
<1>4. ASSUME NEW c \in Clients, ConnectFails(c) PROVE CallbacksOwn'
  BY <1>4
     DEF ConnectFails, UserCode, TypeOK, CallbacksOwn
<1>5. ASSUME NEW c \in Clients, Stop(c) PROVE CallbacksOwn'
  BY <1>5
     DEF Stop, TypeOK, CallbacksOwn
<1>6. ASSUME NEW c \in Clients, Destroy(c) PROVE CallbacksOwn'
  BY <1>6
     DEF Destroy, Dropped, TypeOK, CallbacksOwn
<1>7. CASE Return
  BY <1>7
     DEF Return, TypeOK, CallbacksOwn
<1>8. CASE Poll
  BY <1>8
     DEF Poll, Dropped, TypeOK, CallbacksOwn
<1>9. CASE LeaveLoop
  BY <1>9
     DEF LeaveLoop, TypeOK, CallbacksOwn
<1>10. CASE CallGone
  BY <1>10
     DEF CallGone, Runs, TypeOK, CallbacksOwn
<1>11. ASSUME NEW c \in Clients, ConnectedCb(c) PROVE CallbacksOwn'
  <2>0. tasks[1] = <<"connect", c>> /\ 1 \in 1 .. Len(tasks)
    BY <1>11 DEF ConnectedCb, Runs, TypeOK
  <2>1. c \in live /\ step[c] = "connecting" /\ ev[c] = fd[c] /\ fd[c] \in Fds
    BY <1>11, <2>0 DEF ConnectedCb, FdsOwned, ConnectTasks
  <2> QED
    BY <1>11, <2>1 DEF ConnectedCb, SendMessage, ListenOut, CallbacksOwn,
        FdsOwned,
       TypeOK
<1>12. ASSUME NEW c \in Clients, RefusedCb(c) PROVE CallbacksOwn'
  <2>0. tasks[1] = <<"connect", c>> /\ 1 \in 1 .. Len(tasks)
    BY <1>12 DEF RefusedCb, Runs, TypeOK
  <2>1. state[c] = "notConnected"
    BY <1>12, <2>0 DEF RefusedCb, StepsFit, ConnectTasks
  <2> QED
    BY <1>12, <2>1 DEF RefusedCb, CallbacksOwn, TypeOK
<1>13. ASSUME NEW c \in Clients, OnWrite(c) PROVE CallbacksOwn'
  <2>1. c \in live /\ UNCHANGED <<live, fd, ev, state, writeCb>>
    BY <1>13 DEF OnWrite
  <2>2. CASE state[c] # "connected" \/ step[c] # "writing"
    BY <1>13, <2>1, <2>2 DEF OnWrite, CallbacksOwn
  <2>3. CASE state[c] = "connected" /\ step[c] = "writing"
    <3>1. /\ step' = [step EXCEPT ![c] = "reading"]
          /\ readCb' = [readCb EXCEPT ![ev[c]] = c]
      BY <1>13, <2>3 DEF OnWrite, ListenIn
    <3>2. ev[c] = fd[c] /\ fd[c] \in Fds
      BY <2>1, <2>3 DEF FdsOwned
    <3> QED
      BY <2>1, <3>1, <3>2 DEF CallbacksOwn, FdsOwned, TypeOK
  <2> QED
    BY <2>2, <2>3
<1>14. ASSUME NEW c \in Clients, OnRead(c) PROVE CallbacksOwn'
  BY <1>14 DEF OnRead, StepsFit, CallbacksOwn, TypeOK
<1>15. ASSUME NEW c \in Clients, Establish(c) PROVE CallbacksOwn'
  BY <1>15
     DEF Establish, Network, TypeOK, CallbacksOwn
<1>16. ASSUME NEW c \in Clients, Refuse(c) PROVE CallbacksOwn'
  BY <1>16
     DEF Refuse, Network, TypeOK, CallbacksOwn
<1>17. ASSUME NEW c \in Clients, Reply(c) PROVE CallbacksOwn'
  BY <1>17
     DEF Reply, Network, TypeOK, CallbacksOwn
<1>18. ASSUME NEW c \in Clients, PeerClose(c) PROVE CallbacksOwn'
  BY <1>18
     DEF PeerClose, Network, TypeOK, CallbacksOwn
<1>19. CASE UNCHANGED clientVars
  BY <1>19 DEF clientVars, TypeOK, CallbacksOwn
<1> QED
  BY <1>1, <1>2, <1>3, <1>4, <1>5, <1>6, <1>7, <1>8, <1>9, <1>10, <1>11,
      <1>12, <1>13, <1>14, <1>15, <1>16, <1>17, <1>18, <1>19
     DEF Next, User, Loop

(* A client that waits for its reply asks for no EPOLLOUT.                   *)
LEMMA KeepsWaitsQuietly ==
  ASSUME TypeOK, FdsOwned, StepsFit, Registered, ConnectTasks, WaitsQuietly,
      [Next]_clientVars
  PROVE  WaitsQuietly'
<1>1. ASSUME NEW c \in Clients, Create(c) PROVE WaitsQuietly'
  <2>1. UserCode /\ fd[c] = NoFd
    BY <1>1 DEF Create
  <2>2. step[c] = "idle"
    BY <2>1 DEF StepsFit
  <2> QED
    BY <1>1, <2>2 DEF Create, TypeOK, WaitsQuietly
<1>2. ASSUME NEW c \in Clients, ConnectNow(c) PROVE WaitsQuietly'
  <2>1. c \in live /\ step[c] = "idle" /\ ev[c] = fd[c]
    BY <1>2 DEF ConnectNow, FdsOwned
  <2>2. DelAndAdd(fd[c], events[ev[c]] \cup {"out"})
    BY <1>2, <2>1 DEF ConnectNow
  <2>3. \A g \in DOMAIN epoll' :
           g # fd[c] => g \in DOMAIN epoll /\ epoll'[g] = epoll[g]
    BY <2>2, Registering
  <2> QED
    BY <1>2, <2>1, <2>3 DEF ConnectNow, SendMessage, WaitsQuietly, FdsOwned,
        TypeOK
<1>3. ASSUME NEW c \in Clients, ConnectLater(c) PROVE WaitsQuietly'
  <2>1. c \in live /\ step[c] = "idle" /\ ev[c] = fd[c]
    BY <1>3 DEF ConnectLater, FdsOwned
  <2>2. AddEpollEvent(fd[c], events[ev[c]] \cup {"out"})
    BY <1>3, <2>1 DEF ConnectLater
  <2>3. \A g \in DOMAIN epoll' :
           g # fd[c] => g \in DOMAIN epoll /\ epoll'[g] = epoll[g]
    BY <2>2, Registering
  <2> QED
    BY <1>3, <2>1, <2>3 DEF ConnectLater, WaitsQuietly, FdsOwned, TypeOK
<1>4. ASSUME NEW c \in Clients, ConnectFails(c) PROVE WaitsQuietly'
  BY <1>4
     DEF ConnectFails, UserCode, TypeOK, WaitsQuietly
<1>5. ASSUME NEW c \in Clients, Stop(c) PROVE WaitsQuietly'
  BY <1>5
     DEF Stop, TypeOK, WaitsQuietly
<1>6. ASSUME NEW c \in Clients, Destroy(c) PROVE WaitsQuietly'
  BY <1>6
     DEF Destroy, Dropped, TypeOK, WaitsQuietly
<1>7. CASE Return
  BY <1>7
     DEF Return, TypeOK, WaitsQuietly
<1>8. CASE Poll
  BY <1>8
     DEF Poll, Dropped, TypeOK, WaitsQuietly
<1>9. CASE LeaveLoop
  BY <1>9
     DEF LeaveLoop, TypeOK, WaitsQuietly
<1>10. CASE CallGone
  BY <1>10
     DEF CallGone, Runs, TypeOK, WaitsQuietly
<1>11. ASSUME NEW c \in Clients, ConnectedCb(c) PROVE WaitsQuietly'
  <2>0. tasks[1] = <<"connect", c>> /\ 1 \in 1 .. Len(tasks)
    BY <1>11 DEF ConnectedCb, Runs, TypeOK
  <2>1. c \in live /\ step[c] = "connecting" /\ ev[c] = fd[c]
    BY <1>11, <2>0 DEF ConnectedCb, FdsOwned, ConnectTasks
  <2>2. DelAndAdd(fd[c], events[ev[c]] \cup {"out"})
    BY <1>11, <2>1 DEF ConnectedCb
  <2>3. \A g \in DOMAIN epoll' :
           g # fd[c] => g \in DOMAIN epoll /\ epoll'[g] = epoll[g]
    BY <2>2, Registering
  <2> QED
    BY <1>11, <2>1, <2>3 DEF ConnectedCb, SendMessage, WaitsQuietly, FdsOwned,
        TypeOK
<1>12. ASSUME NEW c \in Clients, RefusedCb(c) PROVE WaitsQuietly'
  <2>1. /\ UNCHANGED <<live, unsent>> /\ step' = [step EXCEPT ![c] = "over"]
        /\ \A d \in Clients \ {c} : fd'[d] = fd[d]
        /\ epoll' = Dropped({fd[c]})
    BY <1>12 DEF RefusedCb, TypeOK
  <2> QED
    BY <2>1 DEF WaitsQuietly, Dropped, TypeOK
<1>13. ASSUME NEW c \in Clients, OnWrite(c) PROVE WaitsQuietly'
  <2>1. c \in live
    BY <1>13 DEF OnWrite
  <2>2. UNCHANGED <<live, fd, ev>>
    BY <1>13 DEF OnWrite
  <2>3. CASE state[c] # "connected"
    BY <1>13, <2>3 DEF OnWrite, WaitsQuietly
  <2>4. CASE state[c] = "connected"
    <3>1. PICK all \in BOOLEAN : Sent(c, all)
      BY <1>13, <2>4, OnWriteSends
    <3>2. ev[c] = fd[c]
      <4>1. state[c] # "notConnected"
        BY <2>4
      <4> QED
        BY <2>1, <4>1 DEF FdsOwned
    <3>3. \A g \in DOMAIN epoll' :
             g # fd[c] => g \in DOMAIN epoll /\ epoll'[g] = epoll[g]
      BY <3>1, <3>2, Registering DEF Sent
    <3>4. \A d \in live : d # c =>
             /\ step'[d] = step[d] /\ fd[d] # fd[c]
             /\ d \notin unsent' => d \notin unsent
      BY <2>1, <3>1 DEF Sent, TypeOK, FdsOwned
    <3>5. c \notin unsent' /\ fd[c] \in DOMAIN epoll'
             => "out" \notin epoll'[fd[c]]
      <4>1. CASE all
        <5>1. AddEpollEvent(fd[c], NextEvents(c, TRUE))
          BY <3>1, <3>2, <4>1 DEF Sent
        <5>2. fd[c] \in DOMAIN epoll' => epoll'[fd[c]] = NextEvents(c, TRUE)
          BY <5>1, Registering
        <5> QED
          BY <5>2 DEF NextEvents
      <4>2. CASE ~all
        BY <2>1, <3>1, <4>2 DEF Sent
      <4> QED
        BY <4>1, <4>2
    <3> QED
      BY <2>1, <2>2, <3>3, <3>4, <3>5 DEF WaitsQuietly
  <2> QED
    BY <2>3, <2>4
<1>14. ASSUME NEW c \in Clients, OnRead(c) PROVE WaitsQuietly'
  <2>1. /\ UNCHANGED <<live, fd, unsent>>
        /\ step' = step \/ step' = [step EXCEPT ![c] = "over"]
        /\ epoll' = epoll \/ epoll' = Dropped({ev[c]})
    BY <1>14 DEF OnRead
  <2>2. \A d \in Clients : step'[d] = "reading" => step[d] = "reading"
    BY <2>1 DEF TypeOK
  <2>3. \A f \in DOMAIN epoll' : f \in DOMAIN epoll /\ epoll'[f] = epoll[f]
    BY <2>1 DEF Dropped
  <2>4. live \subseteq Clients
    BY DEF TypeOK
  <2> QED
    BY <2>1, <2>2, <2>3, <2>4 DEF WaitsQuietly
<1>15. ASSUME NEW c \in Clients, Establish(c) PROVE WaitsQuietly'
  BY <1>15
     DEF Establish, Network, TypeOK, WaitsQuietly
<1>16. ASSUME NEW c \in Clients, Refuse(c) PROVE WaitsQuietly'
  BY <1>16
     DEF Refuse, Network, TypeOK, WaitsQuietly
<1>17. ASSUME NEW c \in Clients, Reply(c) PROVE WaitsQuietly'
  BY <1>17
     DEF Reply, Network, TypeOK, WaitsQuietly
<1>18. ASSUME NEW c \in Clients, PeerClose(c) PROVE WaitsQuietly'
  BY <1>18
     DEF PeerClose, Network, TypeOK, WaitsQuietly
<1>19. CASE UNCHANGED clientVars
  BY <1>19 DEF clientVars, TypeOK, WaitsQuietly
<1> QED
  BY <1>1, <1>2, <1>3, <1>4, <1>5, <1>6, <1>7, <1>8, <1>9, <1>10, <1>11,
      <1>12, <1>13, <1>14, <1>15, <1>16, <1>17, <1>18, <1>19
     DEF Next, User, Loop

LEMMA TailConnects ==
  ASSUME ConnectTasks, NEW S, tasks \in Seq(S), tasks # <<>>,
         tasks' = Tail(tasks), NEW i \in 1 .. Len(tasks'), NEW c \in Clients,
         tasks'[i] = <<"connect", c>>
  PROVE  /\ fd[c] # NoFd
         /\ c \in live => step[c] = "connecting"
         /\ \A j \in 1 .. Len(tasks') : tasks'[j] = <<"connect", c>> => j = i
         /\ Head(tasks) # <<"connect", c>>
<1>1. /\ Len(tasks) \in Nat /\ Len(tasks') = Len(tasks) - 1
      /\ 1 \in 1 .. Len(tasks) /\ Head(tasks) = tasks[1]
      /\ \A j \in 1 .. Len(tasks') :
            j + 1 \in 1 .. Len(tasks) /\ tasks'[j] = tasks[j + 1]
  OBVIOUS
<1>2. i + 1 \in 1 .. Len(tasks) /\ tasks[i + 1] = <<"connect", c>>
  BY <1>1
<1>3. /\ fd[c] # NoFd /\ (c \in live => step[c] = "connecting")
      /\ \A j \in 1 .. Len(tasks) : tasks[j] = <<"connect", c>> => j = i + 1
  BY <1>2 DEF ConnectTasks
<1>4. ASSUME NEW j \in 1 .. Len(tasks'), tasks'[j] = <<"connect", c>>
      PROVE  j = i
  <2>1. j + 1 = i + 1
    BY <1>1, <1>3, <1>4
  <2> QED
    BY <2>1
<1>5. Head(tasks) # <<"connect", c>>
  <2>1. 1 # i + 1
    OBVIOUS
  <2> QED
    BY <1>1, <1>3, <2>1
<1> QED
  BY <1>3, <1>4, <1>5

(* A queued connect callback stays the only one of its client.               *)
LEMMA KeepsConnectTasks ==
  ASSUME TypeOK, FdsOwned, StepsFit, Registered, CallbacksOwn, ConnectTasks,
      [Next]_clientVars
  PROVE  ConnectTasks'
<1>1. ASSUME NEW c \in Clients, Create(c) PROVE ConnectTasks'
  <2>1. /\ UNCHANGED <<step, tasks>> /\ live' = live \cup {c} /\ fd[c] = NoFd
        /\ \A d \in Clients : d # c => fd'[d] = fd[d]
    BY <1>1 DEF Create, TypeOK
  <2> QED
    BY <2>1 DEF ConnectTasks
<1>2. ASSUME NEW c \in Clients, ConnectNow(c) PROVE ConnectTasks'
  <2>1. /\ UNCHANGED <<live, fd, tasks>> /\ step[c] = "idle" /\ c \in live
        /\ \A d \in Clients : d # c => step'[d] = step[d]
    BY <1>2 DEF ConnectNow, SendMessage, TypeOK
  <2> QED
    BY <2>1 DEF ConnectTasks
<1>3. ASSUME NEW c \in Clients, ConnectLater(c) PROVE ConnectTasks'
  <2>1. /\ UNCHANGED <<live, fd, tasks>> /\ step[c] = "idle" /\ c \in live
        /\ \A d \in Clients : d # c => step'[d] = step[d]
    BY <1>3 DEF ConnectLater, TypeOK
  <2> QED
    BY <2>1 DEF ConnectTasks
<1>4. ASSUME NEW c \in Clients, ConnectFails(c) PROVE ConnectTasks'
  <2>1. /\ UNCHANGED <<live, fd, tasks>> /\ step[c] = "idle" /\ c \in live
        /\ \A d \in Clients : d # c => step'[d] = step[d]
    BY <1>4 DEF ConnectFails, TypeOK
  <2> QED
    BY <2>1 DEF ConnectTasks
<1>5. ASSUME NEW c \in Clients, Stop(c) PROVE ConnectTasks'
  BY <1>5
     DEF Stop, TypeOK, ConnectTasks
<1>6. ASSUME NEW c \in Clients, Destroy(c) PROVE ConnectTasks'
  BY <1>6 DEF Destroy, ConnectTasks
<1>7. CASE Return
  BY <1>7
     DEF Return, TypeOK, ConnectTasks
<1>8. CASE Poll
  BY <1>8, PollTasks
<1>9. CASE LeaveLoop
  BY <1>9
     DEF LeaveLoop, TypeOK, ConnectTasks
<1>10. CASE CallGone
  <2>1. tasks # <<>> /\ tasks' = Tail(tasks) /\ tasks \in Seq(Task)
    BY <1>10 DEF CallGone, Runs, TypeOK
  <2>2. UNCHANGED <<live, fd, step>>
    BY <1>10 DEF CallGone
  <2> QED
    BY <2>1, <2>2, TailConnects DEF ConnectTasks
<1>11. ASSUME NEW c \in Clients, ConnectedCb(c) PROVE ConnectTasks'
  <2>1. /\ Head(tasks) = <<"connect", c>> /\ UNCHANGED <<live, fd>>
        /\ \A d \in Clients : d # c => step'[d] = step[d]
    BY <1>11 DEF ConnectedCb, Runs, SendMessage, TypeOK
  <2>2. tasks # <<>> /\ tasks' = Tail(tasks) /\ tasks \in Seq(Task)
    BY <1>11 DEF ConnectedCb, Runs, TypeOK
  <2> QED
    BY <2>1, <2>2, TailConnects DEF ConnectTasks
<1>12. ASSUME NEW c \in Clients, RefusedCb(c) PROVE ConnectTasks'
  <2>1. /\ Head(tasks) = <<"connect", c>> /\ UNCHANGED live
        /\ \A d \in Clients : d # c => step'[d] = step[d] /\ fd'[d] = fd[d]
    BY <1>12 DEF RefusedCb, Runs, TypeOK
  <2>2. tasks # <<>> /\ tasks' = Tail(tasks) /\ tasks \in Seq(Task)
    BY <1>12 DEF RefusedCb, Runs, TypeOK
  <2>3. ASSUME NEW i \in 1 .. Len(tasks'), NEW d \in Clients,
               tasks'[i] = <<"connect", d>>
        PROVE  /\ d # c /\ fd[d] # NoFd
               /\ d \in live => step[d] = "connecting"
               /\ \A j \in 1 .. Len(tasks') :
                     tasks'[j] = <<"connect", d>> => j = i
    BY <2>1, <2>2, <2>3, TailConnects
  <2> QED
    BY <2>1, <2>3 DEF ConnectTasks
<1>13. ASSUME NEW c \in Clients, OnWrite(c) PROVE ConnectTasks'
  <2>1. tasks # <<>> /\ tasks' = Tail(tasks) /\ tasks \in Seq(Task)
    BY <1>13 DEF OnWrite, Runs, TypeOK
  <2>2. UNCHANGED <<live, fd>> /\ c \in live
    BY <1>13 DEF OnWrite
  <2>3. \/ step' = step
        \/ step[c] = "writing" /\ step' = [step EXCEPT ![c] = "reading"]
    BY <1>13 DEF OnWrite
  <2>4. \A d \in Clients : step[d] = "connecting" => step'[d] = "connecting"
    BY <2>3 DEF TypeOK
  <2> QED
    BY <2>1, <2>2, <2>4, TailConnects DEF ConnectTasks
<1>14. ASSUME NEW c \in Clients, OnRead(c) PROVE ConnectTasks'
  <2>1. tasks # <<>> /\ tasks' = Tail(tasks) /\ tasks \in Seq(Task)
    BY <1>14 DEF OnRead, Runs, TypeOK
  <2>2. UNCHANGED <<live, fd>>
    BY <1>14 DEF OnRead
  <2>3. \A d \in Clients : step'[d] = step[d] \/ state[d] = "connected"
    BY <1>14 DEF OnRead, TypeOK
  <2>4. \A d \in Clients : step[d] = "connecting" => step'[d] = "connecting"
    BY <2>3 DEF StepsFit
  <2> QED
    BY <2>1, <2>2, <2>4, TailConnects DEF ConnectTasks
<1>15. ASSUME NEW c \in Clients, Establish(c) PROVE ConnectTasks'
  BY <1>15
     DEF Establish, Network, TypeOK, ConnectTasks
<1>16. ASSUME NEW c \in Clients, Refuse(c) PROVE ConnectTasks'
  BY <1>16
     DEF Refuse, Network, TypeOK, ConnectTasks
<1>17. ASSUME NEW c \in Clients, Reply(c) PROVE ConnectTasks'
  BY <1>17
     DEF Reply, Network, TypeOK, ConnectTasks
<1>18. ASSUME NEW c \in Clients, PeerClose(c) PROVE ConnectTasks'
  BY <1>18
     DEF PeerClose, Network, TypeOK, ConnectTasks
<1>19. CASE UNCHANGED clientVars
  BY <1>19 DEF clientVars, TypeOK, ConnectTasks
<1> QED
  BY <1>1, <1>2, <1>3, <1>4, <1>5, <1>6, <1>7, <1>8, <1>9, <1>10, <1>11,
      <1>12, <1>13, <1>14, <1>15, <1>16, <1>17, <1>18, <1>19
     DEF Next, User, Loop

LEMMA InitIInv == Init => IInv
<1> SUFFICES ASSUME Init PROVE IInv
  OBVIOUS
<1>1. DOMAIN epoll = {} /\ tasks = <<>> /\ live = {} /\ listenFds = {}
  BY DEF Init
<1>2. TypeOK
  <2>1. tasks \in Seq(Task)
    BY <1>1
  <2> QED
    BY <1>1, <2>1 DEF Init, TypeOK, Bits, Task
<1>3. StepsFit
  BY DEF Init, StepsFit
<1>4. FdsOwned /\ Registered /\ CallbacksOwn /\ WaitsQuietly
  BY <1>1 DEF FdsOwned, Registered, CallbacksOwn, WaitsQuietly
<1>5. ConnectTasks
  BY <1>1 DEF ConnectTasks
<1> QED
  BY <1>2, <1>3, <1>4, <1>5 DEF IInv

LEMMA NextIInv == IInv /\ [Next]_clientVars => IInv'
  BY KeepsTypeOK, KeepsFdsOwned, KeepsStepsFit, KeepsRegistered,
     KeepsCallbacksOwn, KeepsConnectTasks, KeepsWaitsQuietly DEF IInv

LEMMA IInvImplies ==
  IInv => TypeOK /\ RegisteredForOwner /\ WaitsQuietly /\ ConnectCallbackOnce
<1> SUFFICES ASSUME IInv PROVE RegisteredForOwner /\ ConnectCallbackOnce
  BY DEF IInv
<1>1. ASSUME NEW f \in DOMAIN epoll
      PROVE  \E c \in live :
                /\ fd[c] = f
                /\ "out" \in epoll[f] => writeCb[f][2] = c
                /\ state[c] = "connected" /\ step[c] # "writing"
                      => readCb[f] = c
  <2>1. PICK c \in live : fd[c] = f
    BY DEF IInv, Registered
  <2>2. writeCb[f] = <<"connect", c>> \/ writeCb[f] = <<"write", c>>
    BY <2>1 DEF IInv, Registered, CallbacksOwn
  <2>3. writeCb[f][2] = c
    BY <2>2
  <2>4. state[c] = "connected" /\ step[c] # "writing" => readCb[f] = c
    BY <2>1 DEF IInv, CallbacksOwn
  <2> QED
    BY <2>1, <2>3, <2>4
<1>2. ASSUME NEW c \in live \cap answered
      PROVE  /\ \A i \in DOMAIN tasks : tasks[i] # <<"connect", c>>
             /\ fd[c] \in DOMAIN epoll => writeCb[fd[c]] # <<"connect", c>>
  <2>1. c \in Clients /\ c \in live /\ step[c] # "connecting"
    BY DEF IInv, TypeOK, StepsFit
  <2>2. DOMAIN tasks = 1 .. Len(tasks)
    BY DEF IInv, TypeOK
  <2>3. \A i \in DOMAIN tasks : tasks[i] # <<"connect", c>>
    BY <2>1, <2>2 DEF IInv, ConnectTasks
  <2>4. fd[c] \in DOMAIN epoll => writeCb[fd[c]] = <<"write", c>>
    BY <2>1 DEF IInv, Registered, CallbacksOwn
  <2>5. <<"write", c>> # <<"connect", c>>
    OBVIOUS
  <2> QED
    BY <2>3, <2>4, <2>5
<1> QED
  BY <1>1, <1>2 DEF RegisteredForOwner, ConnectCallbackOnce

(* The state of the clients, the epoll set and the loop stays in its types.  *)
THEOREM TypeCorrect == Spec => []TypeOK
<1>1. IInv => TypeOK
  BY IInvImplies
<1> QED
  BY <1>1, InitIInv, NextIInv, PTL DEF Spec

(* The epoll set holds no closed fd, and none whose EPOLLOUT callback an     *)
(* earlier client of the same number has left in the fdEvent, nor its        *)
(* EPOLLIN callback once the owner has asked for its reply: for any number   *)
(* of clients, fds and callbacks that create and destroy other clients.      *)
THEOREM EpollIsOwned == Spec => []RegisteredForOwner
<1>1. IInv => RegisteredForOwner
  BY IInvImplies
<1> QED
  BY <1>1, InitIInv, NextIInv, PTL DEF Spec

(* A connection that has sent all and waits for its reply does not make      *)
(* loop() spin on EPOLLOUT.                                                  *)
THEOREM NoSpinning == Spec => []WaitsQuietly
<1>1. IInv => WaitsQuietly
  BY IInvImplies
<1> QED
  BY <1>1, InitIInv, NextIInv, PTL DEF Spec

(* Once tcp_connect's callback has run it is nowhere left to run again: not  *)
(* in the callbacks queued with it, not in the fdEvent epoll reports to.     *)
THEOREM ConnectsOnce == Spec => []ConnectCallbackOnce
<1>1. IInv => ConnectCallbackOnce
  BY IInvImplies
<1> QED
  BY <1>1, InitIInv, NextIInv, PTL DEF Spec
=============================================================================
