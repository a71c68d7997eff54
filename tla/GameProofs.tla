----------------------------- MODULE GameProofs -----------------------------
(* Proofs about a message on its way (Messages), the world of roles          *)
(* (AoiWorld) and the calls the roles make (GameSync), for worlds of any     *)
(* size, any roles, names, texts and values.  First what the messages of     *)
(* Protobuf are read as, how large they are and what keeps them formed, then *)
(* Messages, then the world, and last the game, of which the world is the    *)
(* abstraction.                                                              *)
EXTENDS GameSync, Messages, FiniteSetTheorems, SequenceTheorems,
        WellFoundedInduction, TLAPS

(* Every set of numbers that is not empty has a least element.              *)
LEMMA LeastNumber ==
  ASSUME NEW T \in SUBSET Nat, T # {}
  PROVE  \E n \in T : \A k \in T : n <= k
<1>1. PICK n \in T : \A k \in T : ~(<<k, n>> \in OpToRel(<, Nat))
  BY WFMin, NatLessThanWellFounded, Zenon
<1>2. ASSUME NEW k \in T PROVE ~(k < n)
  <2>1. k \in Nat /\ n \in Nat
    OBVIOUS
  <2>2. ASSUME k < n PROVE <<k, n>> \in OpToRel(<, Nat)
    BY <2>1, <2>2 DEF OpToRel
  <2> QED
    BY <1>1, <2>2, Zenon
<1>3. \A k \in T : n <= k
  <2>1. \A k \in T : k \in Nat /\ n \in Nat /\ ~(k < n)
    BY <1>2, Zenon
  <2> QED
    BY <2>1, SMT
<1> QED
  BY <1>3, Zenon

(* Induction up to a number: P is the set of those of which something holds. *)
LEMMA UpTo ==
  ASSUME NEW N \in Nat, NEW P, 0 \in P,
         \A n \in 0 .. N : n \in P /\ n < N => n + 1 \in P
  PROVE  \A n \in 0 .. N : n \in P
<1> DEFINE T == {n \in 0 .. N : n \notin P}
<1> SUFFICES ASSUME T # {} PROVE FALSE
  OBVIOUS
<1>1. PICK k \in T : \A j \in T : k <= j
  <2>1. T \in SUBSET Nat
    OBVIOUS
  <2> HIDE DEF T
  <2> QED
    BY <2>1, LeastNumber, Zenon
<1>2. k - 1 \in 0 .. N /\ k - 1 \in P /\ k - 1 < N /\ k - 1 + 1 = k
  BY <1>1
<1> QED
  BY <1>1, <1>2

(* The tables: what is true of the fields of every class.                   *)
LeafClasses  == Classes \ {"SyncPlayers", "Player", "BroadCast"}
InnerClasses == Classes \ {"SyncPlayers"}

ScalarTypes == {"string", "float", "int32", "int64", "enum"}
WireType(type) == IF type = "float" THEN 5
                  ELSE IF type \in {"int32", "int64", "enum"} THEN 0 ELSE 2

(* What the table of the fields and that of the tags have in common.        *)
LEMMA ClassTable ==
  ASSUME NEW c \in Classes
  PROVE  /\ Len(Fields[c]) \in 1 .. 7 /\ DOMAIN Fields[c] = 1 .. Len(Fields[c])
         /\ DOMAIN Tags[c] = DOMAIN Fields[c]
         /\ \A n \in DOMAIN Fields[c] :
              /\ Tags[c][n] \in Nat /\ Tags[c][n] \div 8 = n
              /\ Tags[c][n] % 8 = WireType(Fields[c][n])
              /\ Fields[c][n] \in ScalarTypes \cup {"Position", "Player"}
              /\ c \in LeafClasses => Fields[c][n] \in ScalarTypes
              /\ c \in InnerClasses => Fields[c][n] # "Player"
         /\ c = "SyncPlayers" => Fields[c] = <<"Player">>
         /\ c = "BroadCast" => Len(Fields[c]) = 5
<1> USE DEF Classes, Fields, Tags, LeafClasses, InnerClasses, ScalarTypes, WireType
<1>0. c \in {"SyncPid",
             "SyncPidResponse",
             "Talk",
             "Position",
             "BroadCast",
             "SyncPid_A",
             "SyncPlayers",
             "SyncPlayersResponse",
             "Player",
             "DisconnectNtf",
             "LoginReq",
             "LoginAck",
             "makeOrderRequest",
             "makeOrderResponse"}
  OBVIOUS
<1>1. CASE c = "SyncPid"
  BY <1>1 DEF SyncPidFields, SyncPidTags
<1>2. CASE c = "SyncPidResponse"
  BY <1>2 DEF SyncPidResponseFields, SyncPidResponseTags
<1>3. CASE c = "Talk"
  BY <1>3 DEF TalkFields, TalkTags
<1>4. CASE c = "Position"
  BY <1>4 DEF PositionFields, PositionTags
<1>5. CASE c = "BroadCast"
  BY <1>5 DEF BroadCastFields, BroadCastTags
<1>6. CASE c = "SyncPid_A"
  BY <1>6 DEF SyncPid_AFields, SyncPid_ATags
<1>7. CASE c = "SyncPlayers"
  BY <1>7 DEF SyncPlayersFields, SyncPlayersTags
<1>8. CASE c = "SyncPlayersResponse"
  BY <1>8 DEF SyncPlayersResponseFields, SyncPlayersResponseTags
<1>9. CASE c = "Player"
  BY <1>9 DEF PlayerFields, PlayerTags
<1>10. CASE c = "DisconnectNtf"
  BY <1>10 DEF DisconnectNtfFields, DisconnectNtfTags
<1>11. CASE c = "LoginReq"
  BY <1>11 DEF LoginReqFields, LoginReqTags
<1>12. CASE c = "LoginAck"
  BY <1>12 DEF LoginAckFields, LoginAckTags
<1>13. CASE c = "makeOrderRequest"
  BY <1>13 DEF MakeOrderRequestFields, MakeOrderRequestTags
<1>14. CASE c = "makeOrderResponse"
  BY <1>14 DEF MakeOrderResponseFields, MakeOrderResponseTags
<1> QED
  BY ONLY <1>0, <1>1, <1>2, <1>3, <1>4, <1>5, <1>6, <1>7, <1>8, <1>9, <1>10, <1>11, <1>12, <1>13, <1>14

(* Which types are messages, and which messages hold others.                *)
LEMMA IsMessageType ==
  /\ "Position" \in LeafClasses /\ "Player" \in InnerClasses
  /\ LeafClasses \subseteq InnerClasses /\ InnerClasses \subseteq Classes
  /\ \A type \in ScalarTypes : ~IsMessage(type)
  /\ IsMessage("Position") /\ IsMessage("Player")
  BY DEF Classes, Fields, IsMessage, LeafClasses, InnerClasses, ScalarTypes

(* The elements of two sequences one behind the other.                      *)
LEMMA Joined ==
  ASSUME NEW S, NEW s \in Seq(S), NEW t \in Seq(S)
  PROVE  /\ s \o t \in Seq(S) /\ Len(s \o t) = Len(s) + Len(t)
         /\ Len(s) \in Nat /\ Len(t) \in Nat
         /\ \A i \in 1 .. Len(s) : (s \o t)[i] = s[i]
         /\ \A i \in 1 .. Len(t) : (s \o t)[Len(s) + i] = t[i]
  OBVIOUS

(* FlattenSeq puts q[n] behind the p[n - 1] elements of those before it.    *)
Places(q, N, p) ==
    /\ p \in [0 .. N -> Nat] /\ p[0] = 0 /\ Len(FlattenSeq(q)) = p[N]
    /\ \A n \in 1 .. N :
         /\ p[n] = p[n - 1] + Len(q[n]) /\ p[n] <= p[N]
         /\ \A j \in 1 .. Len(q[n]) : FlattenSeq(q)[p[n - 1] + j] = q[n][j]

(* FlattenSeq joins sequences: each starts where the one before it ends.    *)
LEMMA Flattened ==
  ASSUME NEW N \in Nat \ {0}, NEW S, NEW q \in [1 .. N -> Seq(S)]
  PROVE  FlattenSeq(q) \in Seq(S) /\ \E p : Places(q, N, p)
<1> DEFINE Is(k, f) == f = [i \in 1 .. k |-> IF i = 1 THEN q[i] ELSE f[i - 1] \o q[i]]
           P == {k \in Nat : k = 0 \/ \E f : Is(k, f)}
<1>1. \E f : Is(N, f)
  <2>1. 0 \in P
    OBVIOUS
  <2>2. ASSUME NEW n \in 0 .. N, n \in P, n < N PROVE n + 1 \in P
    <3>1. CASE n = 0
      <4>1. Is(1, [i \in 1 .. 1 |-> q[i]])
        OBVIOUS
      <4> HIDE DEF Is
      <4> QED
        BY <3>1, <4>1
    <3>2. CASE n # 0
      <4>1. PICK f : Is(n, f)
        BY <2>2, <3>2
      <4> DEFINE g == [i \in 1 .. n + 1 |-> IF i = n + 1 THEN f[n] \o q[i] ELSE f[i]]
      <4>2. \A i \in 1 .. n : f[i] = IF i = 1 THEN q[i] ELSE f[i - 1] \o q[i]
        BY <4>1, Zenon
      <4>3. ASSUME NEW i \in 1 .. n + 1
            PROVE  g[i] = IF i = 1 THEN q[i] ELSE g[i - 1] \o q[i]
        <5>1. CASE i = n + 1
          <6>1. i - 1 = n /\ n \in 1 .. n + 1 /\ n # n + 1 /\ i # 1
            BY <2>2, <3>2, <5>1
          <6>2. g[i] = f[n] \o q[i] /\ g[n] = f[n]
            BY <5>1, <6>1
          <6> QED
            BY <6>1, <6>2
        <5>2. CASE i # n + 1
          <6>1. i \in 1 .. n /\ g[i] = f[i] /\ (i # 1 => g[i - 1] = f[i - 1])
            BY <2>2, <5>2
          <6> QED
            BY <4>2, <6>1
        <5> QED
          BY <5>1, <5>2
      <4>4. Is(n + 1, g)
        <5>1. g = [i \in 1 .. n + 1 |-> g[i]]
          BY DEF g
        <5> HIDE DEF g
        <5> QED
          BY <4>3, <5>1
      <4> HIDE DEF g, Is
      <4> QED
        BY <2>2, <4>4
    <3> QED
      BY <3>1, <3>2
  <2> HIDE DEF P
  <2>3. \A n \in 0 .. N : n \in P
    <3>1. \A n \in 0 .. N : n \in P /\ n < N => n + 1 \in P
      BY <2>2
    <3> QED
      BY <2>1, <3>1, UpTo, Zenon
  <2>4. N \in P
    BY <2>3
  <2> HIDE DEF Is
  <2> QED
    BY <2>4 DEF P
<1> HIDE DEF P
<1> DEFINE c == CHOOSE f : Is(N, f)
<1>2. Is(N, c)
  BY <1>1, Zenon
<1>3. FlattenSeq(q) = c[N]
  <2>1. Len(q) = N /\ N # 0
    OBVIOUS
  <2> QED
    BY <2>1 DEF FlattenSeq
<1> HIDE DEF c
<1>4. \A i \in 1 .. N : c[i] = IF i = 1 THEN q[i] ELSE c[i - 1] \o q[i]
  BY <1>2, Zenon
<1> HIDE DEF Is
<1> DEFINE Q == {k \in 0 .. N :
                   k # 0 => /\ c[k] \in Seq(S)
                            /\ \A n \in 1 .. k : /\ c[n] \in Seq(S)
                                                 /\ Len(c[n]) <= Len(c[k])
                                                 /\ \A i \in 1 .. Len(c[n]) :
                                                      c[k][i] = c[n][i]}
<1>5. N \in Q
  <2>1. 0 \in Q
    OBVIOUS
  <2>2. ASSUME NEW n \in 0 .. N, n \in Q, n < N PROVE n + 1 \in Q
    <3>1. CASE n = 0
      <4>1. c[1] = q[1] /\ q[1] \in Seq(S) /\ n + 1 = 1
        BY <1>4, <3>1
      <4> QED
        BY <2>2, <4>1
    <3>2. CASE n # 0
      <4> DEFINE j == n + 1
      <4>1. j \in 1 .. N /\ j # 1 /\ j - 1 = n /\ n \in 1 .. N
        BY <2>2, <3>2
      <4>2. /\ c[n] \in Seq(S) /\ q[j] \in Seq(S)
            /\ \A k \in 1 .. n : /\ c[k] \in Seq(S) /\ Len(c[k]) <= Len(c[n])
                                 /\ \A i \in 1 .. Len(c[k]) : c[n][i] = c[k][i]
        BY <2>2, <3>2, <4>1
      <4>3. \A k \in 1 .. j : k = j \/ k \in 1 .. n
        BY <2>2
      <4> HIDE DEF j
      <4>4. c[j] = c[n] \o q[j]
        BY <1>4, <4>1
      <4>5. /\ c[j] \in Seq(S) /\ Len(c[j]) = Len(c[n]) + Len(q[j])
            /\ Len(c[n]) \in Nat /\ Len(q[j]) \in Nat
            /\ \A i \in 1 .. Len(c[n]) : c[j][i] = c[n][i]
        <5>1. c[n] \in Seq(S) /\ q[j] \in Seq(S)
          BY <4>2
        <5>2. /\ c[n] \o q[j] \in Seq(S)
              /\ Len(c[n] \o q[j]) = Len(c[n]) + Len(q[j])
              /\ Len(c[n]) \in Nat /\ Len(q[j]) \in Nat
              /\ \A i \in 1 .. Len(c[n]) : (c[n] \o q[j])[i] = c[n][i]
          <6>1. c[n] \o q[j] \in Seq(S)
            BY <5>1, Joined
          <6>2. Len(c[n] \o q[j]) = Len(c[n]) + Len(q[j])
            BY <5>1, Joined
          <6>3. Len(c[n]) \in Nat /\ Len(q[j]) \in Nat
            BY <5>1, Joined
          <6>4. ASSUME NEW i \in 1 .. Len(c[n]) PROVE (c[n] \o q[j])[i] = c[n][i]
            <7> DEFINE s == c[n]
                       t == q[j]
            <7>1. s \in Seq(S) /\ t \in Seq(S) /\ i \in 1 .. Len(s)
              BY <5>1
            <7> HIDE DEF s, t
            <7>2. (s \o t)[i] = s[i]
              BY ONLY <7>1, Joined
            <7> QED
              BY <7>2 DEF s, t
          <6> QED
            BY <6>1, <6>2, <6>3, <6>4
        <5> QED
          BY ONLY <4>4, <5>2
      <4>6. ASSUME NEW k \in 1 .. j
            PROVE  /\ c[k] \in Seq(S) /\ Len(c[k]) <= Len(c[j])
                   /\ \A i \in 1 .. Len(c[k]) : c[j][i] = c[k][i]
        <5>1. CASE k = j
          <6>1. /\ c[j] \in Seq(S) /\ Len(c[j]) <= Len(c[j])
                /\ \A i \in 1 .. Len(c[j]) : c[j][i] = c[j][i]
            BY <4>5
          <6> QED
            BY <5>1, <6>1
        <5>2. CASE k \in 1 .. n
          <6>1. /\ c[k] \in Seq(S) /\ Len(c[k]) \in Nat /\ Len(c[k]) <= Len(c[n])
                /\ \A i \in 1 .. Len(c[k]) : c[n][i] = c[k][i]
            BY <4>2, <5>2
          <6>2. \A i \in 1 .. Len(c[k]) : i \in 1 .. Len(c[n])
            BY <4>5, <6>1
          <6>3. \A i \in 1 .. Len(c[k]) : c[j][i] = c[k][i]
            BY <4>5, <6>1, <6>2
          <6>4. c[k] \in Seq(S) /\ Len(c[k]) <= Len(c[j])
            <7>1. /\ Len(c[j]) = Len(c[n]) + Len(q[j])
                  /\ Len(c[n]) \in Nat /\ Len(q[j]) \in Nat
              BY <4>5
            <7>2. Len(c[k]) \in Nat /\ Len(c[k]) <= Len(c[n])
              BY <6>1
            <7>3. Len(c[k]) <= Len(c[j])
              <8> DEFINE a == Len(c[k])
                         b == Len(c[n])
                         d == Len(q[j])
              <8>1. a \in Nat /\ b \in Nat /\ d \in Nat /\ a <= b
                BY <7>1, <7>2
              <8>2. Len(c[j]) = b + d
                BY <7>1
              <8> HIDE DEF a, b, d
              <8>3. a <= b + d
                BY <8>1
              <8> QED
                BY <8>2, <8>3 DEF a
            <7> QED
              BY <6>1, <7>3
          <6> QED
            BY <6>3, <6>4
        <5> QED
          BY <4>3, <5>1, <5>2
      <4>7. j \in 0 .. N /\ c[j] \in Seq(S)
        BY <4>1, <4>5
      <4>8. \A k \in 1 .. j : /\ c[k] \in Seq(S) /\ Len(c[k]) <= Len(c[j])
                             /\ \A i \in 1 .. Len(c[k]) : c[j][i] = c[k][i]
        BY <4>6
      <4>9. j \in Q
        BY ONLY <4>7, <4>8
      <4> QED
        BY <4>9 DEF j
    <3> QED
      BY <3>1, <3>2
  <2>3. \A n \in 0 .. N : n \in Q
    <3> HIDE DEF Q
    <3>1. \A n \in 0 .. N : n \in Q /\ n < N => n + 1 \in Q
      BY <2>2
    <3> QED
      BY <2>1, <3>1, UpTo, Zenon
  <2> QED
    BY <2>3
<1>6. /\ c[N] \in Seq(S)
      /\ \A n \in 1 .. N : /\ c[n] \in Seq(S) /\ Len(c[n]) <= Len(c[N])
                           /\ \A i \in 1 .. Len(c[n]) : c[N][i] = c[n][i]
  BY <1>5
<1> DEFINE p == [n \in 0 .. N |-> IF n = 0 THEN 0 ELSE Len(c[n])]
<1>7. p \in [0 .. N -> Nat] /\ p[0] = 0 /\ Len(FlattenSeq(q)) = p[N]
  BY <1>3, <1>6
<1>8. ASSUME NEW n \in 1 .. N
      PROVE  /\ p[n] = p[n - 1] + Len(q[n]) /\ p[n] <= p[N]
             /\ \A j \in 1 .. Len(q[n]) : FlattenSeq(q)[p[n - 1] + j] = q[n][j]
  <2>1. CASE n = 1
    <3>1. c[1] = q[1] /\ p[n] = Len(q[1]) /\ p[n - 1] = 0 /\ q[1] \in Seq(S)
      BY <1>4, <2>1
    <3> QED
      BY <1>3, <1>6, <2>1, <3>1
  <2>2. CASE n # 1
    <3> DEFINE j == n - 1
    <3>1. j \in 1 .. N /\ j \in 0 .. N /\ j # 0 /\ n \in 0 .. N /\ n # 0 /\ N \in 0 .. N
      BY <2>2
    <3>2. c[n] = c[j] \o q[n]
      BY <1>4, <2>2
    <3> HIDE DEF j
    <3>3. c[j] \in Seq(S) /\ q[n] \in Seq(S)
      BY <1>6, <3>1
    <3>4. p[n] = Len(c[n]) /\ p[j] = Len(c[j]) /\ p[N] = Len(c[N])
      BY <3>1
    <3>5. /\ Len(c[n]) = Len(c[j]) + Len(q[n])
          /\ \A i \in 1 .. Len(q[n]) : c[n][Len(c[j]) + i] = q[n][i]
      <4>1. /\ Len(c[j] \o q[n]) = Len(c[j]) + Len(q[n])
            /\ \A i \in 1 .. Len(q[n]) : (c[j] \o q[n])[Len(c[j]) + i] = q[n][i]
        BY <3>3, Joined
      <4> QED
        BY <3>2, <4>1
    <3>6. p[n] = p[j] + Len(q[n]) /\ p[n] <= p[N]
      BY <1>6, <3>4, <3>5
    <3> HIDE DEF p
    <3>7. ASSUME NEW i \in 1 .. Len(q[n]) PROVE FlattenSeq(q)[p[j] + i] = q[n][i]
      <4>1. p[j] + i \in 1 .. Len(c[n])
        BY <3>3, <3>4, <3>5
      <4>2. c[n][p[j] + i] = q[n][i]
        BY ONLY <3>4, <3>5, <3>7
      <4> QED
        BY <1>3, <1>6, <4>1, <4>2
    <3> QED
      BY <3>6, <3>7 DEF j
  <2> QED
    BY <2>1, <2>2
<1> HIDE DEF p
<1>9. Places(q, N, p)
  BY <1>7, <1>8 DEF Places
<1> QED
  BY <1>3, <1>6, <1>9

(* Every element of it is one of some q[n].                                 *)
Covers(q, N, p) ==
    \A i \in 1 .. p[N] : \E n \in 1 .. N : \E j \in 1 .. Len(q[n]) : i = p[n - 1] + j

(* Each place of the joined sequence is a place in one of them.             *)
LEMMA Located ==
  ASSUME NEW N \in Nat \ {0}, NEW S, NEW q \in [1 .. N -> Seq(S)], NEW p, Places(q, N, p)
  PROVE  Covers(q, N, p)
<1> USE DEF Places
<1> SUFFICES ASSUME NEW i \in 1 .. p[N]
             PROVE  \E n \in 1 .. N : \E j \in 1 .. Len(q[n]) : i = p[n - 1] + j
  BY DEF Covers
<1> DEFINE T == {n \in 0 .. N : i <= p[n]}
<1>1. N \in T /\ T \in SUBSET Nat
  OBVIOUS
<1>2. PICK n \in T : \A k \in T : n <= k
  <2> HIDE DEF T
  <2> QED
    BY <1>1, LeastNumber, Zenon
<1>3. n \in 1 .. N /\ n - 1 \in 0 .. N
  BY <1>2
<1>4. p[n - 1] \in Nat /\ p[n] \in Nat /\ i <= p[n] /\ p[n] = p[n - 1] + Len(q[n])
      /\ Len(q[n]) \in Nat
  BY <1>2, <1>3
<1>5. ~(i <= p[n - 1])
  BY <1>2, <1>3
<1>6. i - p[n - 1] \in 1 .. Len(q[n]) /\ i = p[n - 1] + (i - p[n - 1])
  BY <1>4, <1>5
<1> QED
  BY <1>3, <1>6

(* What a _InternalParse does: r[i] is what the first i fields of the w     *)
(* make of m, and sub[i] what the class of a submessage makes of field i.   *)
IsRun(class, m, w, sub, r) ==
    /\ r[0] = [ok |-> TRUE, m |-> m]
    /\ \A i \in 1 .. Len(w) : r[i] = ReadField(class, r[i - 1], w[i], sub[i])

SubType(class, field)    == Fields[class][field.tag \div 8]
SubBefore(class, m, field) == Mutable(class, m, field.tag \div 8)

ParseRun(class, m, w, sub, r) ==
    /\ IsRun(class, m, w, sub, r)
    /\ ParseInto(class, m, w) = r[Len(w)]
    /\ \A i \in 1 .. Len(w) :
         sub[i] = InnerParse(SubType(class, w[i]), SubBefore(class, r[i - 1].m, w[i]),
                             w[i].v.fields)

(* Reading is a run over the fields of the wire, one step for each.         *)
LEMMA ParseIntoRuns ==
  ASSUME NEW class, NEW m, NEW w, Len(w) \in Nat
  PROVE  \E sub, r : ParseRun(class, m, w, sub, r)
<1> DEFINE Sub(st, i) == InnerParse(SubType(class, w[i]), SubBefore(class, st.m, w[i]), w[i].v.fields)
           Step(st, i) == ReadField(class, st, w[i], Sub(st, i))
           Is(k, f)    == f = [i \in 0 .. k |-> IF i = 0 THEN [ok |-> TRUE, m |-> m]
                                               ELSE Step(f[i - 1], i)]
           P == {k \in Nat : \E f : Is(k, f)}
<1>1. \E f : Is(Len(w), f)
  <2> HIDE DEF Step
  <2>1. 0 \in P
    <3>1. Is(0, [i \in 0 .. 0 |-> [ok |-> TRUE, m |-> m]])
      OBVIOUS
    <3> QED
      BY <3>1, Zenon
  <2>2. ASSUME NEW n \in 0 .. Len(w), n \in P PROVE n + 1 \in P
    <3>1. PICK f : Is(n, f)
      BY <2>2
    <3> DEFINE g == [i \in 0 .. n + 1 |-> IF i = n + 1 THEN Step(f[n], i) ELSE f[i]]
    <3>2. \A i \in 0 .. n : f[i] = IF i = 0 THEN [ok |-> TRUE, m |-> m]
                                   ELSE Step(f[i - 1], i)
      BY <3>1, Zenon
    <3>3. ASSUME NEW i \in 0 .. n + 1
          PROVE  g[i] = IF i = 0 THEN [ok |-> TRUE, m |-> m] ELSE Step(g[i - 1], i)
      <4>1. CASE i = n + 1
        <5>1. g[i] = Step(f[n], i) /\ i # 0 /\ i - 1 = n /\ g[n] = f[n]
          BY <2>2, <4>1
        <5> QED
          BY <5>1
      <4>2. CASE i # n + 1
        <5>1. i \in 0 .. n /\ g[i] = f[i] /\ (i # 0 => g[i - 1] = f[i - 1])
          BY <2>2, <4>2
        <5> QED
          BY <3>2, <5>1
      <4> QED
        BY <4>1, <4>2
    <3>4. Is(n + 1, g)
      <4>1. g = [i \in 0 .. n + 1 |-> g[i]]
        BY DEF g
      <4> HIDE DEF g
      <4> QED
        BY <3>3, <4>1
    <3> HIDE DEF g, Is
    <3> QED
      BY <2>2, <3>4
  <2> HIDE DEF P
  <2>3. \A n \in 0 .. Len(w) : n \in P
    <3>1. \A n \in 0 .. Len(w) : n \in P /\ n < Len(w) => n + 1 \in P
      BY <2>2
    <3> QED
      BY <2>1, <3>1, UpTo, Zenon
  <2> QED
    BY <2>3 DEF P
<1> HIDE DEF P
<1> DEFINE r   == CHOOSE f : Is(Len(w), f)
           sub == [i \in 1 .. Len(w) |-> Sub(r[i - 1], i)]
<1>2. Is(Len(w), r)
  BY <1>1, Zenon
<1>3. ParseInto(class, m, w) = r[Len(w)]
  BY DEF ParseInto, ParseWith, SubType, SubBefore
<1> HIDE DEF r
<1>4. \A i \in 1 .. Len(w) : sub[i] = Sub(r[i - 1], i)
  OBVIOUS
<1>5. r[0] = [ok |-> TRUE, m |-> m]
  BY <1>2
<1>6. \A i \in 1 .. Len(w) : r[i] = Step(r[i - 1], i)
  <2> HIDE DEF Step
  <2>1. \A i \in 0 .. Len(w) : r[i] = IF i = 0 THEN [ok |-> TRUE, m |-> m]
                                       ELSE Step(r[i - 1], i)
    BY <1>2, Zenon
  <2> QED
    BY <2>1
<1> HIDE DEF sub
<1>7. IsRun(class, m, w, sub, r)
  BY <1>4, <1>5, <1>6, Zenon DEF IsRun
<1> QED
  BY <1>3, <1>4, <1>7, Zenon DEF ParseRun

(* A tag that a parser takes is that of one of the fields; a submessage is a *)
(* Position or a Player, and only SyncPlayers holds Players.                *)
LEMMA KnownTag ==
  ASSUME NEW c \in Classes, NEW tag \in Range(Tags[c])
  PROVE  /\ tag \div 8 \in DOMAIN Fields[c] /\ tag = Tags[c][tag \div 8]
         /\ c \in LeafClasses => ~IsMessage(Fields[c][tag \div 8])
         /\ c \in InnerClasses /\ IsMessage(Fields[c][tag \div 8]) =>
              Fields[c][tag \div 8] = "Position"
<1>1. PICK n \in DOMAIN Tags[c] : tag = Tags[c][n]
  BY DEF Range
<1>2. n \in DOMAIN Fields[c] /\ tag \div 8 = n
  BY <1>1, ClassTable
<1>3. c \in LeafClasses => ~IsMessage(Fields[c][n])
  BY <1>2, ClassTable, IsMessageType
<1>4. c \in InnerClasses /\ IsMessage(Fields[c][n]) => Fields[c][n] = "Position"
  BY <1>2, ClassTable, IsMessageType
<1> QED
  BY <1>1, <1>2, <1>3, <1>4

(* Which submessage the field of a class can be.                            *)
LEMMA SubClass ==
  ASSUME NEW c \in Classes, NEW n \in DOMAIN Fields[c], IsMessage(Fields[c][n])
  PROVE  /\ c \notin LeafClasses /\ Fields[c][n] \in InnerClasses
         /\ c \in InnerClasses => Fields[c][n] = "Position"
<1>1. Fields[c][n] \in {"Position", "Player"}
  BY ClassTable, IsMessageType
<1> QED
  BY <1>1, ClassTable, IsMessageType

(* What a parser makes of a field does not depend on a submessage there is  *)
(* not.                                                                     *)
LEMMA ReadOfLeaf ==
  ASSUME NEW c \in Classes, NEW st, NEW field, NEW sub, NEW other,
         c \in LeafClasses \/ sub = other
  PROVE  ReadField(c, st, field, sub) = ReadField(c, st, field, other)
<1>1. CASE sub = other
  BY <1>1
<1>2. CASE c \in LeafClasses /\ field.tag \in Range(Tags[c])
  <2>1. ~IsMessage(Fields[c][field.tag \div 8])
    BY <1>2, KnownTag
  <2> QED
    BY <1>2, <2>1 DEF ReadField
<1>3. CASE field.tag \notin Range(Tags[c])
  BY <1>3 DEF ReadField
<1> QED
  BY <1>1, <1>2, <1>3

(* The parser of a class that holds no message calls none, so that the code *)
(* one level up is the same.                                                *)
LEMMA LeafReadsAlike ==
  ASSUME NEW c \in LeafClasses, NEW m, NEW w
  PROVE  LeafParse(c, m, w) = InnerParse(c, m, w)
<1> DEFINE Sub1(st, field) == [ok |-> FALSE, m |-> Mutable(c, st.m, field.tag \div 8)]
           Sub2(st, field) == LeafParse(Fields[c][field.tag \div 8],
                                Mutable(c, st.m, field.tag \div 8), field.v.fields)
           A(f) == [i \in 0 .. Len(w) |->
                      IF i = 0 THEN [ok |-> TRUE, m |-> m]
                      ELSE ReadField(c, f[i - 1], w[i], Sub1(f[i - 1], w[i]))]
           B(f) == [i \in 0 .. Len(w) |->
                      IF i = 0 THEN [ok |-> TRUE, m |-> m]
                      ELSE ReadField(c, f[i - 1], w[i], Sub2(f[i - 1], w[i]))]
<1>1. c \in Classes
  BY DEF LeafClasses
<1>2. \A f : A(f) = B(f)
  <2> SUFFICES ASSUME NEW f, NEW i \in 0 .. Len(w), i # 0
               PROVE  ReadField(c, f[i - 1], w[i], Sub1(f[i - 1], w[i]))
                        = ReadField(c, f[i - 1], w[i], Sub2(f[i - 1], w[i]))
    OBVIOUS
  <2> HIDE DEF Sub1, Sub2
  <2> QED
    BY <1>1, ReadOfLeaf
<1>3. (CHOOSE f : f = A(f)) = (CHOOSE f : f = B(f))
  <2> HIDE DEF A, B
  <2> QED
    BY <1>2, Zenon
<1> QED
  BY <1>3 DEF LeafParse, InnerParse, ParseWith

(* The parser of a class other than SyncPlayers calls one level only.       *)
LEMMA InnerReadsAlike ==
  ASSUME NEW c \in InnerClasses, NEW m, NEW w
  PROVE  InnerParse(c, m, w) = ParseInto(c, m, w)
<1> DEFINE Sub1(st, field) == LeafParse(Fields[c][field.tag \div 8],
                                Mutable(c, st.m, field.tag \div 8), field.v.fields)
           Sub2(st, field) == InnerParse(Fields[c][field.tag \div 8],
                                Mutable(c, st.m, field.tag \div 8), field.v.fields)
           A(f) == [i \in 0 .. Len(w) |->
                      IF i = 0 THEN [ok |-> TRUE, m |-> m]
                      ELSE ReadField(c, f[i - 1], w[i], Sub1(f[i - 1], w[i]))]
           B(f) == [i \in 0 .. Len(w) |->
                      IF i = 0 THEN [ok |-> TRUE, m |-> m]
                      ELSE ReadField(c, f[i - 1], w[i], Sub2(f[i - 1], w[i]))]
<1>1. c \in Classes
  BY DEF InnerClasses
<1>2. \A f : A(f) = B(f)
  <2> SUFFICES ASSUME NEW st, NEW field
               PROVE  ReadField(c, st, field, Sub1(st, field))
                        = ReadField(c, st, field, Sub2(st, field))
    OBVIOUS
  <2>1. CASE field.tag \in Range(Tags[c]) /\ IsMessage(Fields[c][field.tag \div 8])
    <3>1. Fields[c][field.tag \div 8] \in LeafClasses
      BY <1>1, <2>1, KnownTag, IsMessageType
    <3>2. Sub1(st, field) = Sub2(st, field)
      BY <3>1, LeafReadsAlike
    <3> QED
      BY <3>2
  <2>2. CASE ~(field.tag \in Range(Tags[c]) /\ IsMessage(Fields[c][field.tag \div 8]))
    BY <2>2 DEF ReadField
  <2> QED
    BY <2>1, <2>2
<1>3. (CHOOSE f : f = A(f)) = (CHOOSE f : f = B(f))
  <2> HIDE DEF A, B
  <2> QED
    BY <1>2, Zenon
<1> QED
  BY <1>3 DEF ParseInto, InnerParse, ParseWith

(* Messages as programs build them: submessages, repeated fields and members *)
(* of a oneof are sequences, of a oneof one is set, and nothing is unknown. *)
Shape(class, m) ==
    /\ m = [val |-> m.val, unknown |-> <<>>]
    /\ m.val = [n \in DOMAIN Fields[class] |-> m.val[n]]
    /\ \A n \in DOMAIN Fields[class] :
         Boxed(class, n) => IF Repeated(class, n) THEN \E S : m.val[n] \in Seq(S)
                            ELSE m.val[n] = <<>> \/ m.val[n] = <<m.val[n][1]>>
    /\ \A j, k \in OneofData(class) : j = k \/ m.val[j] = <<>> \/ m.val[k] = <<>>

(* MergeFrom for a class without repeated fields, given what becomes of the *)
(* submessages; Upto is what is done when the fields up to n are merged.    *)
MergedField(class, from, subs, n) ==
    IF IsMessage(Fields[class][n]) THEN <<subs[n]>> ELSE from.val[n]
Upto(class, to, from, subs, n) ==
    [val |-> [k \in DOMAIN Fields[class] |->
                IF k <= n /\ IsPresent(class, from, k)
                THEN MergedField(class, from, subs, k)
                ELSE IF /\ k \in OneofData(class)
                        /\ \E j \in OneofData(class) : j <= n /\ IsPresent(class, from, j)
                THEN <<>> ELSE to.val[k]],
     unknown |-> <<>>]

(* What field n of from is on the wire, given what follows its tag.         *)
Field(class, n, payload) == [tag |-> Tags[class][n], v |-> payload]

(* The members of a oneof are fields.                                       *)
LEMMA OneofInBroadCast ==
  ASSUME NEW class \in Classes
  PROVE  OneofData(class) \subseteq DOMAIN Fields[class]
  BY ClassTable DEF OneofData

(* Reading the field that was written for n, on top of a message that has   *)
(* what was written before, sets n to what MergeFrom makes of it.           *)
LEMMA UptoStep ==
  ASSUME NEW class \in InnerClasses, NEW to, Shape(class, to), NEW from,
         Shape(class, from), NEW subs, NEW n \in DOMAIN Fields[class],
         IsPresent(class, from, n), NEW st, NEW payload, NEW sub, NEW good \in BOOLEAN,
         st.ok => st.m = Upto(class, to, from, subs, n - 1),
         IF Fields[class][n] = "string"
         THEN payload = [text |-> Values(class, from, n)[1]]
              /\ (good <=> IsUtf8(payload.text))
         ELSE ~IsMessage(Fields[class][n])
              => payload = Values(class, from, n)[1] /\ good,
         IsMessage(Fields[class][n])
              /\ Mutable(class, st.m, n) = Mutable(class, to, n)
              => (sub.ok <=> good) /\ (good => sub.m = subs[n])
  PROVE  LET s == ReadField(class, st, Field(class, n, payload), sub)
         IN  /\ s.ok <=> st.ok /\ good
             /\ s.ok => s.m = Upto(class, to, from, subs, n)
<1> DEFINE type == Fields[class][n]
           V    == DOMAIN Fields[class]
           u    == Upto(class, to, from, subs, n - 1)
           s    == ReadField(class, st, Field(class, n, payload), sub)
<1>1. /\ class \in Classes /\ class # "SyncPlayers" /\ n \in Nat
      /\ Tags[class][n] \div 8 = n /\ Tags[class][n] \in Range(Tags[class])
      /\ V = 1 .. Len(Fields[class]) /\ Len(Fields[class]) \in Nat
  BY ClassTable DEF InnerClasses, Range
<1>2. ~Repeated(class, n)
  BY <1>1 DEF Repeated
<1>3. \A k \in V : k <= n <=> k <= n - 1 \/ k = n
  BY <1>1
<1>4. OneofData(class) \subseteq V
  BY <1>1, OneofInBroadCast
<1>5. n \in OneofData(class) =>
        \A k \in OneofData(class) : k = n \/ ~IsPresent(class, from, k)
  BY <1>1, <1>4 DEF Shape, IsPresent, Values, Boxed
<1>6. u.val[n] = to.val[n]
  BY <1>1, <1>4, <1>5 DEF Upto
<1>7. Mutable(class, u, n) = Mutable(class, to, n)
  BY <1>6 DEF Mutable
<1>8. ASSUME NEW v,
             MergedField(class, from, subs, n) = IF Boxed(class, n) THEN <<v>> ELSE v
      PROVE  Put(class, u, n, v) = Upto(class, to, from, subs, n)
  <2> DEFINE w == [k \in V |-> IF n \in OneofData(class) /\ k \in OneofData(class)
                              THEN <<>> ELSE u.val[k]]
             x == [w EXCEPT ![n] = IF Boxed(class, n) THEN <<v>> ELSE v]
  <2>1. u = [val |-> u.val, unknown |-> <<>>] /\ DOMAIN u.val = V
    BY DEF Upto
  <2>2. Put(class, u, n, v) = [val |-> x, unknown |-> <<>>]
    <3> HIDE DEF u
    <3>1. ClearedOthers(class, u, n) = w
      BY <2>1 DEF ClearedOthers
    <3>2. Put(class, u, n, v) = [u EXCEPT !.val = x]
      BY <1>2, <3>1 DEF Put
    <3> HIDE DEF x
    <3> QED
      BY <2>1, <3>2
  <2>3. x = [k \in V |-> IF k = n THEN MergedField(class, from, subs, n) ELSE w[k]]
    BY <1>8
  <2>31. \A k \in V : w[k] = IF n \in OneofData(class) /\ k \in OneofData(class)
                            THEN <<>> ELSE u.val[k]
    OBVIOUS
  <2> HIDE DEF x, w
  <2>4. ASSUME NEW k \in V
        PROVE  x[k] = Upto(class, to, from, subs, n).val[k]
    <3>1. CASE k = n
      BY <1>1, <2>3, <3>1 DEF Upto
    <3>2. CASE k # n /\ n \in OneofData(class) /\ k \in OneofData(class)
      <4>1. x[k] = <<>>
        BY <2>3, <2>31, <3>2
      <4>2. ~IsPresent(class, from, k)
        BY <1>5, <3>2
      <4>3. \E j \in OneofData(class) : j <= n /\ IsPresent(class, from, j)
        BY <1>1, <3>2
      <4> QED
        BY <3>2, <4>1, <4>2, <4>3 DEF Upto
    <3>3. CASE k # n /\ ~(n \in OneofData(class) /\ k \in OneofData(class))
      <4>1. x[k] = u.val[k]
        BY <2>3, <2>31, <3>3
      <4>2. k \in OneofData(class) =>
              \A j \in OneofData(class) : j <= n <=> j <= n - 1
        BY <1>1, <1>3, <1>4, <3>3
      <4> QED
        BY <1>3, <3>3, <4>1, <4>2 DEF Upto
    <3> QED
      BY <3>1, <3>2, <3>3
  <2>5. x = Upto(class, to, from, subs, n).val
    BY <2>3, <2>4 DEF Upto
  <2> QED
    BY <2>2, <2>5 DEF Upto
<1>9. CASE ~st.ok
  BY <1>9 DEF ReadField
<1>10. CASE st.ok
  <2> DEFINE field == Field(class, n, payload)
  <2>1. /\ field.tag \in Range(Tags[class]) /\ field.tag \div 8 = n
        /\ field.v = payload /\ st.m = u
    BY <1>1, <1>10 DEF Field
  <2> HIDE DEF field, u
  <2>2. CASE IsMessage(type)
    <3>1. s = [ok |-> sub.ok, m |-> Put(class, u, n, sub.m)]
      BY <1>10, <2>1, <2>2 DEF ReadField, field
    <3>2. (sub.ok <=> good) /\ (good => sub.m = subs[n])
      BY <1>7, <2>1, <2>2
    <3>3. MergedField(class, from, subs, n) = IF Boxed(class, n) THEN <<subs[n]>>
                                              ELSE subs[n]
      BY <2>2 DEF MergedField, Boxed
    <3> QED
      BY <1>8, <1>10, <3>1, <3>2, <3>3
  <2>3. CASE ~IsMessage(type)
    <3> DEFINE v == Values(class, from, n)[1]
    <3>1. MergedField(class, from, subs, n) = IF Boxed(class, n) THEN <<v>> ELSE v
      BY <1>2, <2>3 DEF MergedField, Values, IsPresent, Shape
    <3> HIDE DEF v
    <3>2. CASE type = "string"
      <4>1. s = [ok |-> IsUtf8(payload.text), m |-> Put(class, u, n, payload.text)]
        BY <1>10, <2>1, <2>3, <3>2 DEF ReadField, field
      <4>2. payload.text = v /\ (good <=> IsUtf8(payload.text))
        BY <3>2 DEF v
      <4> QED
        BY <1>8, <1>10, <3>1, <4>1, <4>2
    <3>3. CASE type # "string"
      <4>1. s = [ok |-> TRUE, m |-> Put(class, u, n, payload)]
        BY <1>10, <2>1, <2>3, <3>3 DEF ReadField, field
      <4>2. payload = v /\ good
        BY <2>3, <3>3 DEF v
      <4> QED
        BY <1>8, <1>10, <3>1, <4>1, <4>2
    <3> QED
      BY <3>2, <3>3
  <2> QED
    BY <2>2, <2>3
<1> QED
  BY <1>9, <1>10

(* Reading what was written for from, field by field, merges it into to.    *)
PayloadsFit(class, from, payload, good) ==
    \A n \in DOMAIN Fields[class] :
      IsPresent(class, from, n) =>
        IF Fields[class][n] = "string"
        THEN payload[n] = [text |-> Values(class, from, n)[1]]
             /\ (good[n] <=> IsUtf8(payload[n].text))
        ELSE ~IsMessage(Fields[class][n])
             => payload[n] = Values(class, from, n)[1] /\ good[n]
WrittenAs(class, from, payload, q) ==
    \A n \in DOMAIN Fields[class] :
      q[n] = [i \in DOMAIN Values(class, from, n) |-> Field(class, n, payload[n])]
SubsRead(class, to, from, payload, good, subs, w, sub, r) ==
    \A n \in DOMAIN Fields[class] :
      IsPresent(class, from, n) /\ IsMessage(Fields[class][n]) =>
        \A i \in 1 .. Len(w) :
           /\ w[i] = Field(class, n, payload[n])
           /\ Mutable(class, r[i - 1].m, n) = Mutable(class, to, n)
           => (sub[i].ok <=> good[n]) /\ (good[n] => sub[i].m = subs[n])
AllMerged(class, to, from, good, subs, st) ==
    /\ st.ok <=> \A n \in DOMAIN Fields[class] : IsPresent(class, from, n) => good[n]
    /\ st.ok => st.m = Upto(class, to, from, subs, Len(Fields[class]))

(* A run over all the fields that were written merges them one after the    *)
(* other: the message it ends with has each of them, if all could be read.  *)
LEMMA RunMerges ==
  ASSUME NEW class \in InnerClasses, NEW to, Shape(class, to), NEW from,
         Shape(class, from), NEW subs, NEW payload,
         NEW good \in [DOMAIN Fields[class] -> BOOLEAN], NEW S,
         NEW q \in [DOMAIN Fields[class] -> Seq(S)], NEW w, NEW sub, NEW r,
         w = FlattenSeq(q), IsRun(class, to, w, sub, r),
         WrittenAs(class, from, payload, q), PayloadsFit(class, from, payload, good),
         SubsRead(class, to, from, payload, good, subs, w, sub, r)
  PROVE  AllMerged(class, to, from, good, subs, r[Len(w)])
<1> DEFINE N == Len(Fields[class])
           V == DOMAIN Fields[class]
<1>1. /\ class \in Classes /\ N \in Nat \ {0} /\ V = 1 .. N
      /\ class # "SyncPlayers"
  <2>1. class \in Classes /\ class # "SyncPlayers"
    BY DEF InnerClasses
  <2>2. N \in 1 .. 7 /\ V = 1 .. N
    BY ONLY <2>1, ClassTable DEF N, V
  <2> HIDE DEF N, V
  <2> QED
    BY <2>1, <2>2
<1>2. ASSUME NEW n \in V
      PROVE  IF IsPresent(class, from, n)
             THEN Len(q[n]) = 1 /\ q[n][1] = Field(class, n, payload[n])
             ELSE Len(q[n]) = 0
  <2>1. Values(class, from, n) = <<>> \/ \E v : Values(class, from, n) = <<v>>
    BY <1>1 DEF Values, Shape, Repeated
  <2>2. q[n] = [i \in DOMAIN Values(class, from, n) |-> Field(class, n, payload[n])]
    BY DEF WrittenAs
  <2>3. CASE Values(class, from, n) = <<>>
    <3>1. q[n] = <<>>
      BY <2>2, <2>3
    <3> QED
      BY <2>3, <3>1 DEF IsPresent
  <2>4. ASSUME NEW v, Values(class, from, n) = <<v>>
        PROVE  IsPresent(class, from, n) /\ q[n] = <<Field(class, n, payload[n])>>
    BY <2>2, <2>4 DEF IsPresent
  <2> QED
    BY <2>1, <2>3, <2>4
<1>3. PICK p \in [0 .. N -> Nat] :
        /\ w \in Seq(S) /\ p[0] = 0 /\ Len(w) = p[N]
        /\ \A n \in 1 .. N :
             /\ p[n] = p[n - 1] + Len(q[n]) /\ p[n] <= p[N]
             /\ \A j \in 1 .. Len(q[n]) : w[p[n - 1] + j] = q[n][j]
  <2>1. q \in [1 .. N -> Seq(S)]
    BY <1>1
  <2> HIDE DEF N
  <2>2. FlattenSeq(q) \in Seq(S) /\ \E p : Places(q, N, p)
    BY ONLY <1>1, <2>1, Flattened
  <2>3. PICK p : Places(q, N, p)
    BY <2>2
  <2>4. w = FlattenSeq(q)
    OBVIOUS
  <2> QED
    BY ONLY <2>2, <2>3, <2>4, Zenon DEF Places
<1> DEFINE st(n) == r[p[n]]
           P == {n \in 0 .. N :
                   /\ st(n).ok <=> \A k \in V : k <= n /\ IsPresent(class, from, k)
                                                  => good[k]
                   /\ st(n).ok => st(n).m = Upto(class, to, from, subs, n)}
<1>4. 0 \in P
  <2>1. st(0) = [ok |-> TRUE, m |-> to]
    BY <1>3 DEF IsRun
  <2>2. Upto(class, to, from, subs, 0) = to
    <3>1. \A k \in V : ~(k <= 0)
      BY <1>1
    <3>2. OneofData(class) \subseteq V
      BY <1>1, OneofInBroadCast
    <3>3. Upto(class, to, from, subs, 0) =
            [val |-> [k \in V |-> to.val[k]], unknown |-> <<>>]
      BY <3>1, <3>2 DEF Upto
    <3> QED
      BY <3>3 DEF Shape
  <2>3. \A k \in V : ~(k <= 0)
    BY <1>1
  <2> QED
    BY <1>1, <2>1, <2>2, <2>3
<1>5. ASSUME NEW h \in 0 .. N, h \in P, h < N PROVE h + 1 \in P
  <2> DEFINE n == h + 1
  <2>1. n \in 1 .. N /\ n \in V /\ n - 1 = h /\ n \in 0 .. N /\ h \in 0 .. N
    BY <1>1, <1>5
  <2>2. /\ st(h).ok <=> \A k \in V : k <= h /\ IsPresent(class, from, k) => good[k]
        /\ st(h).ok => st(h).m = Upto(class, to, from, subs, h)
    BY <1>5
  <2>3. \A k \in V : k <= n <=> k <= h \/ k = n
    BY <1>1, <1>5
  <2> HIDE DEF n
  <2>4. p[n] = p[h] + Len(q[n]) /\ p[n] <= p[N]
        /\ \A j \in 1 .. Len(q[n]) : w[p[h] + j] = q[n][j]
    BY <1>3, <2>1
  <2>5. CASE ~IsPresent(class, from, n)
    <3>1. p[n] = p[h]
      <4> DEFINE l == Len(q[n])
      <4>1. l = 0 /\ p[n] = p[h] + l /\ p[h] \in Nat
        BY <1>2, <1>3, <2>1, <2>4, <2>5
      <4> HIDE DEF l
      <4> QED
        BY ONLY <4>1
    <3>2. Upto(class, to, from, subs, n) = Upto(class, to, from, subs, h)
      <4>1. OneofData(class) \subseteq V
        BY <1>1, OneofInBroadCast
      <4>2. \A k \in V : k <= n /\ IsPresent(class, from, k)
                        <=> k <= h /\ IsPresent(class, from, k)
        BY <2>3, <2>5
      <4>3. (\E j \in OneofData(class) : j <= n /\ IsPresent(class, from, j))
              <=> (\E j \in OneofData(class) : j <= h /\ IsPresent(class, from, j))
        BY <4>1, <4>2
      <4> QED
        BY ONLY <4>2, <4>3 DEF Upto
    <3> QED
      BY <2>1, <2>2, <2>3, <2>5, <3>1, <3>2 DEF n
  <2>6. CASE IsPresent(class, from, n)
    <3> DEFINE i == p[n]
    <3>1. i \in 1 .. Len(w) /\ i - 1 = p[h] /\ w[i] = Field(class, n, payload[n])
      <4>1. Len(q[n]) = 1 /\ q[n][1] = Field(class, n, payload[n])
        BY <1>2, <2>1, <2>6
      <4>2. p[n] = p[h] + 1 /\ p[h] \in Nat /\ p[n] \in Nat
        BY <1>3, <2>1, <2>4, <4>1
      <4>3. w[p[h] + 1] = q[n][1]
        BY ONLY <2>4, <4>1
      <4>4. p[N] \in Nat /\ p[n] <= p[N] /\ Len(w) = p[N]
        BY <1>1, <1>3, <2>4
      <4>5. i = p[h] + 1 /\ i \in 1 .. p[N]
        BY ONLY <4>2, <4>4 DEF i
      <4>6. i - 1 = p[h]
        BY ONLY <4>2, <4>5
      <4> HIDE DEF i
      <4> QED
        BY ONLY <4>1, <4>3, <4>4, <4>5, <4>6
    <3>2. r[i] = ReadField(class, st(h), Field(class, n, payload[n]), sub[i])
      BY <3>1 DEF IsRun
    <3>3. IsMessage(Fields[class][n])
            /\ Mutable(class, st(h).m, n) = Mutable(class, to, n)
            => (sub[i].ok <=> good[n]) /\ (good[n] => sub[i].m = subs[n])
      <4>1. i \in 1 .. Len(w) /\ w[i] = Field(class, n, payload[n])
            /\ r[i - 1] = st(h)
        BY <3>1
      <4> HIDE DEF i, st
      <4>2. IsMessage(Fields[class][n]) =>
               (w[i] = Field(class, n, payload[n])
                  /\ Mutable(class, r[i - 1].m, n) = Mutable(class, to, n)
                => (sub[i].ok <=> good[n]) /\ (good[n] => sub[i].m = subs[n]))
        BY <2>1, <2>6, <4>1 DEF SubsRead
      <4> QED
        BY <4>1, <4>2
    <3>4. IF Fields[class][n] = "string"
          THEN payload[n] = [text |-> Values(class, from, n)[1]]
               /\ (good[n] <=> IsUtf8(payload[n].text))
          ELSE ~IsMessage(Fields[class][n])
               => payload[n] = Values(class, from, n)[1] /\ good[n]
      BY <2>1, <2>6 DEF PayloadsFit
    <3> HIDE DEF i, st
    <3>5. good[n] \in BOOLEAN
      BY <2>1
    <3>6. /\ r[i].ok <=> st(h).ok /\ good[n]
          /\ r[i].ok => r[i].m = Upto(class, to, from, subs, n)
      BY <2>1, <2>2, <2>6, <3>2, <3>3, <3>4, <3>5, UptoStep
    <3>7. st(n) = r[i]
      BY DEF st, i
    <3>8. n \in P
      BY <2>1, <2>2, <2>3, <2>6, <3>6, <3>7
    <3> QED
      BY <3>8 DEF n
  <2> QED
    BY <2>5, <2>6
<1>6. N \in P
  <2>1. \A n \in 0 .. N : n \in P /\ n < N => n + 1 \in P
    BY <1>5
  <2> HIDE DEF P, N
  <2>2. \A n \in 0 .. N : n \in P
    BY <1>1, <1>4, <2>1, UpTo, Zenon
  <2> QED
    BY <1>1, <2>2
<1>7. \A n \in V : n <= N
  BY <1>1
<1> QED
  BY <1>1, <1>3, <1>6, <1>7 DEF AllMerged

(* A value on the wire, and the size of a value in a message.               *)
PayloadOf(type, v) ==
    IF IsMessage(type) THEN [size |-> ByteSize(type, v), fields |-> Serialize(type, v)]
    ELSE IF type = "string" THEN [text |-> v] ELSE v
SizeOf(type, v) ==
    IF IsMessage(type) THEN LengthDelimitedSize(ByteSize(type, v)) ELSE ScalarSize(type, v)
WrittenOf(class, m, n) ==
    [i \in DOMAIN Values(class, m, n) |->
        Field(class, n, PayloadOf(Fields[class][n], Values(class, m, n)[i]))]
SizesOf(class, m, n) ==
    [i \in DOMAIN Values(class, m, n) |->
        1 + SizeOf(Fields[class][n], Values(class, m, n)[i])]

(* ByteSizeLong of a class that holds no message is that of each level.     *)
LEMMA LeafSizesAlike ==
  ASSUME NEW c \in LeafClasses, NEW m
  PROVE  LeafByteSize(c, m) = InnerByteSize(c, m) /\ LeafByteSize(c, m) = ByteSize(c, m)
<1>1. \A n \in DOMAIN Fields[c] : ~IsMessage(Fields[c][n])
  BY ClassTable, IsMessageType
<1> HIDE DEF IsMessage
<1> QED
  BY <1>1 DEF LeafByteSize, InnerByteSize, ByteSize, ByteSizeWith

(* ByteSizeLong of a class that holds Positions only is that of the full    *)
(* level.                                                                   *)
LEMMA InnerSizesAlike ==
  ASSUME NEW c \in InnerClasses, NEW m
  PROVE  InnerByteSize(c, m) = ByteSize(c, m)
<1> DEFINE A(n) == [i \in DOMAIN Values(c, m, n) |->
                      1 + IF IsMessage(Fields[c][n])
                          THEN LengthDelimitedSize(LeafByteSize(Fields[c][n], Values(c, m, n)[i]))
                          ELSE ScalarSize(Fields[c][n], Values(c, m, n)[i])]
           B(n) == [i \in DOMAIN Values(c, m, n) |->
                      1 + IF IsMessage(Fields[c][n])
                          THEN LengthDelimitedSize(InnerByteSize(Fields[c][n], Values(c, m, n)[i]))
                          ELSE ScalarSize(Fields[c][n], Values(c, m, n)[i])]
<1>1. ASSUME NEW n \in DOMAIN Fields[c] PROVE A(n) = B(n)
  <2>1. IsMessage(Fields[c][n]) => Fields[c][n] \in LeafClasses
    BY SubClass, IsMessageType
  <2>2. \A v : IsMessage(Fields[c][n]) =>
                 LeafByteSize(Fields[c][n], v) = InnerByteSize(Fields[c][n], v)
    BY <2>1, LeafSizesAlike
  <2> QED
    BY <2>2
<1>2. [n \in DOMAIN Fields[c] |-> A(n)] = [n \in DOMAIN Fields[c] |-> B(n)]
  <2> HIDE DEF A, B
  <2> QED
    BY <1>1
<1> QED
  BY <1>2, Zenon DEF InnerByteSize, ByteSize, ByteSizeWith

(* A message that holds none is written alike at each level.                *)
LEMMA LeafWritesAlike ==
  ASSUME NEW c \in LeafClasses, NEW m
  PROVE  LeafSerialize(c, m) = InnerSerialize(c, m)
         /\ LeafSerialize(c, m) = Serialize(c, m)
<1>1. \A n \in DOMAIN Fields[c] : ~IsMessage(Fields[c][n])
  BY ClassTable, IsMessageType
<1> QED
  BY <1>1 DEF LeafSerialize, InnerSerialize, Serialize, SerializeWith

(* A message that holds Positions only is written as at the full level.     *)
LEMMA InnerWritesAlike ==
  ASSUME NEW c \in InnerClasses, NEW m
  PROVE  InnerSerialize(c, m) = Serialize(c, m)
<1> DEFINE Value(n, i) == Values(c, m, n)[i]
           A(n) == [i \in DOMAIN Values(c, m, n) |->
                      [tag |-> Tags[c][n],
                       v   |-> IF IsMessage(Fields[c][n])
                               THEN [size   |-> LeafByteSize(Fields[c][n], Value(n, i)),
                                     fields |-> LeafSerialize(Fields[c][n], Value(n, i))]
                               ELSE IF Fields[c][n] = "string" THEN [text |-> Value(n, i)]
                               ELSE Value(n, i)]]
           B(n) == [i \in DOMAIN Values(c, m, n) |->
                      [tag |-> Tags[c][n],
                       v   |-> IF IsMessage(Fields[c][n])
                               THEN [size   |-> InnerByteSize(Fields[c][n], Value(n, i)),
                                     fields |-> InnerSerialize(Fields[c][n], Value(n, i))]
                               ELSE IF Fields[c][n] = "string" THEN [text |-> Value(n, i)]
                               ELSE Value(n, i)]]
<1>1. ASSUME NEW n \in DOMAIN Fields[c] PROVE A(n) = B(n)
  <2>1. IsMessage(Fields[c][n]) => Fields[c][n] \in LeafClasses
    BY SubClass, IsMessageType
  <2>2. \A v : IsMessage(Fields[c][n]) =>
                 /\ LeafByteSize(Fields[c][n], v) = InnerByteSize(Fields[c][n], v)
                 /\ LeafSerialize(Fields[c][n], v) = InnerSerialize(Fields[c][n], v)
    BY <2>1, LeafSizesAlike, LeafWritesAlike
  <2> QED
    BY <2>2
<1>2. [n \in DOMAIN Fields[c] |-> A(n)] = [n \in DOMAIN Fields[c] |-> B(n)]
  <2> HIDE DEF A, B
  <2> QED
    BY <1>1
<1> QED
  BY <1>2, Zenon DEF InnerSerialize, Serialize, SerializeWith

(* What Serialize and ByteSize do, said with themselves.                    *)
LEMMA SerializeUnfolds ==
  ASSUME NEW c \in Classes, NEW m
  PROVE  Serialize(c, m)
           = FlattenSeq([n \in DOMAIN Fields[c] |-> WrittenOf(c, m, n)]) \o m.unknown
<1> DEFINE Value(n, i) == Values(c, m, n)[i]
           A(n) == [i \in DOMAIN Values(c, m, n) |->
                      [tag |-> Tags[c][n],
                       v   |-> IF IsMessage(Fields[c][n])
                               THEN [size   |-> InnerByteSize(Fields[c][n], Value(n, i)),
                                     fields |-> InnerSerialize(Fields[c][n], Value(n, i))]
                               ELSE IF Fields[c][n] = "string" THEN [text |-> Value(n, i)]
                               ELSE Value(n, i)]]
<1>1. ASSUME NEW n \in DOMAIN Fields[c] PROVE A(n) = WrittenOf(c, m, n)
  <2>1. \A v : IsMessage(Fields[c][n]) =>
                 /\ InnerByteSize(Fields[c][n], v) = ByteSize(Fields[c][n], v)
                 /\ InnerSerialize(Fields[c][n], v) = Serialize(Fields[c][n], v)
    BY SubClass, InnerSizesAlike, InnerWritesAlike
  <2> QED
    BY <2>1 DEF WrittenOf, PayloadOf, Field
<1>2. [n \in DOMAIN Fields[c] |-> A(n)]
        = [n \in DOMAIN Fields[c] |-> WrittenOf(c, m, n)]
  <2> HIDE DEF A
  <2> QED
    BY <1>1
<1>3. Serialize(c, m) = FlattenSeq([n \in DOMAIN Fields[c] |-> A(n)]) \o m.unknown
  BY Zenon DEF Serialize, SerializeWith
<1> QED
  BY <1>2, <1>3, Zenon

(* The size of a message is that of its values and of its unknown fields.   *)
LEMMA ByteSizeUnfolds ==
  ASSUME NEW c \in Classes, NEW m
  PROVE  ByteSize(c, m)
           = Sum(FlattenSeq([n \in DOMAIN Fields[c] |-> SizesOf(c, m, n)])
                   \o WireSizes(m.unknown))
<1> DEFINE A(n) == [i \in DOMAIN Values(c, m, n) |->
                      1 + IF IsMessage(Fields[c][n])
                          THEN LengthDelimitedSize(InnerByteSize(Fields[c][n], Values(c, m, n)[i]))
                          ELSE ScalarSize(Fields[c][n], Values(c, m, n)[i])]
<1>1. ASSUME NEW n \in DOMAIN Fields[c] PROVE A(n) = SizesOf(c, m, n)
  <2>1. \A v : IsMessage(Fields[c][n]) =>
                 InnerByteSize(Fields[c][n], v) = ByteSize(Fields[c][n], v)
    BY SubClass, InnerSizesAlike
  <2> QED
    BY <2>1 DEF SizesOf, SizeOf
<1>2. [n \in DOMAIN Fields[c] |-> A(n)]
        = [n \in DOMAIN Fields[c] |-> SizesOf(c, m, n)]
  <2> HIDE DEF A
  <2> QED
    BY <1>1
<1>3. ByteSize(c, m) = Sum(FlattenSeq([n \in DOMAIN Fields[c] |-> A(n)])
                             \o WireSizes(m.unknown))
  BY Zenon DEF ByteSize, ByteSizeWith
<1> QED
  BY <1>2, <1>3, Zenon

(* Messages whose submessages are formed in the same way.                   *)
FormedWith(Sub(_, _), class, m) ==
    /\ Shape(class, m)
    /\ \A n \in DOMAIN Fields[class] :
         IsMessage(Fields[class][n]) =>
           \A i \in DOMAIN m.val[n] : Sub(Fields[class][n], m.val[n][i])
LeafFormed(class, m)  == Shape(class, m)
InnerFormed(class, m) == FormedWith(LeafFormed, class, m)
Formed(class, m)      == FormedWith(InnerFormed, class, m)

(* A message of a class that holds none is formed at each level alike.      *)
LEMMA LeafFormedAlike ==
  ASSUME NEW c \in LeafClasses, NEW m
  PROVE  LeafFormed(c, m) <=> InnerFormed(c, m)
<1>1. \A n \in DOMAIN Fields[c] : ~IsMessage(Fields[c][n])
  BY ClassTable, IsMessageType
<1> QED
  BY <1>1 DEF LeafFormed, InnerFormed, FormedWith

(* A message of a class other than SyncPlayers is formed at the full level  *)
(* when it is one level down.                                               *)
LEMMA InnerFormedAlike ==
  ASSUME NEW c \in InnerClasses, NEW m
  PROVE  InnerFormed(c, m) <=> Formed(c, m)
<1>1. ASSUME NEW n \in DOMAIN Fields[c], IsMessage(Fields[c][n]), NEW v
      PROVE  LeafFormed(Fields[c][n], v) <=> InnerFormed(Fields[c][n], v)
  BY <1>1, SubClass, IsMessageType, LeafFormedAlike
<1> QED
  BY <1>1 DEF InnerFormed, Formed, FormedWith

(* A message is formed if its fields have their shape and the messages in it *)
(* are formed.                                                              *)
LEMMA FormedUnfolds ==
  ASSUME NEW c \in Classes, NEW m
  PROVE  Formed(c, m) <=>
           /\ Shape(c, m)
           /\ \A n \in DOMAIN Fields[c] :
                IsMessage(Fields[c][n]) =>
                  \A i \in DOMAIN m.val[n] : Formed(Fields[c][n], m.val[n][i])
<1>1. ASSUME NEW n \in DOMAIN Fields[c], IsMessage(Fields[c][n]), NEW v
      PROVE  InnerFormed(Fields[c][n], v) <=> Formed(Fields[c][n], v)
  BY <1>1, SubClass, InnerFormedAlike
<1> QED
  BY <1>1 DEF Formed, FormedWith

(* Messages that hold none are merged alike at each level.                  *)
LEMMA LeafMergesAlike ==
  ASSUME NEW c \in LeafClasses, NEW to, NEW from
  PROVE  LeafMerge(c, to, from) = InnerMerge(c, to, from)
<1>1. \A n \in DOMAIN Fields[c] : ~IsMessage(Fields[c][n])
  BY ClassTable, IsMessageType
<1> QED
  BY <1>1 DEF LeafMerge, InnerMerge, MergeWith

(* What becomes of field n when from is merged into to.                     *)
MergedOf(class, to, from, n) ==
    IF ~IsPresent(class, from, n)
    THEN IF n \in OneofData(class)
            /\ \E k \in OneofData(class) : IsPresent(class, from, k)
         THEN <<>> ELSE to.val[n]
    ELSE IF Repeated(class, n) THEN to.val[n] \o from.val[n]
    ELSE IF IsMessage(Fields[class][n])
    THEN <<MergeFrom(Fields[class][n], Mutable(class, to, n), from.val[n][1])>>
    ELSE from.val[n]

(* Messages that hold Positions only are merged as at the full level.       *)
LEMMA InnerMergesAlike ==
  ASSUME NEW c \in InnerClasses, NEW to, NEW from
  PROVE  InnerMerge(c, to, from) = MergeFrom(c, to, from)
<1> DEFINE A(n) == IF ~IsPresent(c, from, n)
                   THEN IF n \in OneofData(c)
                           /\ \E k \in OneofData(c) : IsPresent(c, from, k)
                        THEN <<>> ELSE to.val[n]
                   ELSE IF Repeated(c, n) THEN to.val[n] \o from.val[n]
                   ELSE IF IsMessage(Fields[c][n])
                   THEN <<LeafMerge(Fields[c][n], Mutable(c, to, n), from.val[n][1])>>
                   ELSE from.val[n]
           B(n) == IF ~IsPresent(c, from, n)
                   THEN IF n \in OneofData(c)
                           /\ \E k \in OneofData(c) : IsPresent(c, from, k)
                        THEN <<>> ELSE to.val[n]
                   ELSE IF Repeated(c, n) THEN to.val[n] \o from.val[n]
                   ELSE IF IsMessage(Fields[c][n])
                   THEN <<InnerMerge(Fields[c][n], Mutable(c, to, n), from.val[n][1])>>
                   ELSE from.val[n]
<1>1. ASSUME NEW n \in DOMAIN Fields[c], IsMessage(Fields[c][n]), NEW s, NEW t
      PROVE  LeafMerge(Fields[c][n], s, t) = InnerMerge(Fields[c][n], s, t)
  BY <1>1, SubClass, IsMessageType, LeafMergesAlike
<1>2. [n \in DOMAIN Fields[c] |-> A(n)] = [n \in DOMAIN Fields[c] |-> B(n)]
  <2>1. \A n \in DOMAIN Fields[c] : A(n) = B(n)
    BY <1>1
  <2> HIDE DEF A, B
  <2> QED
    BY <2>1
<1> QED
  BY <1>2, Zenon DEF InnerMerge, MergeFrom, MergeWith

(* MergeFrom merges field by field.                                         *)
LEMMA MergeUnfolds ==
  ASSUME NEW c \in Classes, NEW to, NEW from
  PROVE  MergeFrom(c, to, from)
           = [val     |-> [n \in DOMAIN Fields[c] |-> MergedOf(c, to, from, n)],
              unknown |-> to.unknown \o from.unknown]
<1> DEFINE A(n) == IF ~IsPresent(c, from, n)
                   THEN IF n \in OneofData(c)
                           /\ \E k \in OneofData(c) : IsPresent(c, from, k)
                        THEN <<>> ELSE to.val[n]
                   ELSE IF Repeated(c, n) THEN to.val[n] \o from.val[n]
                   ELSE IF IsMessage(Fields[c][n])
                   THEN <<InnerMerge(Fields[c][n], Mutable(c, to, n), from.val[n][1])>>
                   ELSE from.val[n]
<1>1. ASSUME NEW n \in DOMAIN Fields[c], IsMessage(Fields[c][n]), NEW s, NEW t
      PROVE  InnerMerge(Fields[c][n], s, t) = MergeFrom(Fields[c][n], s, t)
  BY <1>1, SubClass, InnerMergesAlike
<1>2. [n \in DOMAIN Fields[c] |-> A(n)]
        = [n \in DOMAIN Fields[c] |-> MergedOf(c, to, from, n)]
  <2>1. \A n \in DOMAIN Fields[c] : A(n) = MergedOf(c, to, from, n)
    BY <1>1 DEF MergedOf
  <2> HIDE DEF A
  <2> QED
    BY <2>1
<1>3. MergeFrom(c, to, from) = [val     |-> [n \in DOMAIN Fields[c] |-> A(n)],
                                unknown |-> to.unknown \o from.unknown]
  BY Zenon DEF MergeFrom, MergeWith
<1> QED
  BY <1>2, <1>3, Zenon

(* For a class without repeated fields that is what its parser does.        *)
LEMMA MergeIsUpto ==
  ASSUME NEW c \in InnerClasses, NEW to, Shape(c, to), NEW from, Shape(c, from), NEW subs,
         \A n \in DOMAIN Fields[c] :
            IsMessage(Fields[c][n]) /\ IsPresent(c, from, n) =>
              subs[n] = MergeFrom(Fields[c][n], Mutable(c, to, n), from.val[n][1])
  PROVE  MergeFrom(c, to, from) = Upto(c, to, from, subs, Len(Fields[c]))
<1>1. c \in Classes /\ c # "SyncPlayers"
  BY DEF InnerClasses
<1>2. \A n \in DOMAIN Fields[c] : n <= Len(Fields[c])
  BY <1>1, ClassTable
<1>3. OneofData(c) \subseteq DOMAIN Fields[c]
  BY <1>1, OneofInBroadCast
<1>4. ASSUME NEW n \in DOMAIN Fields[c]
      PROVE  MergedOf(c, to, from, n)
               = Upto(c, to, from, subs, Len(Fields[c])).val[n]
  BY <1>1, <1>2, <1>3 DEF MergedOf, Upto, MergedField, Repeated
<1>5. to.unknown \o from.unknown = <<>>
  BY DEF Shape
<1> DEFINE u == Upto(c, to, from, subs, Len(Fields[c]))
<1>6. u = [val |-> u.val, unknown |-> <<>>]
      /\ u.val = [n \in DOMAIN Fields[c] |-> u.val[n]]
  BY DEF Upto
<1>7. \A n \in DOMAIN Fields[c] : MergedOf(c, to, from, n) = u.val[n]
  BY <1>4
<1>8. MergeFrom(c, to, from)
        = [val |-> [n \in DOMAIN Fields[c] |-> MergedOf(c, to, from, n)],
           unknown |-> <<>>]
  <2>1. MergeFrom(c, to, from)
          = [val     |-> [n \in DOMAIN Fields[c] |-> MergedOf(c, to, from, n)],
             unknown |-> to.unknown \o from.unknown]
    BY <1>1, MergeUnfolds, Zenon
  <2> QED
    BY ONLY <1>5, <2>1, Zenon
<1> HIDE DEF u
<1>9. MergeFrom(c, to, from) = u
  BY ONLY <1>6, <1>7, <1>8
<1> QED
  BY <1>9 DEF u

(* The fields of a message on the wire.                                     *)
LEMMA ValuesAreSequence ==
  ASSUME NEW c \in Classes, NEW m, Shape(c, m), NEW n \in DOMAIN Fields[c]
  PROVE  \E k \in Nat : DOMAIN Values(c, m, n) = 1 .. k /\ Len(Values(c, m, n)) = k
<1>1. CASE ~Boxed(c, n)
  <2>1. Values(c, m, n) = <<>> \/ Values(c, m, n) = <<m.val[n]>>
    BY <1>1 DEF Values
  <2> QED
    BY <2>1
<1>2. CASE Boxed(c, n)
  <2>1. Values(c, m, n) = m.val[n]
    BY <1>2 DEF Values
  <2>2. m.val[n] = <<>> \/ m.val[n] = <<m.val[n][1]>> \/ \E S : m.val[n] \in Seq(S)
    BY <1>2 DEF Shape
  <2>3. ASSUME m.val[n] = <<>> \/ \E v : m.val[n] = <<v>>
        PROVE  \E k \in Nat : DOMAIN Values(c, m, n) = 1 .. k /\ Len(Values(c, m, n)) = k
    <3>1. CASE Values(c, m, n) = <<>>
      BY ONLY <3>1
    <3>2. ASSUME NEW v, Values(c, m, n) = <<v>>
          PROVE  DOMAIN Values(c, m, n) = 1 .. 1 /\ Len(Values(c, m, n)) = 1
      BY ONLY <3>2
    <3> QED
      BY <2>1, <2>3, <3>1, <3>2
  <2>4. ASSUME NEW S, m.val[n] \in Seq(S)
        PROVE  \E k \in Nat : DOMAIN Values(c, m, n) = 1 .. k /\ Len(Values(c, m, n)) = k
    BY <2>1, <2>4
  <2> QED
    BY <2>2, <2>3, <2>4
<1> QED
  BY <1>1, <1>2

AllWritten(c, m) == [n \in DOMAIN Fields[c] |-> WrittenOf(c, m, n)]
Element(c, m, n, j) == Field(c, n, PayloadOf(Fields[c][n], Values(c, m, n)[j]))

(* The bytes are the values that are written, each behind its tag, in the   *)
(* order of the fields, and nothing else.                                   *)
LEMMA SerializedFields ==
  ASSUME NEW c \in Classes, NEW m, Shape(c, m)
  PROVE  \E S :
           /\ Serialize(c, m) = FlattenSeq(AllWritten(c, m)) /\ Serialize(c, m) \in Seq(S)
           /\ AllWritten(c, m) \in [DOMAIN Fields[c] -> Seq(S)]
           /\ \A i \in DOMAIN Serialize(c, m) : \E n \in DOMAIN Fields[c] :
                \E j \in DOMAIN Values(c, m, n) : Serialize(c, m)[i] = Element(c, m, n, j)
           /\ \A n \in DOMAIN Fields[c] : \A j \in DOMAIN Values(c, m, n) :
                \E i \in DOMAIN Serialize(c, m) : Serialize(c, m)[i] = Element(c, m, n, j)
<1> DEFINE N == Len(Fields[c])
           D == DOMAIN Fields[c]
           W(n) == WrittenOf(c, m, n)
           S == UNION {Range(W(n)) : n \in D}
           q == AllWritten(c, m)
           w == FlattenSeq(q)
<1>1. N \in 1 .. 7 /\ D = 1 .. N
  BY ClassTable
<1>2. ASSUME NEW n \in D
      PROVE  /\ W(n) \in Seq(S) /\ DOMAIN Values(c, m, n) = 1 .. Len(W(n))
             /\ \A j \in 1 .. Len(W(n)) : W(n)[j] = Element(c, m, n, j)
  <2>1. PICK k \in Nat : DOMAIN Values(c, m, n) = 1 .. k
    BY ValuesAreSequence
  <2>2. W(n) = [j \in 1 .. k |-> Element(c, m, n, j)]
    BY <2>1 DEF WrittenOf, Element
  <2>3. \A j \in 1 .. k : Element(c, m, n, j) \in Range(W(n))
    BY <2>2 DEF Range
  <2>4. Range(W(n)) \subseteq S
    OBVIOUS
  <2> HIDE DEF W, S
  <2>5. W(n) \in Seq(S) /\ Len(W(n)) = k
    <3>1. \A j \in 1 .. k : Element(c, m, n, j) \in S
      BY <2>3, <2>4
    <3> QED
      BY <2>2, <3>1
  <2> QED
    BY <2>1, <2>2, <2>5
<1>3. q \in [1 .. N -> Seq(S)] /\ \A n \in D : q[n] = W(n)
  <2>1. q = [n \in 1 .. N |-> W(n)]
    BY <1>1 DEF AllWritten
  <2> HIDE DEF W, S, N
  <2> QED
    BY <1>1, <1>2, <2>1
<1> HIDE DEF W, S, N, q
<1>4. N \in Nat \ {0}
  BY <1>1
<1>5. w \in Seq(S) /\ \E p : Places(q, N, p)
  BY <1>3, <1>4, Flattened
<1>6. Serialize(c, m) = w
  <2>1. Serialize(c, m) = w \o m.unknown
    BY SerializeUnfolds DEF AllWritten, q
  <2>2. m.unknown = <<>>
    BY DEF Shape
  <2> HIDE DEF w
  <2> QED
    BY <1>5, <2>1, <2>2
<1>7. PICK p : Places(q, N, p)
  BY <1>5
<1>8. /\ p \in [0 .. N -> Nat] /\ p[0] = 0 /\ Len(w) = p[N]
      /\ \A n \in 1 .. N :
           /\ p[n] = p[n - 1] + Len(q[n]) /\ p[n] <= p[N]
           /\ \A j \in 1 .. Len(q[n]) : w[p[n - 1] + j] = q[n][j]
  BY <1>7 DEF Places
<1>9. DOMAIN w = 1 .. p[N]
  BY <1>5, <1>8
<1> HIDE DEF w
<1>10. ASSUME NEW i \in DOMAIN w
       PROVE  \E n \in D : \E j \in DOMAIN Values(c, m, n) : w[i] = Element(c, m, n, j)
  <2>1. Covers(q, N, p)
    BY <1>3, <1>4, <1>7, Located
  <2>2. PICK n \in 1 .. N : \E j \in 1 .. Len(q[n]) : i = p[n - 1] + j
    BY ONLY <1>9, <2>1 DEF Covers
  <2>4. PICK j \in 1 .. Len(q[n]) : i = p[n - 1] + j
    BY <2>2
  <2>5. w[i] = q[n][j]
    BY <1>8, <2>4
  <2>6. n \in D /\ q[n] = W(n)
    BY <1>1, <1>3
  <2>7. j \in DOMAIN Values(c, m, n) /\ w[i] = Element(c, m, n, j)
    BY <1>2, <2>4, <2>5, <2>6
  <2> QED
    BY <2>6, <2>7
<1>11. ASSUME NEW n \in D, NEW j \in DOMAIN Values(c, m, n)
       PROVE  \E i \in DOMAIN w : w[i] = Element(c, m, n, j)
  <2>1. n \in 1 .. N /\ q[n] = W(n) /\ j \in 1 .. Len(q[n]) /\ q[n][j] = Element(c, m, n, j)
    BY <1>1, <1>2, <1>3
  <2>2. w[p[n - 1] + j] = Element(c, m, n, j)
    BY <1>8, <2>1
  <2>3. p[n - 1] + j \in 1 .. p[N]
    <3>1. p[n] = p[n - 1] + Len(q[n]) /\ p[n] <= p[N] /\ p[n - 1] \in Nat /\ p[N] \in Nat
      <4>1. n - 1 \in 0 .. N /\ N \in 0 .. N
        BY ONLY <1>4, <2>1
      <4> QED
        BY ONLY <1>8, <2>1, <4>1
    <3>2. Len(q[n]) \in Nat /\ j \in Nat /\ 1 <= j /\ j <= Len(q[n])
      BY <1>3, <2>1
    <3> QED
      BY <3>1, <3>2
  <2> QED
    BY <1>9, <2>2, <2>3
<1>12. q \in [D -> Seq(S)]
  BY <1>1, <1>3
<1>13. /\ w = FlattenSeq(q) /\ w \in Seq(S)
       /\ \A i \in DOMAIN w : \E n \in D :
            \E j \in DOMAIN Values(c, m, n) : w[i] = Element(c, m, n, j)
       /\ \A n \in D : \A j \in DOMAIN Values(c, m, n) :
            \E i \in DOMAIN w : w[i] = Element(c, m, n, j)
  BY <1>5, <1>10, <1>11 DEF w
<1> QED
  BY <1>6, <1>12, <1>13 DEF q

(* What a parser is shown of a value.                                       *)
LEMMA ElementIs ==
  ASSUME NEW c \in Classes, NEW m, NEW n \in DOMAIN Fields[c], NEW j
  PROVE  LET f    == Element(c, m, n, j)
             type == Fields[c][n]
             v    == Values(c, m, n)[j]
         IN  /\ f.tag = Tags[c][n] /\ f.v = PayloadOf(type, v)
             /\ f.tag % 8 = WireType(type)
             /\ f.tag % 8 = 2 <=> type = "string" \/ IsMessage(type)
             /\ IsMessage(type) => type # "string" /\ "text" \notin DOMAIN f.v
                  /\ f.v.fields = Serialize(type, v) /\ f.v.size = ByteSize(type, v)
             /\ type = "string" => "text" \in DOMAIN f.v /\ f.v.text = v
<1> DEFINE f    == Element(c, m, n, j)
           type == Fields[c][n]
           v    == Values(c, m, n)[j]
<1>1. f.tag = Tags[c][n] /\ f.v = PayloadOf(type, v)
  BY DEF Element, Field
<1>2. f.tag % 8 = WireType(type)
  BY <1>1, ClassTable
<1>3. IsMessage(type) => type \in {"Position", "Player"}
  BY ClassTable, IsMessageType
<1>4. ~IsMessage(type) => type \in ScalarTypes
  BY ClassTable, IsMessageType
<1>5. f.tag % 8 = 2 <=> type = "string" \/ IsMessage(type)
  BY <1>2, <1>3, <1>4 DEF WireType, ScalarTypes
<1>6. IsMessage(type) => type # "string"
  BY IsMessageType DEF ScalarTypes
<1> HIDE DEF f, type, v
<1>7. IsMessage(type) => f.v = [size |-> ByteSize(type, v), fields |-> Serialize(type, v)]
  BY <1>1 DEF PayloadOf
<1>8. type = "string" => f.v = [text |-> v]
  BY <1>1, <1>6 DEF PayloadOf
<1>9. IsMessage(type) => "text" \notin DOMAIN f.v
                  /\ f.v.fields = Serialize(type, v) /\ f.v.size = ByteSize(type, v)
  BY <1>7
<1>10. type = "string" => "text" \in DOMAIN f.v /\ f.v.text = v
  BY <1>8
<1> QED
  BY <1>1, <1>2, <1>5, <1>6, <1>9, <1>10 DEF f, type, v

(* A text that is not UTF-8 is among the values.                            *)
BadValue(type, v) ==
    \/ IsMessage(type) /\ HasBadText(Serialize(type, v))
    \/ ~IsMessage(type) /\ type = "string" /\ ~IsUtf8(v)

(* A text is looked for in a message that holds none alike at each level.   *)
LEMMA LeafBadAlike ==
  ASSUME NEW c \in LeafClasses, NEW m, Shape(c, m)
  PROVE  LeafHasBadText(Serialize(c, m)) <=> InnerHasBadText(Serialize(c, m))
<1> DEFINE w == Serialize(c, m)
<1>1. c \in Classes
  BY DEF LeafClasses
<1>2. ASSUME NEW i \in DOMAIN w, w[i].tag % 8 = 2 PROVE "text" \in DOMAIN w[i].v
  <2>1. PICK n \in DOMAIN Fields[c] : \E j \in DOMAIN Values(c, m, n) :
               w[i] = Element(c, m, n, j)
    BY <1>1, SerializedFields
  <2>2. PICK j \in DOMAIN Values(c, m, n) : w[i] = Element(c, m, n, j)
    BY <2>1
  <2>3. ~IsMessage(Fields[c][n])
    BY <1>1, SubClass
  <2> HIDE DEF w
  <2> QED
    BY <1>1, <1>2, <2>2, <2>3, ElementIs
<1> HIDE DEF w
<1>3. LeafHasBadText(w) <=> InnerHasBadText(w)
  BY <1>2 DEF LeafHasBadText, InnerHasBadText, HasBadTextWith
<1> QED
  BY <1>3 DEF w

(* A text is looked for in a message that holds Positions only as at the    *)
(* full level.                                                              *)
LEMMA InnerBadAlike ==
  ASSUME NEW c \in InnerClasses, NEW m, Formed(c, m)
  PROVE  InnerHasBadText(Serialize(c, m)) <=> HasBadText(Serialize(c, m))
<1> DEFINE w == Serialize(c, m)
<1>1. c \in Classes /\ Shape(c, m)
  BY FormedUnfolds DEF InnerClasses
<1>2. ASSUME NEW i \in DOMAIN w, w[i].tag % 8 = 2, "text" \notin DOMAIN w[i].v
      PROVE  LeafHasBadText(w[i].v.fields) <=> InnerHasBadText(w[i].v.fields)
  <2>1. PICK n \in DOMAIN Fields[c] : \E j \in DOMAIN Values(c, m, n) :
               w[i] = Element(c, m, n, j)
    BY <1>1, SerializedFields
  <2>2. PICK j \in DOMAIN Values(c, m, n) : w[i] = Element(c, m, n, j)
    BY <2>1
  <2> HIDE DEF w
  <2>3. IsMessage(Fields[c][n])
    BY <1>1, <1>2, <2>2, ElementIs
  <2>4. w[i].v.fields = Serialize(Fields[c][n], Values(c, m, n)[j])
    BY <1>1, <2>2, <2>3, ElementIs
  <2>5. Fields[c][n] \in LeafClasses
    BY <1>1, <2>3, SubClass, IsMessageType
  <2>6. Values(c, m, n) = m.val[n]
    BY <2>3 DEF Values, Boxed
  <2>7. Formed(Fields[c][n], Values(c, m, n)[j])
    BY <1>1, <2>3, <2>6, FormedUnfolds
  <2>8. Shape(Fields[c][n], Values(c, m, n)[j])
    BY <2>5, <2>7, FormedUnfolds DEF LeafClasses
  <2> QED
    BY <2>4, <2>5, <2>8, LeafBadAlike
<1> HIDE DEF w
<1>3. InnerHasBadText(w) <=> HasBadText(w)
  BY <1>2 DEF HasBadText, InnerHasBadText, HasBadTextWith
<1> QED
  BY <1>3 DEF w

(* The bytes of a message hold a text that is not UTF-8 if and only if one  *)
(* of its values is, or holds, one.                                         *)
LEMMA BadTextUnfolds ==
  ASSUME NEW c \in Classes, NEW m, Formed(c, m)
  PROVE  HasBadText(Serialize(c, m)) <=>
           \E n \in DOMAIN Fields[c] : \E j \in DOMAIN Values(c, m, n) :
              BadValue(Fields[c][n], Values(c, m, n)[j])
<1> DEFINE w == Serialize(c, m)
           Bad(f) == /\ f.tag % 8 = 2
                     /\ IF "text" \in DOMAIN f.v THEN ~IsUtf8(f.v.text)
                        ELSE InnerHasBadText(f.v.fields)
<1>1. Shape(c, m)
  BY FormedUnfolds
<1>2. ASSUME NEW n \in DOMAIN Fields[c], NEW j \in DOMAIN Values(c, m, n)
      PROVE  Bad(Element(c, m, n, j)) <=> BadValue(Fields[c][n], Values(c, m, n)[j])
  <2> DEFINE type == Fields[c][n]
             v    == Values(c, m, n)[j]
             f    == Element(c, m, n, j)
  <2>1. CASE IsMessage(type)
    <3>1. f.tag % 8 = 2 /\ "text" \notin DOMAIN f.v /\ f.v.fields = Serialize(type, v)
      BY <2>1, ElementIs
    <3>2. Values(c, m, n) = m.val[n]
      BY <2>1 DEF Values, Boxed
    <3>3. Formed(type, v) /\ type \in InnerClasses
      BY <2>1, <3>2, FormedUnfolds, SubClass
    <3>4. InnerHasBadText(Serialize(type, v)) <=> HasBadText(Serialize(type, v))
      BY <3>3, InnerBadAlike
    <3> HIDE DEF type, v, f
    <3> QED
      BY <2>1, <3>1, <3>4 DEF BadValue, type, v, f
  <2>2. CASE ~IsMessage(type)
    <3>1. f.tag % 8 = 2 <=> type = "string"
      BY <2>2, ElementIs
    <3>2. type = "string" => "text" \in DOMAIN f.v /\ f.v.text = v
      BY ElementIs
    <3> HIDE DEF type, v, f
    <3> QED
      BY <2>2, <3>1, <3>2 DEF BadValue, type, v, f
  <2> QED
    BY <2>1, <2>2
<1>3. HasBadText(w) <=> \E i \in DOMAIN w : Bad(w[i])
  BY DEF HasBadText, HasBadTextWith
<1>4. ASSUME NEW i \in DOMAIN w, Bad(w[i])
      PROVE  \E n \in DOMAIN Fields[c] : \E j \in DOMAIN Values(c, m, n) :
                BadValue(Fields[c][n], Values(c, m, n)[j])
  <2>1. PICK n \in DOMAIN Fields[c] : \E j \in DOMAIN Values(c, m, n) :
               w[i] = Element(c, m, n, j)
    BY <1>1, SerializedFields
  <2> HIDE DEF w, Bad
  <2> QED
    BY <1>2, <1>4, <2>1
<1>5. ASSUME NEW n \in DOMAIN Fields[c], NEW j \in DOMAIN Values(c, m, n),
             BadValue(Fields[c][n], Values(c, m, n)[j])
      PROVE  \E i \in DOMAIN w : Bad(w[i])
  <2>1. PICK i \in DOMAIN w : w[i] = Element(c, m, n, j)
    BY <1>1, SerializedFields
  <2> HIDE DEF w, Bad
  <2> QED
    BY <1>2, <1>5, <2>1
<1> HIDE DEF w, Bad
<1>6. HasBadText(w) <=>
           \E n \in DOMAIN Fields[c] : \E j \in DOMAIN Values(c, m, n) :
              BadValue(Fields[c][n], Values(c, m, n)[j])
  BY <1>3, <1>4, <1>5
<1> QED
  BY <1>6 DEF w

(* Reading what was written for from, on top of to, fails if and only if it *)
(* holds a text that is not UTF-8, and otherwise merges from into to.       *)
Reads(class, to, from) ==
    LET st == ParseInto(class, to, Serialize(class, from))
    IN  /\ st.ok <=> ~HasBadText(Serialize(class, from))
        /\ st.ok => st.m = MergeFrom(class, to, from)

(* A message other than a SyncPlayers is read as MergeFrom merges it, if the *)
(* messages it holds are.                                                   *)
LEMMA InnerReads ==
  ASSUME NEW c \in InnerClasses, NEW to, Formed(c, to), NEW from, Formed(c, from),
         \A n \in DOMAIN Fields[c] :
            IsMessage(Fields[c][n]) /\ IsPresent(c, from, n) =>
              Reads(Fields[c][n], Mutable(c, to, n), from.val[n][1])
  PROVE  Reads(c, to, from)
<1> DEFINE D == DOMAIN Fields[c]
           w == Serialize(c, from)
           V(n) == Values(c, from, n)
           type(n) == Fields[c][n]
           payload == [n \in D |-> PayloadOf(type(n), V(n)[1])]
           good == [n \in D |-> ~BadValue(type(n), V(n)[1])]
           subs == [n \in D |-> MergeFrom(type(n), Mutable(c, to, n), from.val[n][1])]
           q == AllWritten(c, from)
<1>1. /\ c \in Classes /\ c # "SyncPlayers" /\ Shape(c, to) /\ Shape(c, from)
  BY FormedUnfolds DEF InnerClasses
<1>2. PICK S : w = FlattenSeq(q) /\ w \in Seq(S) /\ q \in [D -> Seq(S)]
  BY <1>1, SerializedFields
<1>3. ASSUME NEW n \in D
      PROVE  V(n) = <<>> \/ \E v : V(n) = <<v>>
  BY <1>1 DEF Values, Shape, Repeated
<1>4. ASSUME NEW n \in D, V(n) # <<>>
      PROVE  /\ DOMAIN V(n) = {1} /\ V(n) = <<V(n)[1]>>
             /\ IsMessage(type(n)) => V(n)[1] = from.val[n][1]
  <2>1. DOMAIN V(n) = {1} /\ V(n) = <<V(n)[1]>>
    BY <1>3, <1>4
  <2>2. IsMessage(type(n)) => V(n) = from.val[n]
    BY DEF Values, Boxed
  <2> QED
    BY <2>1, <2>2
<1>5. Len(w) \in Nat
  BY <1>2
<1> HIDE DEF w
<1>6. PICK sub, r : ParseRun(c, to, w, sub, r)
  BY <1>5, ParseIntoRuns
<1>7. \A n \in D : /\ payload[n] = PayloadOf(type(n), V(n)[1])
                   /\ good[n] = ~BadValue(type(n), V(n)[1])
                   /\ subs[n] = MergeFrom(type(n), Mutable(c, to, n), from.val[n][1])
  OBVIOUS
<1>8. good \in [D -> BOOLEAN]
  <2>1. \A n \in D : (~BadValue(type(n), V(n)[1])) \in BOOLEAN
    BY DEF BadValue
  <2> QED
    BY <2>1
<1> HIDE DEF payload, good, subs
<1>9. WrittenAs(c, from, payload, q)
  <2> SUFFICES ASSUME NEW n \in D
               PROVE  q[n] = [i \in DOMAIN V(n) |-> Field(c, n, payload[n])]
    BY DEF WrittenAs
  <2>1. q[n] = [i \in DOMAIN V(n) |-> Field(c, n, PayloadOf(type(n), V(n)[i]))]
    BY DEF AllWritten, WrittenOf
  <2>2. \A i \in DOMAIN V(n) : V(n)[i] = V(n)[1]
    BY <1>3
  <2> HIDE DEF q, V, type
  <2> QED
    BY <1>7, <2>1, <2>2
<1>91. PayloadsFit(c, from, payload, good)
  <2> SUFFICES ASSUME NEW n \in D
               PROVE  IF type(n) = "string"
                      THEN payload[n] = [text |-> V(n)[1]]
                           /\ (good[n] <=> IsUtf8(payload[n].text))
                      ELSE ~IsMessage(type(n)) => payload[n] = V(n)[1] /\ good[n]
    BY DEF PayloadsFit
  <2>1. type(n) = "string" => ~IsMessage(type(n))
    BY IsMessageType DEF ScalarTypes
  <2> HIDE DEF V, type
  <2>2. type(n) = "string" => payload[n] = [text |-> V(n)[1]] /\ (good[n] <=> IsUtf8(V(n)[1]))
    BY <1>7, <2>1 DEF PayloadOf, BadValue
  <2>3. type(n) # "string" /\ ~IsMessage(type(n)) => payload[n] = V(n)[1] /\ good[n]
    BY <1>7 DEF PayloadOf, BadValue
  <2> QED
    BY <2>2, <2>3
<1>92. SubsRead(c, to, from, payload, good, subs, w, sub, r)
  <2> SUFFICES ASSUME NEW n \in D, IsPresent(c, from, n), IsMessage(type(n)),
                      NEW i \in 1 .. Len(w), w[i] = Field(c, n, payload[n]),
                      Mutable(c, r[i - 1].m, n) = Mutable(c, to, n)
               PROVE  (sub[i].ok <=> good[n]) /\ (good[n] => sub[i].m = subs[n])
    BY DEF SubsRead
  <2>1. V(n)[1] = from.val[n][1]
    BY <1>4 DEF IsPresent
  <2>2. payload[n] = [size   |-> ByteSize(type(n), from.val[n][1]),
                      fields |-> Serialize(type(n), from.val[n][1])]
    BY <1>7, <2>1 DEF PayloadOf
  <2>3. w[i].v.fields = Serialize(type(n), from.val[n][1]) /\ w[i].tag \div 8 = n
    BY <1>1, <2>2, ClassTable DEF Field
  <2>4. type(n) \in InnerClasses
    BY <1>1, SubClass
  <2>5. sub[i] = ParseInto(type(n), Mutable(c, to, n), Serialize(type(n), from.val[n][1]))
    <3>1. sub[i] = InnerParse(type(n), Mutable(c, to, n), Serialize(type(n), from.val[n][1]))
      BY <1>6, <2>3 DEF ParseRun, SubType, SubBefore
    <3> QED
      BY <2>4, <3>1, InnerReadsAlike
  <2>6. Reads(type(n), Mutable(c, to, n), from.val[n][1])
    OBVIOUS
  <2>7. good[n] <=> ~HasBadText(Serialize(type(n), from.val[n][1]))
    BY <1>7, <2>1 DEF BadValue
  <2>8. subs[n] = MergeFrom(type(n), Mutable(c, to, n), from.val[n][1])
    BY <1>7
  <2> QED
    BY ONLY <2>5, <2>6, <2>7, <2>8 DEF Reads
<1> DEFINE st == r[Len(w)]
<1>10. AllMerged(c, to, from, good, subs, st)
  <2>1. /\ IsRun(c, to, w, sub, r) /\ w = FlattenSeq(q)
        /\ q \in [DOMAIN Fields[c] -> Seq(S)] /\ good \in [DOMAIN Fields[c] -> BOOLEAN]
    BY <1>2, <1>6, <1>8 DEF ParseRun
  <2> HIDE DEF q
  <2> QED
    BY ONLY <1>1, <1>9, <1>91, <1>92, <2>1, RunMerges
<1>11. HasBadText(w) <=> \E n \in D : IsPresent(c, from, n) /\ ~good[n]
  <2>1. HasBadText(w) <=> \E n \in D : \E j \in DOMAIN V(n) : BadValue(type(n), V(n)[j])
    BY <1>1, BadTextUnfolds DEF w
  <2>2. ASSUME NEW n \in D
        PROVE  (\E j \in DOMAIN V(n) : BadValue(type(n), V(n)[j]))
                 <=> IsPresent(c, from, n) /\ ~good[n]
    <3>1. CASE V(n) = <<>>
      BY <3>1 DEF IsPresent
    <3>2. CASE V(n) # <<>>
      <4>1. DOMAIN V(n) = {1}
        BY <1>4, <3>2
      <4> HIDE DEF type
      <4> QED
        BY <1>7, <3>2, <4>1 DEF IsPresent
    <3> QED
      BY <3>1, <3>2
  <2> QED
    BY <2>1, <2>2
<1>12. MergeFrom(c, to, from) = Upto(c, to, from, subs, Len(Fields[c]))
  BY <1>1, <1>7, MergeIsUpto
<1>13. ParseInto(c, to, w) = st
  BY <1>6 DEF ParseRun
<1> HIDE DEF st
<1> QED
  BY <1>10, <1>11, <1>12, <1>13 DEF Reads, AllMerged, w

(* A new message is formed, and so is the submessage that is set or new.    *)
LEMMA DefaultFormed ==
  ASSUME NEW c \in Classes
  PROVE  Formed(c, Default(c)) /\ Shape(c, Default(c))
<1> DEFINE d == Default(c)
<1>1. d = [val     |-> [n \in DOMAIN Fields[c] |->
                          IF Boxed(c, n) THEN <<>> ELSE Zero(Fields[c][n])],
           unknown |-> <<>>]
  BY DEF Default
<1>2. \A n \in DOMAIN Fields[c] : Boxed(c, n) => d.val[n] = <<>>
  BY <1>1
<1>3. OneofData(c) \subseteq DOMAIN Fields[c] /\ \A n \in OneofData(c) : Boxed(c, n)
  BY OneofInBroadCast DEF Boxed
<1>4. d = [val |-> d.val, unknown |-> <<>>]
      /\ d.val = [n \in DOMAIN Fields[c] |-> d.val[n]]
  BY <1>1
<1> HIDE DEF d
<1>5. \A n \in DOMAIN Fields[c] :
        Boxed(c, n) => IF Repeated(c, n) THEN \E S : d.val[n] \in Seq(S)
                       ELSE d.val[n] = <<>> \/ d.val[n] = <<d.val[n][1]>>
  <2>1. <<>> \in Seq({})
    OBVIOUS
  <2> QED
    BY ONLY <1>2, <2>1, Zenon
<1>6. Shape(c, d)
  BY <1>2, <1>3, <1>4, <1>5 DEF Shape
<1>7. \A n \in DOMAIN Fields[c] : IsMessage(Fields[c][n]) => d.val[n] = <<>>
  BY <1>2 DEF Boxed
<1>8. Formed(c, d)
  BY <1>6, <1>7, FormedUnfolds
<1> QED
  BY <1>6, <1>8 DEF d

(* What mutable_<field> gives is formed.                                    *)
LEMMA MutableFormed ==
  ASSUME NEW c \in Classes, NEW m, Formed(c, m), NEW n \in DOMAIN Fields[c],
         IsMessage(Fields[c][n])
  PROVE  Formed(Fields[c][n], Mutable(c, m, n))
<1>1. Fields[c][n] \in Classes
  BY DEF IsMessage
<1>2. CASE m.val[n] = <<>> \/ Repeated(c, n)
  BY <1>1, <1>2, DefaultFormed DEF Mutable
<1>3. CASE ~(m.val[n] = <<>> \/ Repeated(c, n))
  <2>1. Mutable(c, m, n) = m.val[n][1]
    BY <1>3 DEF Mutable
  <2>2. m.val[n] = <<m.val[n][1]>>
    BY <1>3, FormedUnfolds DEF Shape, Boxed
  <2>3. 1 \in DOMAIN m.val[n]
    BY <2>2
  <2> QED
    BY <2>1, <2>3, FormedUnfolds
<1> QED
  BY <1>2, <1>3

(* A submessage that is there is formed, and the only one.                  *)
LEMMA PresentFormed ==
  ASSUME NEW c \in InnerClasses, NEW m, Formed(c, m), NEW n \in DOMAIN Fields[c],
         IsMessage(Fields[c][n]), IsPresent(c, m, n)
  PROVE  Formed(Fields[c][n], m.val[n][1]) /\ m.val[n] = <<m.val[n][1]>>
<1>1. c \in Classes /\ ~Repeated(c, n)
  BY DEF InnerClasses, Repeated
<1>2. m.val[n] # <<>>
  BY DEF IsPresent, Values, Boxed
<1>3. m.val[n] = <<m.val[n][1]>>
  BY <1>1, <1>2, FormedUnfolds DEF Shape, Boxed
<1>4. 1 \in DOMAIN m.val[n]
  BY <1>3
<1> QED
  BY <1>1, <1>3, <1>4, FormedUnfolds

(* A Position is read as MergeFrom merges it.                               *)
LEMMA PositionReads ==
  ASSUME NEW to, Formed("Position", to), NEW from, Formed("Position", from)
  PROVE  Reads("Position", to, from)
<1>1. "Position" \in InnerClasses /\ "Position" \in Classes
  BY IsMessageType
<1>2. \A n \in DOMAIN Fields["Position"] : ~IsMessage(Fields["Position"][n])
  BY <1>1, IsMessageType, SubClass
<1> QED
  BY <1>1, <1>2, InnerReads

(* So is a message of each class other than SyncPlayers.                    *)
LEMMA AnyInnerReads ==
  ASSUME NEW c \in InnerClasses, NEW to, Formed(c, to), NEW from, Formed(c, from)
  PROVE  Reads(c, to, from)
<1>1. c \in Classes
  BY DEF InnerClasses
<1>2. ASSUME NEW n \in DOMAIN Fields[c], IsMessage(Fields[c][n]), IsPresent(c, from, n)
      PROVE  Reads(Fields[c][n], Mutable(c, to, n), from.val[n][1])
  <2>1. Fields[c][n] = "Position"
    BY <1>1, <1>2, SubClass
  <2>2. Formed("Position", Mutable(c, to, n))
    BY <1>1, <1>2, <2>1, MutableFormed
  <2>3. Formed("Position", from.val[n][1])
    BY <1>2, <2>1, PresentFormed
  <2> QED
    BY <2>1, <2>2, <2>3, PositionReads
<1> QED
  BY <1>2, InnerReads

(* Merged into a new message, a message stays what it is.                   *)
MergesToItself(c, m) == MergeFrom(c, Default(c), m) = m

(* Merging a message into a new one gives the message, if it does for those *)
(* it holds.                                                                *)
LEMMA MergeIntoDefault ==
  ASSUME NEW c \in Classes, NEW m, Shape(c, m),
         \A n \in DOMAIN Fields[c] :
            IsMessage(Fields[c][n]) /\ ~Repeated(c, n) /\ IsPresent(c, m, n) =>
              MergesToItself(Fields[c][n], m.val[n][1])
  PROVE  MergesToItself(c, m)
<1> DEFINE d == Default(c)
<1>1. d.unknown = <<>>
      /\ \A n \in DOMAIN Fields[c] :
           d.val[n] = IF Boxed(c, n) THEN <<>> ELSE Zero(Fields[c][n])
  BY DEF Default
<1> HIDE DEF d
<1>2. ASSUME NEW n \in DOMAIN Fields[c]
      PROVE  MergedOf(c, d, m, n) = m.val[n]
  <2>1. CASE ~IsPresent(c, m, n)
    <3>1. m.val[n] = d.val[n]
      BY <1>1, <2>1 DEF IsPresent, Values
    <3>2. n \in OneofData(c) => d.val[n] = <<>>
      BY <1>1 DEF Boxed
    <3> QED
      BY <2>1, <3>1, <3>2 DEF MergedOf
  <2>2. CASE IsPresent(c, m, n) /\ Repeated(c, n)
    <3>1. c = "SyncPlayers" /\ Fields[c] = <<"Player">> /\ n = 1
      BY <2>2, ClassTable DEF Repeated
    <3>2. Boxed(c, n)
      BY <3>1, IsMessageType DEF Boxed
    <3>3. PICK S : m.val[n] \in Seq(S)
      BY <2>2, <3>2 DEF Shape
    <3>4. <<>> \o m.val[n] = m.val[n]
      BY <3>3
    <3> QED
      BY <1>1, <2>2, <3>2, <3>4 DEF MergedOf
  <2>3. CASE IsPresent(c, m, n) /\ ~Repeated(c, n) /\ IsMessage(Fields[c][n])
    <3>1. m.val[n] = <<m.val[n][1]>>
      BY <2>3 DEF Shape, Boxed, IsPresent, Values
    <3>2. Mutable(c, d, n) = Default(Fields[c][n])
      BY <1>1, <2>3 DEF Mutable, Boxed
    <3>3. MergeFrom(Fields[c][n], Default(Fields[c][n]), m.val[n][1]) = m.val[n][1]
      BY <2>3 DEF MergesToItself
    <3> QED
      BY <2>3, <3>1, <3>2, <3>3 DEF MergedOf
  <2>4. CASE IsPresent(c, m, n) /\ ~Repeated(c, n) /\ ~IsMessage(Fields[c][n])
    BY <2>4 DEF MergedOf
  <2> QED
    BY <2>1, <2>2, <2>3, <2>4
<1>3. MergeFrom(c, d, m) = [val     |-> [n \in DOMAIN Fields[c] |-> MergedOf(c, d, m, n)],
                            unknown |-> d.unknown \o m.unknown]
  BY MergeUnfolds, Zenon
<1>4. [n \in DOMAIN Fields[c] |-> MergedOf(c, d, m, n)] = m.val
  <2>1. m.val = [n \in DOMAIN Fields[c] |-> m.val[n]]
    BY DEF Shape
  <2> QED
    BY ONLY <1>2, <2>1
<1>5. m.unknown = <<>> /\ m = [val |-> m.val, unknown |-> <<>>]
  <2>1. m = [val |-> m.val, unknown |-> <<>>]
    BY Zenon DEF Shape
  <2>2. [val |-> m.val, unknown |-> <<>>].unknown = <<>>
    BY ONLY TRUE
  <2> QED
    BY ONLY <2>1, <2>2, Zenon
<1>6. d.unknown \o m.unknown = <<>>
  BY ONLY <1>1, <1>5
<1>7. MergeFrom(c, d, m) = m
  BY ONLY <1>3, <1>4, <1>5, <1>6, Zenon
<1> QED
  BY <1>7 DEF MergesToItself, d

(* Merging any message into a new one gives the message.                    *)
LEMMA FormedMergesToItself ==
  ASSUME NEW c \in Classes, NEW m, Formed(c, m)
  PROVE  MergesToItself(c, m)
<1>1. ASSUME NEW x, Formed("Position", x) PROVE MergesToItself("Position", x)
  <2>1. "Position" \in Classes /\ Shape("Position", x)
    BY <1>1, IsMessageType, FormedUnfolds
  <2>2. \A n \in DOMAIN Fields["Position"] : ~IsMessage(Fields["Position"][n])
    BY IsMessageType, SubClass
  <2> QED
    BY <2>1, <2>2, MergeIntoDefault
<1>2. CASE c \in InnerClasses
  <2>1. ASSUME NEW n \in DOMAIN Fields[c], IsMessage(Fields[c][n]), IsPresent(c, m, n)
        PROVE  MergesToItself(Fields[c][n], m.val[n][1])
    BY <1>1, <1>2, <2>1, PresentFormed, SubClass
  <2>2. Shape(c, m)
    BY FormedUnfolds
  <2> QED
    BY <2>1, <2>2, MergeIntoDefault
<1>3. CASE c = "SyncPlayers"
  <2>1. \A n \in DOMAIN Fields[c] : Repeated(c, n)
    BY <1>3 DEF Repeated
  <2>2. Shape(c, m)
    BY FormedUnfolds
  <2> QED
    BY <2>1, <2>2, MergeIntoDefault
<1> QED
  BY <1>2, <1>3 DEF InnerClasses

(* The players of a list, up to the ith.                                    *)
UpToPlayer(s, P, i) == s \o [j \in 1 .. i |-> P[j]]

(* Appending the players one by one appends the list of them.               *)
LEMMA OnePlayerMore ==
  ASSUME NEW S, NEW s \in Seq(S), NEW P \in Seq(S), NEW i \in Nat, i < Len(P)
  PROVE  /\ UpToPlayer(s, P, 0) = s /\ UpToPlayer(s, P, Len(P)) = s \o P
         /\ Append(UpToPlayer(s, P, i), P[i + 1]) = UpToPlayer(s, P, i + 1)
<1> DEFINE front(k) == [j \in 1 .. k |-> P[j]]
<1>1. front(0) = <<>> /\ front(Len(P)) = P
  OBVIOUS
<1>2. s \o front(0) = s /\ s \o front(Len(P)) = s \o P
  BY <1>1
<1>3. /\ front(i) \in Seq(S) /\ Len(front(i)) = i
      /\ front(i + 1) = Append(front(i), P[i + 1]) /\ P[i + 1] \in S
  <2>1. \A j \in 1 .. i : P[j] \in S
    OBVIOUS
  <2>2. \A j \in 1 .. i + 1 : P[j] \in S
    OBVIOUS
  <2>3. P[i + 1] \in S
    BY <2>2
  <2>4. front(i) \in Seq(S) /\ Len(front(i)) = i
    BY <2>1
  <2>5. front(i + 1) \in Seq(S) /\ Len(front(i + 1)) = i + 1
    BY <2>2
  <2>6. \A j \in 1 .. i + 1 : front(i + 1)[j] = Append(front(i), P[i + 1])[j]
    BY <2>4
  <2>7. Append(front(i), P[i + 1]) \in Seq(S) /\ Len(Append(front(i), P[i + 1])) = i + 1
    BY <2>3, <2>4
  <2> HIDE DEF front
  <2>8. front(i + 1) = Append(front(i), P[i + 1])
    BY <2>5, <2>6, <2>7
  <2> QED
    BY <2>3, <2>4, <2>8
<1> HIDE DEF front
<1>4. Append(s \o front(i), P[i + 1]) = s \o front(i + 1)
  <2> DEFINE a == P[i + 1]
             f == front(i)
  <2>1. f \in Seq(S) /\ a \in S
    BY <1>3
  <2> HIDE DEF a, f
  <2>2. Append(s \o f, a) = s \o Append(f, a)
    <3>1. s \o f \in Seq(S) /\ <<a>> \in Seq(S)
      BY <2>1
    <3>2. Append(s \o f, a) = (s \o f) \o <<a>> /\ Append(f, a) = f \o <<a>>
      BY <2>1, <3>1, AppendIsConcat
    <3> QED
      BY <2>1, <3>1, <3>2, ConcatAssociative
  <2> QED
    BY <1>3, <2>2 DEF a, f
<1> QED
  BY <1>2, <1>4 DEF UpToPlayer, front

(* A SyncPlayers is read as MergeFrom merges it: its Players are appended   *)
(* one by one, until one cannot be read.                                    *)
LEMMA SyncPlayersReads ==
  ASSUME NEW to, Formed("SyncPlayers", to), NEW from, Formed("SyncPlayers", from)
  PROVE  Reads("SyncPlayers", to, from)
<1> DEFINE c == "SyncPlayers"
           s == to.val[1]
           P == from.val[1]
           K == Len(P)
           w == Serialize(c, from)
           q == AllWritten(c, from)
<1>1. /\ c \in Classes /\ Fields[c] = <<"Player">> /\ DOMAIN Fields[c] = {1}
      /\ Fields[c][1] = "Player" /\ "Player" \in InnerClasses /\ IsMessage("Player")
  <2>1. c \in Classes
    BY DEF Classes, Fields
  <2>2. Fields[c] = <<"Player">>
    BY <2>1, ClassTable
  <2> QED
    BY <2>1, <2>2, IsMessageType
<1>2. Boxed(c, 1) /\ Repeated(c, 1) /\ OneofData(c) = {}
  BY <1>1 DEF Boxed, Repeated, OneofData
<1>3. /\ to = [val |-> to.val, unknown |-> <<>>] /\ to.val = [n \in {1} |-> s]
      /\ \E S : s \in Seq(S)
      /\ \A i \in DOMAIN s : Formed("Player", s[i])
  <2>1. Shape(c, to) /\ \A i \in DOMAIN s : Formed("Player", s[i])
    BY <1>1, FormedUnfolds
  <2> QED
    BY <1>1, <1>2, <2>1 DEF Shape
<1>4. /\ Shape(c, from) /\ from.unknown = <<>>
      /\ \E S : P \in Seq(S)
      /\ \A i \in DOMAIN P : Formed("Player", P[i])
  <2>1. Shape(c, from) /\ \A i \in DOMAIN P : Formed("Player", P[i])
    BY <1>1, FormedUnfolds
  <2> QED
    BY <1>1, <1>2, <2>1 DEF Shape
<1>5. PICK S : s \in Seq(S) /\ P \in Seq(S)
  <2>1. PICK S1 : s \in Seq(S1)
    BY <1>3
  <2>2. PICK S2 : P \in Seq(S2)
    BY <1>4
  <2>3. s \in Seq(S1 \cup S2) /\ P \in Seq(S1 \cup S2)
    <3> HIDE DEF s, P
    <3> QED
      BY <2>1, <2>2
  <2> QED
    BY <2>3
<1>6. K \in Nat /\ DOMAIN P = 1 .. K /\ Values(c, from, 1) = P
  BY <1>2, <1>5 DEF Values
<1>7. /\ Len(w) = K
      /\ \A i \in 1 .. K : w[i] = Element(c, from, 1, i)
  <2>1. PICK T : w = FlattenSeq(q) /\ w \in Seq(T) /\ q \in [{1} -> Seq(T)]
    BY <1>1, <1>4, SerializedFields
  <2>2. q[1] = [i \in 1 .. K |-> Element(c, from, 1, i)]
    BY <1>1, <1>6 DEF AllWritten, WrittenOf, Element
  <2> HIDE DEF q, w, c
  <2>3. q \in [1 .. 1 -> Seq(T)] /\ 1 \in Nat \ {0}
    BY <2>1
  <2>4. PICK p : Places(q, 1, p)
    BY <2>3, Flattened
  <2>5. /\ p[0] = 0 /\ Len(w) = p[1] /\ p[1] = p[0] + Len(q[1])
        /\ \A j \in 1 .. Len(q[1]) : w[p[0] + j] = q[1][j]
    <3>1. 1 \in 1 .. 1 /\ 1 - 1 = 0
      OBVIOUS
    <3> QED
      BY <2>1, <2>4, <3>1 DEF Places
  <2> HIDE DEF K
  <2>6. Len(q[1]) = K
    BY <1>6, <2>2
  <2>7. Len(w) = K
    BY <1>6, <2>5, <2>6
  <2>8. ASSUME NEW i \in 1 .. K PROVE w[i] = Element(c, from, 1, i)
    <3>1. p[0] + i = i /\ i \in 1 .. Len(q[1])
      BY <2>5, <2>6, <1>6
    <3> QED
      BY <2>2, <2>5, <3>1
  <2> QED
    BY <2>7, <2>8
<1> HIDE DEF c, w, K, P, s
<1>8. PICK sub, r : ParseRun(c, to, w, sub, r)
  BY <1>6, <1>7, ParseIntoRuns
<1> DEFINE Read(i) == [val |-> [n \in {1} |-> UpToPlayer(s, P, i)], unknown |-> <<>>]
           Good(i) == ~HasBadText(Serialize("Player", P[i]))
           H == {i \in 0 .. K : /\ r[i].ok <=> \A j \in 1 .. i : Good(j)
                                /\ r[i].ok => r[i].m = Read(i)}
<1>9. 0 \in H
  <2>1. r[0] = [ok |-> TRUE, m |-> to]
    BY <1>8 DEF ParseRun, IsRun
  <2>2. UpToPlayer(s, P, 0) = s
    <3>1. [j \in 1 .. 0 |-> P[j]] = <<>>
      OBVIOUS
    <3> QED
      BY <1>5, <3>1 DEF UpToPlayer
  <2>3. Read(0) = to
    BY <1>3, <2>2
  <2> QED
    BY <1>6, <2>1, <2>3
<1>10. ASSUME NEW h \in 0 .. K, h \in H, h < K PROVE h + 1 \in H
  <2> DEFINE i == h + 1
  <2>1. i \in 1 .. K /\ i - 1 = h /\ i \in 0 .. K /\ h \in Nat
    BY <1>6, <1>10
  <2>2. /\ r[h].ok <=> \A j \in 1 .. h : Good(j)
        /\ r[h].ok => r[h].m = Read(h)
    BY <1>10
  <2>3. \A j : j \in 1 .. i <=> j \in 1 .. h \/ j = i
    BY <1>6, <1>10
  <2>4. Append(UpToPlayer(s, P, h), P[i]) = UpToPlayer(s, P, i)
    <3>1. h < Len(P)
      BY <1>10 DEF K
    <3> QED
      BY <1>5, <2>1, <3>1, OnePlayerMore
  <2> HIDE DEF i, H, Good, Read
  <2>5. /\ w[i] = Element(c, from, 1, i)
        /\ r[i] = ReadField(c, r[h], w[i], sub[i])
        /\ sub[i] = InnerParse(SubType(c, w[i]), SubBefore(c, r[h].m, w[i]), w[i].v.fields)
    BY <1>7, <1>8, <2>1 DEF ParseRun, IsRun
  <2>6. w[i].tag \in Range(Tags[c]) /\ w[i].tag \div 8 = 1
        /\ w[i].v.fields = Serialize("Player", P[i])
    <3>1. w[i].tag = Tags[c][1] /\ w[i].v.fields = Serialize("Player", P[i])
      BY <1>1, <1>6, <2>5, ElementIs
    <3>2. Tags[c][1] \div 8 = 1 /\ 1 \in DOMAIN Tags[c]
      BY <1>1, ClassTable
    <3> QED
      BY <3>1, <3>2 DEF Range
  <2>7. sub[i] = ParseInto("Player", Default("Player"), Serialize("Player", P[i]))
    <3>1. SubType(c, w[i]) = "Player" /\ SubBefore(c, r[h].m, w[i]) = Default("Player")
      BY <1>1, <1>2, <2>6 DEF SubType, SubBefore, Mutable
    <3> QED
      BY <1>1, <2>5, <2>6, <3>1, InnerReadsAlike
  <2>8. /\ sub[i].ok <=> Good(i)
        /\ sub[i].ok => sub[i].m = P[i]
    <3>1. Formed("Player", P[i])
      BY <1>4, <1>6, <2>1
    <3>2. Formed("Player", Default("Player")) /\ "Player" \in Classes
      BY <1>1, DefaultFormed DEF IsMessage
    <3>3. Reads("Player", Default("Player"), P[i])
      BY <1>1, <3>1, <3>2, AnyInnerReads
    <3>4. MergesToItself("Player", P[i])
      BY <3>1, <3>2, FormedMergesToItself
    <3> QED
      BY <2>7, <3>3, <3>4 DEF Reads, MergesToItself, Good
  <2>9. CASE ~r[h].ok
    <3>1. r[i] = r[h]
      BY <2>5, <2>9 DEF ReadField
    <3>2. i \in H
      BY <2>1, <2>2, <2>3, <2>9, <3>1 DEF H
    <3> QED
      BY <3>2 DEF i
  <2>10. CASE r[h].ok
    <3>1. r[i] = [ok |-> sub[i].ok, m |-> Put(c, r[h].m, 1, sub[i].m)]
      BY <1>1, <2>5, <2>6, <2>10 DEF ReadField
    <3>2. ASSUME sub[i].ok PROVE r[i].m = Read(i)
      <4>1. r[i].m = Put(c, Read(h), 1, P[i])
        BY <2>2, <2>8, <2>10, <3>1, <3>2
      <4> DEFINE old == UpToPlayer(s, P, h)
                 new == UpToPlayer(s, P, i)
      <4>2. Read(h) = [val |-> [n \in {1} |-> old], unknown |-> <<>>]
            /\ Read(i) = [val |-> [n \in {1} |-> new], unknown |-> <<>>]
        BY DEF Read
      <4>3. Append(old, P[i]) = new
        BY <2>4
      <4> HIDE DEF old, new
      <4>4. ClearedOthers(c, Read(h), 1) = [n \in {1} |-> old]
        BY <1>2, <4>2 DEF ClearedOthers
      <4>5. Put(c, Read(h), 1, P[i])
              = [Read(h) EXCEPT !.val = [ [n \in {1} |-> old] EXCEPT ![1] = Append(@, P[i])]]
        BY <1>2, <4>4 DEF Put
      <4>6. [ [n \in {1} |-> old] EXCEPT ![1] = Append(@, P[i])] = [n \in {1} |-> new]
        BY <4>3
      <4>7. [Read(h) EXCEPT !.val = [n \in {1} |-> new]] = Read(i)
        BY <4>2
      <4> QED
        BY ONLY <4>1, <4>5, <4>6, <4>7
    <3>3. i \in H
      BY <2>1, <2>2, <2>3, <2>8, <2>10, <3>1, <3>2 DEF H
    <3> QED
      BY <3>3 DEF i
  <2> QED
    BY <2>9, <2>10
<1>11. K \in H
  <2>1. \A n \in 0 .. K : n \in H /\ n < K => n + 1 \in H
    BY <1>10
  <2> HIDE DEF H
  <2>2. \A n \in 0 .. K : n \in H
    BY <1>6, <1>9, <2>1, UpTo, Zenon
  <2> QED
    BY <1>6, <2>2
<1>12. /\ r[K].ok <=> \A j \in 1 .. K : Good(j)
       /\ r[K].ok => r[K].m = Read(K)
  BY <1>11
<1>13. HasBadText(w) <=> \E j \in 1 .. K : ~Good(j)
  <2>1. HasBadText(w) <=> \E n \in {1} : \E j \in DOMAIN Values(c, from, n) :
                             BadValue(Fields[c][n], Values(c, from, n)[j])
    BY <1>1, BadTextUnfolds DEF w, c
  <2>2. HasBadText(w) <=> \E j \in 1 .. K : BadValue("Player", P[j])
    BY <1>1, <1>6, <2>1
  <2> QED
    BY <1>1, <2>2 DEF BadValue
<1>14. MergeFrom(c, to, from) = Read(K)
  <2>1. MergedOf(c, to, from, 1) = s \o P
    <3>1. CASE P = <<>>
      <4>1. s \o P = s
        BY <1>5, <3>1
      <4> QED
        BY <1>2, <1>6, <3>1, <4>1 DEF MergedOf, IsPresent, s
    <3>2. CASE P # <<>>
      BY <1>2, <1>6, <3>2 DEF MergedOf, IsPresent, s, P
    <3> QED
      BY <3>1, <3>2
  <2>2. UpToPlayer(s, P, K) = s \o P
    <3>1. [j \in 1 .. K |-> P[j]] = P
      BY <1>5, <1>6
    <3> QED
      BY <3>1 DEF UpToPlayer
  <2>3. to.unknown \o from.unknown = <<>>
    <3>1. to.unknown = <<>>
      BY <1>3
    <3> QED
      BY ONLY <1>4, <3>1
  <2>4. MergeFrom(c, to, from) = [val     |-> [n \in {1} |-> MergedOf(c, to, from, n)],
                                  unknown |-> to.unknown \o from.unknown]
    BY <1>1, MergeUnfolds, Zenon
  <2>5. [n \in {1} |-> MergedOf(c, to, from, n)] = [n \in {1} |-> UpToPlayer(s, P, K)]
    BY <2>1, <2>2
  <2> QED
    BY ONLY <2>3, <2>4, <2>5
<1>15. ParseInto(c, to, w) = r[K]
  BY <1>7, <1>8 DEF ParseRun
<1> QED
  BY <1>12, <1>13, <1>14, <1>15 DEF Reads, w, c

(* The round trip: the bytes of any message of any class, read on top of any *)
(* message of it, give what MergeFrom makes of the two; reading fails if and *)
(* only if a text is not UTF-8.                                             *)
THEOREM AnyReads ==
  ASSUME NEW c \in Classes, NEW to, Formed(c, to), NEW from, Formed(c, from)
  PROVE  Reads(c, to, from)
<1>1. c \in InnerClasses \/ c = "SyncPlayers"
  BY DEF InnerClasses
<1> QED
  BY <1>1, AnyInnerReads, SyncPlayersReads

(* A message merged from formed ones is formed.                             *)
LEMMA MergedFormedStep ==
  ASSUME NEW c \in Classes, NEW to, Formed(c, to), NEW from, Formed(c, from),
         \A n \in DOMAIN Fields[c] :
            IsMessage(Fields[c][n]) /\ ~Repeated(c, n) /\ IsPresent(c, from, n) =>
              Formed(Fields[c][n], MergeFrom(Fields[c][n], Mutable(c, to, n), from.val[n][1]))
  PROVE  Formed(c, MergeFrom(c, to, from))
<1> DEFINE D == DOMAIN Fields[c]
           m == MergeFrom(c, to, from)
           M(n) == MergedOf(c, to, from, n)
<1>1. /\ Shape(c, to) /\ Shape(c, from)
      /\ \A n \in D : IsMessage(Fields[c][n]) =>
           /\ \A i \in DOMAIN to.val[n] : Formed(Fields[c][n], to.val[n][i])
           /\ \A i \in DOMAIN from.val[n] : Formed(Fields[c][n], from.val[n][i])
  BY FormedUnfolds
<1>2. m = [val |-> [n \in D |-> M(n)], unknown |-> <<>>]
  <2>1. to.unknown = <<>> /\ from.unknown = <<>>
    <3>1. to = [val |-> to.val, unknown |-> <<>>] /\ from = [val |-> from.val, unknown |-> <<>>]
      BY <1>1, Zenon DEF Shape
    <3> QED
      BY ONLY <3>1
  <2>2. to.unknown \o from.unknown = <<>>
    BY ONLY <2>1
  <2>3. m = [val |-> [n \in D |-> M(n)], unknown |-> to.unknown \o from.unknown]
    BY MergeUnfolds, Zenon
  <2> QED
    BY ONLY <2>2, <2>3, Zenon
<1>3. ASSUME NEW n \in D, Boxed(c, n), Repeated(c, n)
      PROVE  /\ \E S : M(n) \in Seq(S)
             /\ IsMessage(Fields[c][n]) =>
                  \A i \in DOMAIN M(n) : Formed(Fields[c][n], M(n)[i])
  <2> DEFINE s == to.val[n]
             t == from.val[n]
  <2>1. PICK S1 : s \in Seq(S1)
    BY <1>1, <1>3 DEF Shape
  <2>2. PICK S2 : t \in Seq(S2)
    BY <1>1, <1>3 DEF Shape
  <2>3. M(n) = s \o t \/ M(n) = s
    <3>1. OneofData(c) = {}
      BY <1>3 DEF Repeated, OneofData
    <3> QED
      BY <1>3, <3>1 DEF MergedOf
  <2>4. /\ IsMessage(Fields[c][n]) =>
             /\ \A i \in DOMAIN s : Formed(Fields[c][n], s[i])
             /\ \A i \in DOMAIN t : Formed(Fields[c][n], t[i])
    BY <1>1
  <2> HIDE DEF s, t
  <2>5. s \in Seq(S1 \cup S2) /\ t \in Seq(S1 \cup S2)
    BY <2>1, <2>2
  <2>6. M(n) \in Seq(S1 \cup S2)
    <3>1. s \o t \in Seq(S1 \cup S2)
      BY <2>5
    <3> QED
      BY ONLY <2>3, <2>5, <3>1, Zenon
  <2>7. ASSUME NEW i \in DOMAIN (s \o t), IsMessage(Fields[c][n])
        PROVE  Formed(Fields[c][n], (s \o t)[i])
    <3>1. i \in 1 .. Len(s) + Len(t) /\ Len(s) \in Nat /\ Len(t) \in Nat
      BY <2>5
    <3>2. CASE i <= Len(s)
      <4>1. i \in DOMAIN s /\ (s \o t)[i] = s[i]
        BY <2>5, <3>1, <3>2
      <4> QED
        BY <2>4, <2>7, <4>1
    <3>3. CASE i > Len(s)
      <4>1. i - Len(s) \in DOMAIN t /\ (s \o t)[i] = t[i - Len(s)]
        BY <2>5, <3>1, <3>3
      <4> QED
        BY <2>4, <2>7, <4>1
    <3> QED
      BY <3>1, <3>2, <3>3
  <2>8. IsMessage(Fields[c][n]) => \A i \in DOMAIN M(n) : Formed(Fields[c][n], M(n)[i])
    BY ONLY <2>3, <2>4, <2>7, Zenon
  <2> QED
    BY <2>6, <2>8
<1>4. ASSUME NEW n \in D, Boxed(c, n), ~Repeated(c, n)
      PROVE  /\ M(n) = <<>> \/ M(n) = <<M(n)[1]>>
             /\ IsMessage(Fields[c][n]) =>
                  \A i \in DOMAIN M(n) : Formed(Fields[c][n], M(n)[i])
  <2>1. /\ to.val[n] = <<>> \/ to.val[n] = <<to.val[n][1]>>
        /\ from.val[n] = <<>> \/ from.val[n] = <<from.val[n][1]>>
    BY <1>1, <1>4 DEF Shape
  <2>2. CASE ~IsPresent(c, from, n)
    <3>1. M(n) = <<>> \/ M(n) = to.val[n]
      BY <2>2 DEF MergedOf
    <3> HIDE DEF M
    <3>2. CASE M(n) = <<>>
      <4>1. \A i \in DOMAIN <<>> : FALSE
        OBVIOUS
      <4> QED
        BY <3>2, <4>1
    <3>3. CASE M(n) = to.val[n]
      BY <1>1, <2>1, <3>3
    <3> QED
      BY <3>1, <3>2, <3>3
  <2>3. CASE IsPresent(c, from, n) /\ IsMessage(Fields[c][n])
    <3> DEFINE x == MergeFrom(Fields[c][n], Mutable(c, to, n), from.val[n][1])
    <3>1. M(n) = <<x>>
      BY <1>4, <2>3 DEF MergedOf
    <3>2. Formed(Fields[c][n], x)
      BY <1>4, <2>3
    <3> HIDE DEF x, M
    <3>3. M(n)[1] = x /\ \A i \in DOMAIN M(n) : i = 1
      BY <3>1
    <3> QED
      BY <3>1, <3>2, <3>3
  <2>4. CASE IsPresent(c, from, n) /\ ~IsMessage(Fields[c][n])
    <3>1. M(n) = from.val[n]
      BY <1>4, <2>4 DEF MergedOf
    <3> QED
      BY <2>1, <2>4, <3>1
  <2> QED
    BY <2>2, <2>3, <2>4
<1>5. ASSUME NEW j \in OneofData(c), NEW k \in OneofData(c), j # k
      PROVE  M(j) = <<>> \/ M(k) = <<>>
  <2>1. OneofData(c) \subseteq D /\ Boxed(c, j) /\ Boxed(c, k)
    BY OneofInBroadCast DEF Boxed
  <2>2. CASE \E i \in OneofData(c) : IsPresent(c, from, i)
    <3>1. ~IsPresent(c, from, j) \/ ~IsPresent(c, from, k)
      BY <1>1, <1>5, <2>1 DEF IsPresent, Values, Shape
    <3> QED
      BY <2>2, <3>1 DEF MergedOf
  <2>3. CASE ~\E i \in OneofData(c) : IsPresent(c, from, i)
    <3>1. M(j) = to.val[j] /\ M(k) = to.val[k]
      BY <2>3 DEF MergedOf
    <3>2. to.val[j] = <<>> \/ to.val[k] = <<>>
      BY <1>1, <1>5 DEF Shape
    <3> QED
      BY <3>1, <3>2
  <2> QED
    BY <2>2, <2>3
<1>6. OneofData(c) \subseteq D
  BY OneofInBroadCast
<1>7. \A n \in D : m.val[n] = M(n)
  BY <1>2
<1>8. m = [val |-> m.val, unknown |-> <<>>] /\ m.val = [n \in D |-> m.val[n]]
  BY <1>2
<1> HIDE DEF m, M
<1>9. Shape(c, m)
  <2>1. \A n \in D : Boxed(c, n) => IF Repeated(c, n) THEN \E S : m.val[n] \in Seq(S)
                                    ELSE m.val[n] = <<>> \/ m.val[n] = <<m.val[n][1]>>
    BY <1>3, <1>4, <1>7
  <2>2. \A j, k \in OneofData(c) : j = k \/ m.val[j] = <<>> \/ m.val[k] = <<>>
    BY <1>5, <1>6, <1>7
  <2> QED
    BY <1>8, <2>1, <2>2 DEF Shape
<1>10. ASSUME NEW n \in D, IsMessage(Fields[c][n]), NEW i \in DOMAIN m.val[n]
       PROVE  Formed(Fields[c][n], m.val[n][i])
  <2>1. Boxed(c, n) /\ m.val[n] = M(n)
    BY <1>7, <1>10 DEF Boxed
  <2> QED
    BY <1>3, <1>4, <1>10, <2>1
<1>11. Formed(c, m)
  BY <1>9, <1>10, FormedUnfolds
<1> QED
  BY <1>11 DEF m

(* What MergeFrom makes of formed messages is formed.                       *)
LEMMA MergedFormed ==
  ASSUME NEW c \in Classes, NEW to, Formed(c, to), NEW from, Formed(c, from)
  PROVE  Formed(c, MergeFrom(c, to, from))
<1>1. ASSUME NEW x, Formed("Position", x), NEW y, Formed("Position", y)
      PROVE  Formed("Position", MergeFrom("Position", x, y))
  <2>1. "Position" \in Classes
    BY IsMessageType
  <2>2. \A n \in DOMAIN Fields["Position"] : ~IsMessage(Fields["Position"][n])
    BY IsMessageType, SubClass
  <2> QED
    BY <1>1, <2>1, <2>2, MergedFormedStep
<1>2. ASSUME NEW n \in DOMAIN Fields[c], IsMessage(Fields[c][n]), ~Repeated(c, n),
             IsPresent(c, from, n)
      PROVE  Formed(Fields[c][n], MergeFrom(Fields[c][n], Mutable(c, to, n), from.val[n][1]))
  <2>1. c \in InnerClasses
    BY <1>2 DEF InnerClasses, Repeated
  <2>2. Fields[c][n] = "Position"
    BY <1>2, <2>1, SubClass
  <2>3. Formed("Position", Mutable(c, to, n))
    BY <1>2, <2>2, MutableFormed
  <2>4. Formed("Position", from.val[n][1])
    BY <1>2, <2>1, <2>2, PresentFormed
  <2> QED
    BY <1>1, <2>2, <2>3, <2>4
<1> QED
  BY <1>2, MergedFormedStep

(* A parser goes on where it stopped, if it has not failed.                 *)
LEMMA RunIsRecord ==
  ASSUME NEW class, NEW m, NEW w, Len(w) \in Nat, NEW sub, NEW r,
         IsRun(class, m, w, sub, r)
  PROVE  \A i \in 0 .. Len(w) : r[i] = [ok |-> r[i].ok, m |-> r[i].m]
<1> DEFINE P == {i \in 0 .. Len(w) : r[i] = [ok |-> r[i].ok, m |-> r[i].m]}
<1>1. 0 \in P
  BY DEF IsRun
<1>2. ASSUME NEW h \in 0 .. Len(w), h \in P, h < Len(w) PROVE h + 1 \in P
  <2> DEFINE i == h + 1
  <2>1. i \in 1 .. Len(w) /\ i - 1 = h /\ i \in 0 .. Len(w)
    BY <1>2
  <2>2. r[h] = [ok |-> r[h].ok, m |-> r[h].m]
    BY <1>2
  <2> HIDE DEF i
  <2>3. r[i] = ReadField(class, r[h], w[i], sub[i])
    BY <2>1 DEF IsRun
  <2>4. r[i] = [ok |-> r[i].ok, m |-> r[i].m]
    <3> DEFINE st == r[h]
               x  == r[i]
    <3>1. st = [ok |-> st.ok, m |-> st.m] /\ x = ReadField(class, st, w[i], sub[i])
      BY <2>2, <2>3
    <3> HIDE DEF st, x
    <3>2. x = [ok |-> x.ok, m |-> x.m]
      <4>1. \/ x = st
            \/ x = [st EXCEPT !.m = KeptUnknown(@, w[i])]
            \/ \E a, b : x = [ok |-> a, m |-> b]
        BY <3>1 DEF ReadField
      <4>2. CASE x = [st EXCEPT !.m = KeptUnknown(@, w[i])]
        BY <3>1, <4>2
      <4>3. ASSUME NEW a, NEW b, x = [ok |-> a, m |-> b] PROVE x = [ok |-> x.ok, m |-> x.m]
        BY ONLY <4>3
      <4> QED
        BY <3>1, <4>1, <4>2, <4>3
    <3> QED
      BY <3>2 DEF x
  <2>5. i \in P
    BY <2>1, <2>4
  <2> QED
    BY <2>5 DEF i
<1> HIDE DEF P
<1>3. \A i \in 0 .. Len(w) : i \in P
  <2>1. \A h \in 0 .. Len(w) : h \in P /\ h < Len(w) => h + 1 \in P
    BY <1>2
  <2> QED
    BY <1>1, <2>1, UpTo, Zenon
<1> QED
  BY <1>3 DEF P

(* Reading the bytes of two messages is reading the second on top of what   *)
(* the first gave; what fails for the first fails for both.                 *)
LEMMA ParseJoined ==
  ASSUME NEW class, NEW m, NEW S, NEW v \in Seq(S), NEW w \in Seq(S)
  PROVE  LET st == ParseInto(class, m, v)
             t  == ParseInto(class, m, v \o w)
         IN  /\ st.ok  => t = ParseInto(class, st.m, w)
             /\ ~st.ok => ~t.ok
<1> DEFINE u == v \o w
           a == Len(v)
           b == Len(w)
           st == ParseInto(class, m, v)
<1>1. /\ u \in Seq(S) /\ Len(u) = a + b /\ a \in Nat /\ b \in Nat
      /\ \A i \in 1 .. a : u[i] = v[i]
      /\ \A i \in 1 .. b : u[a + i] = w[i]
  BY Joined
<1> HIDE DEF u, a, b
<1>2. Len(v) = a /\ Len(w) = b
  BY DEF a, b
<1>3. Len(v) \in Nat /\ Len(w) \in Nat /\ Len(u) \in Nat
  BY <1>1, <1>2
<1>4. PICK sub, r : ParseRun(class, m, u, sub, r)
  BY <1>3, ParseIntoRuns
<1>5. PICK sub1, r1 : ParseRun(class, m, v, sub1, r1)
  BY <1>3, ParseIntoRuns
<1>6. PICK sub2, r2 : ParseRun(class, st.m, w, sub2, r2)
  BY <1>3, ParseIntoRuns
<1> HIDE DEF st
<1>7. \A i \in 0 .. a : r[i] = r1[i]
  <2> DEFINE P == {i \in 0 .. a : r[i] = r1[i]}
  <2>1. 0 \in P
    BY <1>1, <1>4, <1>5 DEF ParseRun, IsRun
  <2>2. ASSUME NEW h \in 0 .. a, h \in P, h < a PROVE h + 1 \in P
    <3> DEFINE i == h + 1
    <3>1. i \in 1 .. a /\ i - 1 = h /\ i \in 0 .. a /\ i \in 1 .. Len(u) /\ r[h] = r1[h]
      BY <1>1, <2>2
    <3> HIDE DEF i
    <3>2. u[i] = v[i]
      BY <1>1, <3>1
    <3>3. sub[i] = sub1[i]
      BY <1>2, <1>4, <1>5, <3>1, <3>2 DEF ParseRun
    <3>4. r[i] = r1[i]
      BY <1>2, <1>4, <1>5, <3>1, <3>2, <3>3 DEF ParseRun, IsRun
    <3>5. i \in P
      BY <3>1, <3>4
    <3> QED
      BY <3>5 DEF i
  <2> HIDE DEF P
  <2>3. \A i \in 0 .. a : i \in P
    <3>1. \A h \in 0 .. a : h \in P /\ h < a => h + 1 \in P
      BY <2>2
    <3> QED
      BY <1>1, <2>1, <3>1, UpTo, Zenon
  <2> QED
    BY <2>3 DEF P
<1>8. st = r[a]
  BY <1>1, <1>2, <1>5, <1>7 DEF st, ParseRun
<1>9. ParseInto(class, m, u) = r[a + b]
  BY <1>1, <1>4 DEF ParseRun
<1>10. CASE st.ok
  <2>1. r[a] = r2[0]
    <3>1. r[a] = [ok |-> r[a].ok, m |-> r[a].m]
      <4>1. IsRun(class, m, u, sub, r)
        BY <1>4 DEF ParseRun
      <4>2. Len(u) = a + b /\ a \in Nat /\ b \in Nat
        BY <1>1
      <4>3. a \in 0 .. Len(u)
        BY ONLY <4>2
      <4>4. \A i \in 0 .. Len(u) : r[i] = [ok |-> r[i].ok, m |-> r[i].m]
        BY <1>3, <4>1, RunIsRecord
      <4> QED
        BY ONLY <4>3, <4>4, Zenon
    <3>2. r2[0] = [ok |-> TRUE, m |-> st.m]
      BY <1>6 DEF ParseRun, IsRun
    <3>3. r[a].ok = TRUE
      BY <1>4, <1>8, <1>10 DEF ParseRun
    <3> QED
      BY <1>8, <3>1, <3>2, <3>3
  <2> DEFINE P == {i \in 0 .. b : r[a + i] = r2[i]}
  <2>2. 0 \in P
    BY <1>1, <2>1
  <2>3. ASSUME NEW h \in 0 .. b, h \in P, h < b PROVE h + 1 \in P
    <3> DEFINE i == h + 1
               k == a + i
    <3>1. /\ i \in 1 .. b /\ i - 1 = h /\ i \in 0 .. b /\ r[a + h] = r2[h]
          /\ k \in 1 .. Len(u) /\ k - 1 = a + h
      BY <1>1, <2>3
    <3>2. u[k] = w[i]
      BY <1>1, <3>1
    <3> HIDE DEF i, k
    <3>3. sub[k] = sub2[i]
      <4>1. r[k - 1].m = r2[i - 1].m
        BY <3>1
      <4> QED
        BY <1>2, <1>4, <1>6, <3>1, <3>2, <4>1 DEF ParseRun
    <3>4. r[k] = r2[i]
      <4>1. r[k - 1] = r2[i - 1]
        BY <3>1
      <4> QED
        BY <1>2, <1>4, <1>6, <3>1, <3>2, <3>3, <4>1 DEF ParseRun, IsRun
    <3>5. i \in P
      BY <3>1, <3>4 DEF k
    <3> QED
      BY <3>5 DEF i
  <2> HIDE DEF P
  <2>4. \A i \in 0 .. b : i \in P
    <3>1. \A h \in 0 .. b : h \in P /\ h < b => h + 1 \in P
      BY <2>3
    <3> QED
      BY <1>1, <2>2, <3>1, UpTo, Zenon
  <2>5. r[a + b] = r2[b]
    BY <1>1, <2>4 DEF P
  <2>6. ParseInto(class, m, u) = ParseInto(class, st.m, w)
    BY <1>2, <1>6, <1>9, <2>5 DEF ParseRun
  <2> QED
    BY <1>10, <2>6 DEF u, st
<1>11. CASE ~st.ok
  <2> DEFINE P == {i \in 0 .. b : ~r[a + i].ok}
  <2>1. 0 \in P
    BY <1>1, <1>8, <1>11
  <2>2. ASSUME NEW h \in 0 .. b, h \in P, h < b PROVE h + 1 \in P
    <3> DEFINE k == a + (h + 1)
    <3>1. k \in 1 .. Len(u) /\ k - 1 = a + h /\ h + 1 \in 0 .. b /\ ~r[a + h].ok
      BY <1>1, <2>2
    <3> HIDE DEF k
    <3>2. r[k] = ReadField(class, r[a + h], u[k], sub[k])
      BY <1>4, <3>1 DEF ParseRun, IsRun
    <3>3. ~r[k].ok
      BY <3>1, <3>2 DEF ReadField
    <3> QED
      BY <3>1, <3>3 DEF k
  <2> HIDE DEF P
  <2>3. \A i \in 0 .. b : i \in P
    <3>1. \A h \in 0 .. b : h \in P /\ h < b => h + 1 \in P
      BY <2>2
    <3> QED
      BY <1>1, <2>1, <3>1, UpTo, Zenon
  <2>4. ~r[a + b].ok
    <3>1. b \in 0 .. b
      BY <1>1
    <3>2. b \in P
      BY <2>3, <3>1
    <3> QED
      BY ONLY <3>2 DEF P
  <2> QED
    BY <1>9, <1>11, <2>4 DEF u, st
<1> QED
  BY <1>10, <1>11 DEF u, st

(* A text that is not UTF-8 is in one of the two.                           *)
LEMMA BadTextJoined ==
  ASSUME NEW S, NEW v \in Seq(S), NEW w \in Seq(S)
  PROVE  HasBadText(v \o w) <=> HasBadText(v) \/ HasBadText(w)
<1> DEFINE u == v \o w
           a == Len(v)
           b == Len(w)
           Bad(f) == /\ f.tag % 8 = 2
                     /\ IF "text" \in DOMAIN f.v THEN ~IsUtf8(f.v.text)
                        ELSE InnerHasBadText(f.v.fields)
<1>1. /\ Len(u) = a + b /\ a \in Nat /\ b \in Nat
      /\ \A i \in 1 .. a : u[i] = v[i]
      /\ \A i \in 1 .. b : u[a + i] = w[i]
      /\ DOMAIN v = 1 .. a /\ DOMAIN w = 1 .. b /\ u \in Seq(S)
  BY Joined
<1>2. \A s : HasBadText(s) <=> \E i \in DOMAIN s : Bad(s[i])
  BY DEF HasBadText, HasBadTextWith
<1> HIDE DEF u, a, b, Bad
<1>3. DOMAIN u = 1 .. a + b
  BY <1>1
<1>4. \A i \in 1 .. a + b : i \in 1 .. a \/ (i - a \in 1 .. b /\ i = a + (i - a))
  BY <1>1
<1>5. ASSUME NEW i \in DOMAIN u, Bad(u[i])
      PROVE  (\E j \in DOMAIN v : Bad(v[j])) \/ (\E j \in DOMAIN w : Bad(w[j]))
  <2>1. CASE i \in 1 .. a
    BY <1>1, <1>5, <2>1
  <2>2. CASE i - a \in 1 .. b /\ i = a + (i - a)
    <3>1. u[i] = w[i - a]
      BY <1>1, <2>2
    <3> QED
      BY <1>1, <1>5, <2>2, <3>1
  <2> QED
    BY <1>3, <1>4, <2>1, <2>2
<1>6. ASSUME NEW j \in DOMAIN v, Bad(v[j]) PROVE \E i \in DOMAIN u : Bad(u[i])
  <2>1. j \in DOMAIN u /\ u[j] = v[j]
    BY <1>1, <1>3
  <2> QED
    BY <1>6, <2>1
<1>7. ASSUME NEW j \in DOMAIN w, Bad(w[j]) PROVE \E i \in DOMAIN u : Bad(u[i])
  <2>1. a + j \in DOMAIN u /\ u[a + j] = w[j]
    BY <1>1, <1>3
  <2> QED
    BY <1>7, <2>1
<1> QED
  BY <1>2, <1>5, <1>6, <1>7 DEF u

(* What two flattened sequences have at a place is at the same place of the *)
(* same part, if their parts are of the same lengths.                       *)
SamePlaces(q, t, N) ==
    /\ Len(FlattenSeq(t)) = Len(FlattenSeq(q))
    /\ \A i \in 1 .. Len(FlattenSeq(q)) :
         \E n \in 1 .. N : \E j \in 1 .. Len(q[n]) :
           FlattenSeq(q)[i] = q[n][j] /\ FlattenSeq(t)[i] = t[n][j]

(* Sequences of the same lengths are joined with each element at the same   *)
(* place.                                                                   *)
LEMMA FlattenedAlike ==
  ASSUME NEW N \in Nat \ {0}, NEW S, NEW q \in [1 .. N -> Seq(S)],
         NEW T, NEW t \in [1 .. N -> Seq(T)],
         \A n \in 1 .. N : Len(t[n]) = Len(q[n])
  PROVE  SamePlaces(q, t, N)
<1>1. PICK p : Places(q, N, p)
  BY Flattened
<1>2. PICK o : Places(t, N, o)
  BY Flattened
<1>3. \A n \in 0 .. N : o[n] = p[n]
  <2> DEFINE P == {n \in 0 .. N : o[n] = p[n]}
  <2>1. 0 \in P
    BY <1>1, <1>2 DEF Places
  <2>2. ASSUME NEW h \in 0 .. N, h \in P, h < N PROVE h + 1 \in P
    <3> DEFINE n == h + 1
    <3>1. n \in 1 .. N /\ n - 1 = h /\ n \in 0 .. N /\ o[h] = p[h]
      BY <2>2
    <3> HIDE DEF n
    <3>2. o[n] = o[h] + Len(t[n]) /\ p[n] = p[h] + Len(q[n]) /\ Len(t[n]) = Len(q[n])
      BY <1>1, <1>2, <3>1 DEF Places
    <3>3. n \in P
      BY <3>1, <3>2
    <3> QED
      BY <3>3 DEF n
  <2> HIDE DEF P
  <2>3. \A n \in 0 .. N : n \in P
    <3>1. \A n \in 0 .. N : n \in P /\ n < N => n + 1 \in P
      BY <2>2
    <3> QED
      BY <2>1, <3>1, UpTo, Zenon
  <2> QED
    BY <2>3 DEF P
<1>4. Len(FlattenSeq(q)) = p[N] /\ Len(FlattenSeq(t)) = p[N]
  BY <1>1, <1>2, <1>3 DEF Places
<1>5. ASSUME NEW i \in 1 .. p[N]
      PROVE  \E n \in 1 .. N : \E j \in 1 .. Len(q[n]) :
                FlattenSeq(q)[i] = q[n][j] /\ FlattenSeq(t)[i] = t[n][j]
  <2>1. Covers(q, N, p)
    BY <1>1, Located
  <2>2. PICK n \in 1 .. N : \E j \in 1 .. Len(q[n]) : i = p[n - 1] + j
    BY <2>1 DEF Covers
  <2>3. PICK j \in 1 .. Len(q[n]) : i = p[n - 1] + j
    BY <2>2
  <2>4. n - 1 \in 0 .. N /\ o[n - 1] = p[n - 1]
    BY <1>3
  <2>5. FlattenSeq(q)[p[n - 1] + j] = q[n][j]
    BY <1>1 DEF Places
  <2>6. FlattenSeq(t)[o[n - 1] + j] = t[n][j]
    <3>1. j \in 1 .. Len(t[n])
      OBVIOUS
    <3> QED
      BY ONLY <1>2, <3>1 DEF Places
  <2> QED
    BY <2>3, <2>4, <2>5, <2>6
<1> QED
  BY <1>4, <1>5 DEF SamePlaces

(* What a field takes on the wire, SizeOnWire of all classes.               *)
SizeWith(Sub(_), f) ==
    1 + CASE f.tag % 8 = 0 -> Int32Size(f.v)
          [] f.tag % 8 = 5 -> 4
          [] f.tag % 8 = 2 -> IF "text" \in DOMAIN f.v
                              THEN LengthDelimitedSize(Len(f.v.text))
                              ELSE VarintSize(f.v.size) + Sum(Sub(f.v.fields))
SizeOnWire(f) == SizeWith(InnerWireSizes, f)

(* The sizes on the wire are those of its fields.                           *)
LEMMA WireSizesAre ==
  ASSUME NEW w
  PROVE  /\ InnerWireSizes(w) = [i \in DOMAIN w |-> SizeWith(LeafWireSizes, w[i])]
         /\ WireSizes(w) = [i \in DOMAIN w |-> SizeOnWire(w[i])]
  BY DEF InnerWireSizes, WireSizes, WireSizesWith, SizeOnWire, SizeWith

(* The bytes of a message that holds none are counted alike at each level.  *)
LEMMA LeafWireAlike ==
  ASSUME NEW c \in LeafClasses, NEW m, Shape(c, m)
  PROVE  LeafWireSizes(Serialize(c, m)) = InnerWireSizes(Serialize(c, m))
<1> DEFINE w == Serialize(c, m)
<1>1. c \in Classes
  BY DEF LeafClasses
<1>2. ASSUME NEW i \in DOMAIN w, w[i].tag % 8 = 2 PROVE "text" \in DOMAIN w[i].v
  <2>1. PICK n \in DOMAIN Fields[c] : \E j \in DOMAIN Values(c, m, n) :
               w[i] = Element(c, m, n, j)
    BY <1>1, SerializedFields
  <2>2. PICK j \in DOMAIN Values(c, m, n) : w[i] = Element(c, m, n, j)
    BY <2>1
  <2>3. ~IsMessage(Fields[c][n])
    BY <1>1, SubClass
  <2> HIDE DEF w
  <2> QED
    BY <1>1, <1>2, <2>2, <2>3, ElementIs
<1> HIDE DEF w
<1> DEFINE A(i) == SizeWith(LAMBDA x : <<>>, w[i])
           B(i) == SizeWith(LeafWireSizes, w[i])
<1>3. \A i \in DOMAIN w : A(i) = B(i)
  BY <1>2 DEF SizeWith
<1>4. LeafWireSizes(w) = [i \in DOMAIN w |-> A(i)]
  BY DEF LeafWireSizes, WireSizesWith, SizeWith
<1>5. InnerWireSizes(w) = [i \in DOMAIN w |-> B(i)]
  BY WireSizesAre
<1> HIDE DEF A, B
<1>6. LeafWireSizes(w) = InnerWireSizes(w)
  BY ONLY <1>3, <1>4, <1>5
<1> QED
  BY <1>6 DEF w

(* The bytes of a message that holds Positions only are counted as at the   *)
(* full level.                                                              *)
LEMMA InnerWireAlike ==
  ASSUME NEW c \in InnerClasses, NEW m, Formed(c, m)
  PROVE  InnerWireSizes(Serialize(c, m)) = WireSizes(Serialize(c, m))
<1> DEFINE w == Serialize(c, m)
<1>1. c \in Classes /\ Shape(c, m)
  BY FormedUnfolds DEF InnerClasses
<1>2. ASSUME NEW i \in DOMAIN w, w[i].tag % 8 = 2, "text" \notin DOMAIN w[i].v
      PROVE  LeafWireSizes(w[i].v.fields) = InnerWireSizes(w[i].v.fields)
  <2>1. PICK n \in DOMAIN Fields[c] : \E j \in DOMAIN Values(c, m, n) :
               w[i] = Element(c, m, n, j)
    BY <1>1, SerializedFields
  <2>2. PICK j \in DOMAIN Values(c, m, n) : w[i] = Element(c, m, n, j)
    BY <2>1
  <2> HIDE DEF w
  <2>3. IsMessage(Fields[c][n])
    BY <1>1, <1>2, <2>2, ElementIs
  <2>4. w[i].v.fields = Serialize(Fields[c][n], Values(c, m, n)[j])
    BY <1>1, <2>2, <2>3, ElementIs
  <2>5. Fields[c][n] \in LeafClasses
    BY <1>1, <2>3, SubClass, IsMessageType
  <2>6. Values(c, m, n) = m.val[n]
    BY <2>3 DEF Values, Boxed
  <2>7. Formed(Fields[c][n], Values(c, m, n)[j])
    BY <1>1, <2>3, <2>6, FormedUnfolds
  <2>8. Shape(Fields[c][n], Values(c, m, n)[j])
    BY <2>5, <2>7, FormedUnfolds DEF LeafClasses
  <2> QED
    BY <2>4, <2>5, <2>8, LeafWireAlike
<1> HIDE DEF w
<1> DEFINE A(i) == SizeWith(LeafWireSizes, w[i])
           B(i) == SizeOnWire(w[i])
<1>3. \A i \in DOMAIN w : A(i) = B(i)
  BY <1>2 DEF SizeOnWire, SizeWith
<1>4. InnerWireSizes(w) = [i \in DOMAIN w |-> A(i)]
  BY WireSizesAre
<1>5. WireSizes(w) = [i \in DOMAIN w |-> B(i)]
  BY WireSizesAre
<1> HIDE DEF A, B
<1>6. InnerWireSizes(w) = WireSizes(w)
  BY ONLY <1>3, <1>4, <1>5
<1> QED
  BY <1>6 DEF w

(* The size of what is written is what ByteSizeLong says.                   *)
Exact(class, m) == ByteSize(class, m) = WireSize(Serialize(class, m))

(* A value takes on the wire what ByteSizeLong counts for it, if the message *)
(* that it may be does.                                                     *)
LEMMA ElementSize ==
  ASSUME NEW c \in Classes, NEW m, Formed(c, m), NEW n \in DOMAIN Fields[c],
         NEW j \in DOMAIN Values(c, m, n),
         IsMessage(Fields[c][n]) => Exact(Fields[c][n], m.val[n][j])
  PROVE  SizeOnWire(Element(c, m, n, j)) = 1 + SizeOf(Fields[c][n], Values(c, m, n)[j])
<1> DEFINE type == Fields[c][n]
           v    == Values(c, m, n)[j]
           f    == Element(c, m, n, j)
<1>1. CASE IsMessage(type)
  <2>1. f.tag % 8 = 2 /\ "text" \notin DOMAIN f.v /\ f.v.fields = Serialize(type, v)
        /\ f.v.size = ByteSize(type, v)
    BY <1>1, ElementIs
  <2>2. v = m.val[n][j]
    BY <1>1 DEF Values, Boxed
  <2>3. Formed(type, v) /\ type \in InnerClasses
    BY <1>1, <2>2, FormedUnfolds, SubClass DEF Values, Boxed
  <2>4. InnerWireSizes(Serialize(type, v)) = WireSizes(Serialize(type, v))
    BY <2>3, InnerWireAlike
  <2>5. Exact(type, v)
    BY <1>1, <2>2
  <2> HIDE DEF type, v, f
  <2>6. SizeOf(type, v) = VarintSize(ByteSize(type, v)) + ByteSize(type, v)
    BY <1>1 DEF SizeOf, LengthDelimitedSize
  <2>7. SizeOnWire(f) = 1 + (VarintSize(ByteSize(type, v)) + Sum(WireSizes(Serialize(type, v))))
    BY <2>1, <2>4 DEF SizeOnWire, SizeWith
  <2>8. SizeOnWire(f) = 1 + SizeOf(type, v)
    BY <2>5, <2>6, <2>7 DEF Exact, WireSize
  <2> QED
    BY <2>8 DEF type, v, f
<1>2. CASE ~IsMessage(type)
  <2>1. f.tag % 8 = WireType(type) /\ f.v = PayloadOf(type, v)
    BY ElementIs
  <2>2. type = "string" => "text" \in DOMAIN f.v /\ f.v.text = v
    BY ElementIs
  <2>3. type \in ScalarTypes
    BY <1>2, ClassTable, IsMessageType
  <2> HIDE DEF type, v, f
  <2>4. SizeOf(type, v) = ScalarSize(type, v)
    BY <1>2 DEF SizeOf
  <2>5. CASE type = "string"
    <3>1. f.tag % 8 = 2
      BY <2>1, <2>5 DEF WireType
    <3>2. SizeOnWire(f) = 1 + LengthDelimitedSize(Len(v))
      BY <2>2, <2>5, <3>1 DEF SizeOnWire, SizeWith
    <3>3. ScalarSize(type, v) = LengthDelimitedSize(Len(v))
      BY <2>5 DEF ScalarSize
    <3> QED
      BY <2>4, <3>2, <3>3 DEF type, v, f
  <2>6. CASE type = "float"
    <3>1. f.tag % 8 = 5
      BY <2>1, <2>6 DEF WireType
    <3>2. SizeOnWire(f) = 1 + 4
      BY <3>1 DEF SizeOnWire, SizeWith
    <3>3. ScalarSize(type, v) = 4
      BY <2>6 DEF ScalarSize
    <3> QED
      BY <2>4, <3>2, <3>3 DEF type, v, f
  <2>7. CASE type \in {"int32", "int64", "enum"}
    <3>1. f.tag % 8 = 0 /\ f.v = v
      BY <1>2, <2>1, <2>7 DEF WireType, PayloadOf
    <3>2. SizeOnWire(f) = 1 + Int32Size(v)
      BY <3>1 DEF SizeOnWire, SizeWith
    <3>3. ScalarSize(type, v) = Int32Size(v)
      BY <2>7 DEF ScalarSize
    <3> QED
      BY <2>4, <3>2, <3>3 DEF type, v, f
  <2> QED
    BY <2>3, <2>5, <2>6, <2>7 DEF ScalarTypes
<1> QED
  BY <1>1, <1>2

(* A message takes what ByteSizeLong counts, if the messages in it do.      *)
LEMMA ExactStep ==
  ASSUME NEW c \in Classes, NEW m, Formed(c, m),
         \A n \in DOMAIN Fields[c] :
            IsMessage(Fields[c][n]) =>
              \A j \in DOMAIN m.val[n] : Exact(Fields[c][n], m.val[n][j])
  PROVE  Exact(c, m)
<1> DEFINE N == Len(Fields[c])
           D == DOMAIN Fields[c]
           q == AllWritten(c, m)
           w == Serialize(c, m)
           Z(n) == SizesOf(c, m, n)
           T == UNION {Range(Z(n)) : n \in D}
           t == [n \in D |-> Z(n)]
<1>1. N \in Nat \ {0} /\ D = 1 .. N
  <2>1. N \in 1 .. 7 /\ D = 1 .. N
    BY ONLY ClassTable DEF N, D
  <2> HIDE DEF N, D
  <2> QED
    BY <2>1
<1>2. Shape(c, m)
  BY FormedUnfolds
<1>3. PICK S : w = FlattenSeq(q) /\ w \in Seq(S) /\ q \in [D -> Seq(S)]
  BY <1>2, SerializedFields
<1>4. ASSUME NEW n \in D
      PROVE  /\ Z(n) \in Seq(T) /\ Len(Z(n)) = Len(q[n])
             /\ \A j \in 1 .. Len(q[n]) : /\ j \in DOMAIN Values(c, m, n)
                                          /\ q[n][j] = Element(c, m, n, j)
                                          /\ Z(n)[j] = SizeOnWire(q[n][j])
  <2>1. PICK k \in Nat : DOMAIN Values(c, m, n) = 1 .. k
    BY <1>2, ValuesAreSequence
  <2>2. q[n] = [j \in 1 .. k |-> Element(c, m, n, j)]
    BY <2>1 DEF AllWritten, WrittenOf, Element
  <2>3. Z(n) = [j \in 1 .. k |-> 1 + SizeOf(Fields[c][n], Values(c, m, n)[j])]
    BY <2>1 DEF SizesOf
  <2>4. \A j \in 1 .. k : Z(n)[j] \in Range(Z(n))
    BY <2>3 DEF Range
  <2>5. Range(Z(n)) \subseteq T
    OBVIOUS
  <2> HIDE DEF q, Z, T
  <2>6. Len(q[n]) = k
    BY <2>2
  <2>7. Z(n) \in Seq(T) /\ Len(Z(n)) = k
    <3>1. \A j \in 1 .. k : Z(n)[j] \in T
      BY <2>4, <2>5
    <3>2. Z(n) = [j \in 1 .. k |-> Z(n)[j]]
      BY <2>3
    <3> QED
      BY ONLY <3>1, <3>2
  <2>8. ASSUME NEW j \in 1 .. k
        PROVE  /\ j \in DOMAIN Values(c, m, n) /\ q[n][j] = Element(c, m, n, j)
               /\ Z(n)[j] = SizeOnWire(q[n][j])
    <3>1. j \in DOMAIN Values(c, m, n) /\ q[n][j] = Element(c, m, n, j)
      BY <2>1, <2>2
    <3>2. IsMessage(Fields[c][n]) => Exact(Fields[c][n], m.val[n][j])
      BY <3>1 DEF Values, Boxed
    <3>3. SizeOnWire(Element(c, m, n, j)) = 1 + SizeOf(Fields[c][n], Values(c, m, n)[j])
      BY <3>1, <3>2, ElementSize
    <3>4. Z(n)[j] = 1 + SizeOf(Fields[c][n], Values(c, m, n)[j])
      BY <2>3
    <3> QED
      BY <3>1, <3>3, <3>4
  <2> QED
    BY <2>6, <2>7, <2>8
<1>5. t \in [1 .. N -> Seq(T)] /\ q \in [1 .. N -> Seq(S)]
      /\ \A n \in 1 .. N : t[n] = Z(n) /\ Len(t[n]) = Len(q[n])
  <2>1. t = [n \in 1 .. N |-> Z(n)]
    BY <1>1
  <2> HIDE DEF Z, T, t, N, D
  <2> QED
    BY <1>1, <1>3, <1>4, <2>1
<1> HIDE DEF Z, T, t, N, D, q, w
<1>6. /\ Len(FlattenSeq(t)) = Len(w)
      /\ \A i \in 1 .. Len(w) : \E n \in 1 .. N : \E j \in 1 .. Len(q[n]) :
            w[i] = q[n][j] /\ FlattenSeq(t)[i] = t[n][j]
  <2>1. SamePlaces(q, t, N)
    <3>1. \A n \in 1 .. N : Len(t[n]) = Len(q[n])
      BY <1>5
    <3>2. N \in Nat \ {0} /\ t \in [1 .. N -> Seq(T)] /\ q \in [1 .. N -> Seq(S)]
      BY <1>1, <1>5
    <3> QED
      BY ONLY <3>1, <3>2, FlattenedAlike, Zenon
  <2>2. w = FlattenSeq(q)
    BY <1>3
  <2> QED
    BY ONLY <2>1, <2>2, Zenon DEF SamePlaces
<1>7. FlattenSeq(t) \in Seq(T)
  BY <1>1, <1>5, Flattened
<1>8. FlattenSeq(t) = WireSizes(w)
  <2> DEFINE z == FlattenSeq(t)
  <2>1. DOMAIN w = 1 .. Len(w) /\ z = [i \in 1 .. Len(w) |-> z[i]]
    <3>1. z \in Seq(T) /\ Len(z) = Len(w)
      BY <1>6, <1>7
    <3> HIDE DEF z
    <3> QED
      BY <1>3, <3>1
  <2>2. ASSUME NEW i \in 1 .. Len(w) PROVE z[i] = SizeOnWire(w[i])
    <3>1. PICK n \in 1 .. N : \E j \in 1 .. Len(q[n]) : w[i] = q[n][j] /\ z[i] = t[n][j]
      BY <1>6
    <3>2. PICK j \in 1 .. Len(q[n]) : w[i] = q[n][j] /\ z[i] = t[n][j]
      BY <3>1
    <3>3. n \in D /\ t[n] = Z(n)
      BY <1>1, <1>5
    <3>4. Z(n)[j] = SizeOnWire(q[n][j])
      BY <1>4, <3>3
    <3> HIDE DEF z
    <3> QED
      BY <3>2, <3>3, <3>4
  <2>3. WireSizes(w) = [i \in DOMAIN w |-> SizeOnWire(w[i])]
    BY WireSizesAre
  <2> HIDE DEF z
  <2>4. z = WireSizes(w)
    BY ONLY <2>1, <2>2, <2>3, Zenon
  <2> QED
    BY <2>4 DEF z
<1>9. ByteSize(c, m) = Sum(FlattenSeq(t))
  <2>1. ByteSize(c, m) = Sum(FlattenSeq(t) \o WireSizes(m.unknown))
    BY ByteSizeUnfolds, Zenon DEF t, Z, D
  <2>2. m.unknown = <<>>
    BY <1>2 DEF Shape
  <2>3. WireSizes(<<>>) = <<>>
    <3>1. WireSizes(<<>>) = [i \in DOMAIN <<>> |-> SizeOnWire(<<>>[i])]
      BY WireSizesAre
    <3>2. DOMAIN <<>> = {}
      OBVIOUS
    <3> QED
      BY <3>1, <3>2
  <2>4. FlattenSeq(t) \o <<>> = FlattenSeq(t)
    BY <1>7
  <2> QED
    BY <2>1, <2>2, <2>3, <2>4
<1>10. Exact(c, m)
  BY <1>8, <1>9 DEF Exact, WireSize, w
<1> QED
  BY <1>10

(* ByteSizeLong is the size of the bytes that are written, for any message  *)
(* of any class.                                                            *)
LEMMA AnyExact ==
  ASSUME NEW c \in Classes, NEW m, Formed(c, m)
  PROVE  Exact(c, m)
<1>1. ASSUME NEW x, Formed("Position", x) PROVE Exact("Position", x)
  <2>1. "Position" \in Classes
    BY IsMessageType
  <2>2. \A n \in DOMAIN Fields["Position"] : ~IsMessage(Fields["Position"][n])
    BY IsMessageType, SubClass
  <2> QED
    BY <1>1, <2>1, <2>2, ExactStep
<1>2. ASSUME NEW e \in InnerClasses, NEW x, Formed(e, x) PROVE Exact(e, x)
  <2>1. e \in Classes
    BY DEF InnerClasses
  <2>2. ASSUME NEW n \in DOMAIN Fields[e], IsMessage(Fields[e][n]), NEW j \in DOMAIN x.val[n]
        PROVE  Exact(Fields[e][n], x.val[n][j])
    <3>1. Formed(Fields[e][n], x.val[n][j])
      BY <1>2, <2>1, <2>2, FormedUnfolds
    <3> QED
      BY <1>1, <2>1, <2>2, <3>1, SubClass
  <2> QED
    BY <1>2, <2>1, <2>2, ExactStep
<1>3. ASSUME NEW n \in DOMAIN Fields[c], IsMessage(Fields[c][n]), NEW j \in DOMAIN m.val[n]
      PROVE  Exact(Fields[c][n], m.val[n][j])
  <2>1. Formed(Fields[c][n], m.val[n][j])
    BY <1>3, FormedUnfolds
  <2> QED
    BY <1>2, <1>3, <2>1, SubClass
<1> QED
  BY <1>3, ExactStep

(* The accessors keep a message formed: clear_<field>, set_, mutable_ and   *)
(* add_<field>, and those of the last message of a repeated field.          *)
LEMMA ShapeKept ==
  ASSUME NEW c \in Classes, NEW m, Formed(c, m), NEW n \in DOMAIN Fields[c], NEW u,
         NEW x,
         \/ u = m.val /\ (n \in OneofData(c) => x = <<>>)
         \/ u = ClearedOthers(c, m, n),
         \/ ~Boxed(c, n)
         \/ ~Repeated(c, n) /\ (x = <<>> \/ \E v : x = <<v>>)
         \/ Repeated(c, n) /\ \E S : x \in Seq(S),
         IsMessage(Fields[c][n]) => \A i \in DOMAIN x : Formed(Fields[c][n], x[i])
  PROVE  Formed(c, [val |-> [u EXCEPT ![n] = x], unknown |-> <<>>])
<1> DEFINE D == DOMAIN Fields[c]
           O == OneofData(c)
           y == [u EXCEPT ![n] = x]
           r == [val |-> y, unknown |-> <<>>]
<1>1. /\ m.val = [k \in D |-> m.val[k]]
      /\ \A k \in D : Boxed(c, k) => IF Repeated(c, k) THEN \E S : m.val[k] \in Seq(S)
                                     ELSE m.val[k] = <<>> \/ m.val[k] = <<m.val[k][1]>>
      /\ \A j, k \in O : j = k \/ m.val[j] = <<>> \/ m.val[k] = <<>>
      /\ \A k \in D : IsMessage(Fields[c][k]) =>
           \A i \in DOMAIN m.val[k] : Formed(Fields[c][k], m.val[k][i])
  BY FormedUnfolds DEF Shape
<1>2. O \subseteq D
  BY OneofInBroadCast
<1>3. DOMAIN m.val = D
  BY <1>1
<1>4. DOMAIN u = D
  BY <1>3 DEF ClearedOthers
<1>5. y = [k \in D |-> IF k = n THEN x ELSE u[k]]
  BY <1>4
<1>6. ASSUME NEW k \in D PROVE u[k] = m.val[k] \/ (u[k] = <<>> /\ k \in O)
  <2>1. CASE u = m.val
    BY <2>1
  <2>2. CASE u = ClearedOthers(c, m, n)
    BY <1>3, <2>2 DEF ClearedOthers
  <2> QED
    BY <2>1, <2>2
<1>7. ASSUME NEW j \in O, NEW k \in O, j # k PROVE y[j] = <<>> \/ y[k] = <<>>
  <2>1. CASE u = m.val /\ (n \in O => x = <<>>)
    <3>1. \A i \in O : y[i] = m.val[i] \/ y[i] = <<>>
      BY <1>2, <1>5, <2>1
    <3> HIDE DEF y
    <3> QED
      BY <1>1, <1>7, <3>1
  <2>2. CASE u = ClearedOthers(c, m, n) /\ n \in O
    <3>1. \A i \in O : u[i] = <<>>
      BY <1>2, <1>3, <2>2 DEF ClearedOthers
    <3> QED
      BY <1>2, <1>5, <1>7, <3>1
  <2>3. CASE u = ClearedOthers(c, m, n) /\ n \notin O
    <3>1. \A i \in O : u[i] = m.val[i] /\ i # n
      BY <1>2, <1>3, <2>3 DEF ClearedOthers
    <3>2. \A i \in O : y[i] = m.val[i]
      BY <1>2, <1>5, <3>1
    <3> HIDE DEF y
    <3> QED
      BY <1>1, <1>7, <3>2
  <2> QED
    BY <2>1, <2>2, <2>3
<1>8. \A k \in D : y[k] = IF k = n THEN x ELSE u[k]
  BY <1>5
<1>9. r.val = y /\ r = [val |-> r.val, unknown |-> <<>>] /\ y = [k \in D |-> y[k]]
  BY <1>5
<1> HIDE DEF y, r
<1>10. ASSUME NEW k \in D, Boxed(c, k)
       PROVE  IF Repeated(c, k) THEN \E S : y[k] \in Seq(S)
              ELSE y[k] = <<>> \/ y[k] = <<y[k][1]>>
  <2>1. CASE k = n
    <3>1. y[k] = x
      BY <1>8, <2>1
    <3>2. ASSUME NEW v, x = <<v>> PROVE x = <<x[1]>>
      BY ONLY <3>2
    <3> QED
      BY <1>10, <2>1, <3>1, <3>2
  <2>2. CASE k # n /\ u[k] = m.val[k]
    BY <1>1, <1>8, <1>10, <2>2
  <2>3. CASE k # n /\ u[k] = <<>> /\ k \in O
    <3>1. ~Repeated(c, k)
      BY <2>3 DEF Repeated, OneofData
    <3> QED
      BY <1>8, <2>3, <3>1
  <2> QED
    BY <1>6, <2>1, <2>2, <2>3
<1>11. Shape(c, r)
  BY <1>7, <1>9, <1>10 DEF Shape
<1>12. ASSUME NEW k \in D, IsMessage(Fields[c][k]), NEW i \in DOMAIN y[k]
       PROVE  Formed(Fields[c][k], y[k][i])
  <2>1. CASE k = n
    BY <1>8, <1>12, <2>1
  <2>2. CASE k # n /\ u[k] = m.val[k]
    BY <1>1, <1>8, <1>12, <2>2
  <2>3. CASE k # n /\ u[k] = <<>>
    <3>1. y[k] = <<>>
      BY <1>8, <2>3
    <3>2. \A z : z \notin DOMAIN <<>>
      OBVIOUS
    <3> QED
      BY <1>12, <3>1, <3>2
  <2> QED
    BY <1>6, <2>1, <2>2, <2>3
<1>13. Formed(c, r)
  BY <1>9, <1>11, <1>12, FormedUnfolds
<1> QED
  BY <1>13 DEF r, y

(* A message that no reader with another .proto made has no unknown fields. *)
LEMMA MessageIs ==
  ASSUME NEW c \in Classes, NEW m, Formed(c, m)
  PROVE  m = [val |-> m.val, unknown |-> <<>>] /\ DOMAIN m.val = DOMAIN Fields[c]
<1>1. Shape(c, m)
  BY FormedUnfolds
<1>2. m = [val |-> m.val, unknown |-> <<>>]
  BY <1>1, Zenon DEF Shape
<1>3. m.val = [n \in DOMAIN Fields[c] |-> m.val[n]]
  BY <1>1, Zenon DEF Shape
<1>4. DOMAIN m.val = DOMAIN Fields[c]
  BY ONLY <1>3
<1> QED
  BY <1>2, <1>4

(* clear_<field> leaves a formed message.                                   *)
LEMMA ClearFormed ==
  ASSUME NEW c \in Classes, NEW m, Formed(c, m), NEW n \in DOMAIN Fields[c]
  PROVE  Formed(c, ClearField(c, m, n))
<1> DEFINE x == Default(c).val[n]
<1>1. x = IF Boxed(c, n) THEN <<>> ELSE Zero(Fields[c][n])
  BY DEF Default
<1>2. Boxed(c, n) => x = <<>> /\ \E S : x \in Seq(S)
  <2>1. <<>> \in Seq({})
    OBVIOUS
  <2> QED
    BY <1>1, <2>1
<1>3. \A z : z \notin DOMAIN <<>>
  OBVIOUS
<1>4. n \in OneofData(c) => Boxed(c, n)
  BY DEF Boxed
<1>5. IsMessage(Fields[c][n]) => Boxed(c, n)
  BY DEF Boxed
<1>6. ClearField(c, m, n) = [val |-> [m.val EXCEPT ![n] = x], unknown |-> <<>>]
  <2>1. m = [val |-> m.val, unknown |-> <<>>]
    BY MessageIs
  <2> HIDE DEF x
  <2>2. ClearField(c, m, n) = [m EXCEPT !.val[n] = x]
    BY DEF ClearField, x
  <2> QED
    BY <2>1, <2>2
<1> HIDE DEF x
<1> QED
  BY <1>2, <1>3, <1>4, <1>5, <1>6, ShapeKept

(* set_<field> leaves a formed message.                                     *)
LEMMA PutFormed ==
  ASSUME NEW c \in Classes, NEW m, Formed(c, m), NEW n \in DOMAIN Fields[c], NEW v,
         IsMessage(Fields[c][n]) => Formed(Fields[c][n], v)
  PROVE  Formed(c, Put(c, m, n, v))
<1> DEFINE u == ClearedOthers(c, m, n)
           x == IF Repeated(c, n) THEN Append(u[n], v)
                ELSE IF Boxed(c, n) THEN <<v>> ELSE v
<1>1. m = [val |-> m.val, unknown |-> <<>>] /\ DOMAIN m.val = DOMAIN Fields[c]
  BY MessageIs
<1>2. n \in DOMAIN u
  BY <1>1 DEF ClearedOthers
<1>3. Put(c, m, n, v) = [val |-> [u EXCEPT ![n] = x], unknown |-> <<>>]
  <2>1. Put(c, m, n, v) = [m EXCEPT !.val = [u EXCEPT ![n] = x]]
    BY <1>2 DEF Put
  <2> HIDE DEF u, x
  <2> QED
    BY <1>1, <2>1
<1>4. CASE Repeated(c, n)
  <2>1. Boxed(c, n) /\ u[n] = m.val[n] /\ OneofData(c) = {} /\ IsMessage(Fields[c][n])
    <3>1. c = "SyncPlayers" /\ Fields[c] = <<"Player">> /\ n = 1
      BY <1>4, ClassTable DEF Repeated
    <3>2. OneofData(c) = {} /\ IsMessage(Fields[c][n])
      BY <3>1, IsMessageType DEF OneofData
    <3> QED
      BY <1>1, <3>2 DEF Boxed, ClearedOthers
  <2>2. PICK S : m.val[n] \in Seq(S)
    BY <1>4, <2>1, FormedUnfolds DEF Shape
  <2> DEFINE s == m.val[n]
  <2>3. x = Append(s, v)
    BY <1>4, <2>1
  <2>4. \A i \in DOMAIN s : Formed(Fields[c][n], s[i])
    BY <2>1, FormedUnfolds
  <2> HIDE DEF s, u, x
  <2>5. s \in Seq(S \cup {v})
    BY <2>2 DEF s
  <2>6. x \in Seq(S \cup {v}) /\ \A i \in DOMAIN x : x[i] = v \/ (i \in DOMAIN s /\ x[i] = s[i])
    BY <2>3, <2>5
  <2>7. \A i \in DOMAIN x : Formed(Fields[c][n], x[i])
    BY <2>1, <2>4, <2>6
  <2>8. Formed(c, [val |-> [u EXCEPT ![n] = x], unknown |-> <<>>])
    BY <1>4, <2>1, <2>6, <2>7, ShapeKept DEF u
  <2> QED
    BY <1>3, <2>8
<1>5. CASE ~Repeated(c, n) /\ Boxed(c, n)
  <2>1. x = <<v>>
    BY <1>5
  <2> HIDE DEF x
  <2>2. \A i \in DOMAIN x : x[i] = v
    BY <2>1
  <2> QED
    BY <1>3, <1>5, <2>1, <2>2, ShapeKept
<1>6. CASE ~Repeated(c, n) /\ ~Boxed(c, n)
  <2>1. n \notin OneofData(c) /\ ~IsMessage(Fields[c][n])
    BY <1>6 DEF Boxed
  <2>2. u = ClearedOthers(c, m, n)
    OBVIOUS
  <2> HIDE DEF u, x
  <2>3. Formed(c, [val |-> [u EXCEPT ![n] = x], unknown |-> <<>>])
    BY <1>6, <2>1, <2>2, ShapeKept
  <2> QED
    BY ONLY <1>3, <2>3
<1> QED
  BY <1>4, <1>5, <1>6

(* One accessor call on field n, or on a submessage in it, subs being what  *)
(* the accessors of a new or the set submessage make of it and lasts those  *)
(* of the last of a repeated field.                                         *)
EditOf(class, m, n, subs, lasts, x) ==
    \/ x = ClearField(class, m, n)
    \/ ~IsMessage(Fields[class][n]) /\ \E v : x = Put(class, m, n, v)
    \/ IsMessage(Fields[class][n])
         /\ \E v \in {Mutable(class, m, n)} \cup subs : x = Put(class, m, n, v)
    \/ /\ Repeated(class, n) /\ m.val[n] # <<>>
       /\ \E v \in lasts : x = [m EXCEPT !.val[n][Len(m.val[n])] = v]

(* An accessor call leaves a formed message, if one on its submessage does. *)
LEMMA EditOfFormed ==
  ASSUME NEW c \in Classes, NEW m, Formed(c, m), NEW n \in DOMAIN Fields[c],
         NEW subs, NEW lasts, NEW x, EditOf(c, m, n, subs, lasts, x),
         IsMessage(Fields[c][n]) => \A v \in subs : Formed(Fields[c][n], v),
         Repeated(c, n) /\ m.val[n] # <<>> => \A v \in lasts : Formed(Fields[c][n], v)
  PROVE  Formed(c, x)
<1>1. CASE x = ClearField(c, m, n)
  BY <1>1, ClearFormed
<1>2. ASSUME ~IsMessage(Fields[c][n]), NEW v, x = Put(c, m, n, v) PROVE Formed(c, x)
  BY <1>2, PutFormed
<1>3. ASSUME IsMessage(Fields[c][n]), NEW v \in {Mutable(c, m, n)} \cup subs,
             x = Put(c, m, n, v)
      PROVE  Formed(c, x)
  <2>1. Formed(Fields[c][n], v)
    BY <1>3, MutableFormed
  <2> QED
    BY <1>3, <2>1, PutFormed
<1>4. ASSUME Repeated(c, n), m.val[n] # <<>>, NEW v \in lasts,
             x = [m EXCEPT !.val[n][Len(m.val[n])] = v]
      PROVE  Formed(c, x)
  <2> DEFINE s == m.val[n]
             k == Len(s)
             y == [s EXCEPT ![k] = v]
             u == m.val
  <2>1. Boxed(c, n) /\ OneofData(c) = {} /\ IsMessage(Fields[c][n])
    <3>1. c = "SyncPlayers" /\ Fields[c] = <<"Player">> /\ n = 1
      BY <1>4, ClassTable DEF Repeated
    <3> QED
      BY <3>1, IsMessageType DEF Boxed, OneofData
  <2>2. PICK S : s \in Seq(S)
    BY <1>4, <2>1, FormedUnfolds DEF Shape
  <2>3. Formed(Fields[c][n], v)
    BY <1>4
  <2>4. \A i \in DOMAIN s : Formed(Fields[c][n], s[i])
    BY <2>1, FormedUnfolds
  <2>5. m = [val |-> u, unknown |-> <<>>] /\ DOMAIN u = DOMAIN Fields[c]
    BY MessageIs
  <2>6. x = [val |-> [u EXCEPT ![n] = y], unknown |-> <<>>]
    <3>1. x = [m EXCEPT !.val = [u EXCEPT ![n] = y]]
      BY <1>4, <2>5
    <3> HIDE DEF y, u
    <3> QED
      BY <2>5, <3>1
  <2> HIDE DEF s, k
  <2>7. y \in Seq(S \cup {v}) /\ \A i \in DOMAIN y : i \in DOMAIN s /\ (y[i] = v \/ y[i] = s[i])
    <3> DEFINE l == Len(s)
    <3>1. l \in Nat /\ DOMAIN s = 1 .. l /\ \A i \in 1 .. l : s[i] \in S \cup {v}
      BY <2>2
    <3> HIDE DEF l
    <3>2. y = [i \in 1 .. l |-> IF i = k THEN v ELSE s[i]]
      BY <3>1
    <3>3. \A i \in 1 .. l : y[i] \in S \cup {v} /\ (y[i] = v \/ y[i] = s[i])
      BY <3>1, <3>2
    <3>4. DOMAIN y = 1 .. l /\ y = [i \in 1 .. l |-> y[i]]
      BY <3>2
    <3> HIDE DEF y
    <3>5. y \in Seq(S \cup {v})
      BY <3>1, <3>3, <3>4
    <3> QED
      BY <3>1, <3>3, <3>4, <3>5
  <2> HIDE DEF y
  <2>8. \A i \in DOMAIN y : Formed(Fields[c][n], y[i])
    BY <2>3, <2>4, <2>7
  <2>9. Formed(c, [val |-> [u EXCEPT ![n] = y], unknown |-> <<>>])
    <3>1. u = m.val
      OBVIOUS
    <3> HIDE DEF u
    <3> QED
      BY <1>4, <2>1, <2>7, <2>8, <3>1, ShapeKept
  <2> QED
    BY <2>6, <2>9
<1> QED
  BY <1>1, <1>2, <1>3, <1>4 DEF EditOf

(* An accessor call on a message that holds none leaves it formed.          *)
LEMMA LeafEditedFormed ==
  ASSUME NEW c \in LeafClasses, NEW m, Formed(c, m), NEW x \in LeafEdited(c, m)
  PROVE  Formed(c, x)
<1>1. c \in Classes
  BY DEF LeafClasses
<1>2. PICK n \in DOMAIN Fields[c] :
        \/ x = ClearField(c, m, n)
        \/ \E v : x = Put(c, m, n, v)
        \/ ~Repeated(c, n) \/ m.val[n] = <<>> => FALSE
  BY DEF LeafEdited, EditedWith
<1>3. ~IsMessage(Fields[c][n])
  BY <1>1, SubClass
<1>4. ~Repeated(c, n)
  BY DEF LeafClasses, Repeated
<1>5. EditOf(c, m, n, {}, {}, x)
  BY <1>2, <1>3, <1>4 DEF EditOf
<1> QED
  BY <1>1, <1>3, <1>4, <1>5, EditOfFormed

(* An accessor call on a message that holds Positions only leaves it formed. *)
LEMMA InnerEditedFormed ==
  ASSUME NEW c \in InnerClasses, NEW m, Formed(c, m), NEW x \in InnerEdited(c, m)
  PROVE  Formed(c, x)
<1>1. c \in Classes
  BY DEF InnerClasses
<1> DEFINE subs(n) == LeafEdited(Fields[c][n], Mutable(c, m, n))
           lasts(n) == LeafEdited(Fields[c][n], m.val[n][Len(m.val[n])])
<1>2. PICK n \in DOMAIN Fields[c] : EditOf(c, m, n, subs(n), lasts(n), x)
  BY DEF InnerEdited, EditedWith, EditOf
<1>3. ~Repeated(c, n)
  BY DEF InnerClasses, Repeated
<1>4. ASSUME IsMessage(Fields[c][n]), NEW v \in subs(n) PROVE Formed(Fields[c][n], v)
  <2>1. Fields[c][n] \in LeafClasses
    BY <1>1, <1>4, SubClass, IsMessageType
  <2>2. Formed(Fields[c][n], Mutable(c, m, n))
    BY <1>1, <1>4, MutableFormed
  <2> QED
    BY <1>4, <2>1, <2>2, LeafEditedFormed
<1> QED
  BY <1>1, <1>2, <1>3, <1>4, EditOfFormed

(* An accessor call on any message, or on a message within it, leaves it    *)
(* formed.                                                                  *)
LEMMA EditedFormed ==
  ASSUME NEW c \in Classes, NEW m, Formed(c, m), NEW x \in Edited(c, m)
  PROVE  Formed(c, x)
<1> DEFINE subs(n) == InnerEdited(Fields[c][n], Mutable(c, m, n))
           lasts(n) == InnerEdited(Fields[c][n], m.val[n][Len(m.val[n])])
<1>1. PICK n \in DOMAIN Fields[c] : EditOf(c, m, n, subs(n), lasts(n), x)
  BY DEF Edited, EditedWith, EditOf
<1>2. ASSUME IsMessage(Fields[c][n]), NEW v \in subs(n) PROVE Formed(Fields[c][n], v)
  BY <1>2, SubClass, MutableFormed, InnerEditedFormed
<1>3. ASSUME Repeated(c, n), m.val[n] # <<>>, NEW v \in lasts(n)
      PROVE  Formed(Fields[c][n], v)
  <2> DEFINE s == m.val[n]
  <2>1. Boxed(c, n) /\ IsMessage(Fields[c][n])
    <3>1. c = "SyncPlayers" /\ Fields[c] = <<"Player">> /\ n = 1
      BY <1>3, ClassTable DEF Repeated
    <3> QED
      BY <3>1, IsMessageType DEF Boxed
  <2>2. PICK S : s \in Seq(S)
    BY <1>3, <2>1, FormedUnfolds DEF Shape
  <2>3. s # <<>>
    BY <1>3
  <2>4. \A i \in DOMAIN s : Formed(Fields[c][n], s[i])
    BY <2>1, FormedUnfolds
  <2>5. v \in InnerEdited(Fields[c][n], s[Len(s)])
    BY <1>3
  <2> HIDE DEF s
  <2>6. Len(s) \in DOMAIN s
    BY <2>2, <2>3
  <2> QED
    BY <2>1, <2>4, <2>5, <2>6, SubClass, InnerEditedFormed
<1> QED
  BY <1>1, <1>2, <1>3, EditOfFormed

-----------------------------------------------------------------------------
(* The message on its way: the bytes written so far read as the messages    *)
(* merged so far, and what a reader got is what those bytes read as.        *)
WireInv ==
    /\ kind \in Classes
    /\ Formed(kind, msg) /\ Formed(kind, sent)
    /\ \E S : wire \in Seq(S)
    /\ ParseFromString(kind, wire).ok <=> ~HasBadText(wire)
    /\ ParseFromString(kind, wire).ok => ParseFromString(kind, wire).m = sent
RegistryInv ==
    registry \in {[id \in {} |-> NoClass], BuiltRegistry(LinkedWith(kind))}
ReaderInv ==
    reader # NoClass => got = ParseFromString(reader, wire) /\ (byId => reader = kind)
MsgInv == WireInv /\ RegistryInv /\ ReaderInv

(* No bytes are read as an empty message.                                   *)
LEMMA EmptyReads ==
  ASSUME NEW c \in Classes
  PROVE  /\ ParseFromString(c, <<>>) = [ok |-> TRUE, m |-> Default(c)]
         /\ ~HasBadText(<<>>)
<1> DEFINE w == <<>>
<1>1. Len(w) \in Nat /\ Len(w) = 0 /\ DOMAIN w = {}
  OBVIOUS
<1> HIDE DEF w
<1>2. PICK sub, r : ParseRun(c, Default(c), w, sub, r)
  BY <1>1, ParseIntoRuns
<1>3. ParseInto(c, Default(c), w) = [ok |-> TRUE, m |-> Default(c)]
  BY <1>1, <1>2 DEF ParseRun, IsRun
<1>4. ~HasBadText(w)
  BY <1>1 DEF HasBadText, HasBadTextWith
<1> QED
  BY <1>3, <1>4 DEF ParseFromString, w

(* No two classes share an id that is not MSG_NONE.                         *)
LEMMA IdsDiffer ==
  ASSUME NEW c, NEW d, MsgId(c) = MsgId(d), MsgId(c) # 0
  PROVE  c = d
  BY DEF MsgId

(* The class that createMessageV2 finds for the id of a message is that of  *)
(* the message.                                                             *)
LEMMA FoundById ==
  ASSUME kind \in Classes, RegistryInv, CreateMessage(MsgId(kind)) # NoClass
  PROVE  CreateMessage(MsgId(kind)) = kind
<1> DEFINE i     == MsgId(kind)
           named == {c \in LinkedWith(kind) : HasSuffix(c)}
           ids   == {MsgId(c) : c \in named}
           Pick(k) == CHOOSE c \in named : MsgId(c) = k
<1>1. i \in DOMAIN registry /\ CreateMessage(i) = registry[i]
  BY DEF CreateMessage
<1>2. registry # [id \in {} |-> NoClass]
  BY <1>1
<1>3. registry = [k \in ids |-> Pick(k)]
  BY <1>2 DEF RegistryInv, BuiltRegistry
<1>4. i \in ids /\ registry[i] = Pick(i)
  BY <1>1, <1>3
<1>5. Pick(i) \in named /\ MsgId(Pick(i)) = i
  BY <1>4
<1>6. named \subseteq Classes
  BY DEF LinkedWith, ProtocolClasses, Classes, Fields
<1>7. MsgId(Pick(i)) # 0
  <2> HIDE DEF Pick
  <2> QED
    BY <1>5, <1>6, NamedHaveIds
<1> HIDE DEF Pick
<1>8. Pick(i) = kind
  BY <1>5, <1>7, IdsDiffer
<1> QED
  BY <1>1, <1>4, <1>8

(* The invariant of a message on its way holds at the start.                *)
LEMMA MsgInvInit == MsgInit => MsgInv
<1> SUFFICES ASSUME MsgInit PROVE MsgInv
  OBVIOUS
<1>1. kind \in Classes
  BY MessageConstants DEF MsgInit
<1>2. Formed(kind, msg) /\ Formed(kind, sent) /\ wire = <<>>
  BY <1>1, DefaultFormed DEF MsgInit
<1>3. wire \in Seq({})
  BY <1>2
<1>4. ParseFromString(kind, wire) = [ok |-> TRUE, m |-> sent] /\ ~HasBadText(wire)
  BY <1>1, <1>2, EmptyReads DEF MsgInit
<1>5. WireInv
  BY <1>1, <1>2, <1>3, <1>4 DEF WireInv
<1> QED
  BY <1>5 DEF MsgInit, MsgInv, RegistryInv, ReaderInv

(* Writing a message behind the others: its bytes are read as MergeFrom     *)
(* merges it.                                                               *)
LEMMA SendKeepsWire ==
  ASSUME MsgInv, Send
  PROVE  WireInv'
<1> DEFINE w  == Serialize(kind, msg)
           st == ParseFromString(kind, wire)
           t  == ParseFromString(kind, wire \o w)
           new == MergeFrom(kind, sent, msg)
<1>1. /\ kind' = kind /\ msg' = msg /\ wire' = wire \o w /\ sent' = new
  BY DEF Send
<1>2. /\ kind \in Classes /\ Formed(kind, msg) /\ Formed(kind, sent)
      /\ st.ok <=> ~HasBadText(wire)
      /\ st.ok => st.m = sent
  BY DEF MsgInv, WireInv
<1>3. PICK S1 : wire \in Seq(S1)
  BY DEF MsgInv, WireInv
<1>4. PICK S2 : w \in Seq(S2)
  BY <1>2, FormedUnfolds, SerializedFields
<1> DEFINE S == S1 \cup S2
<1>5. Formed(kind, new)
  BY <1>2, MergedFormed
<1>6. /\ ParseInto(kind, sent, w).ok <=> ~HasBadText(w)
      /\ ParseInto(kind, sent, w).ok => ParseInto(kind, sent, w).m = new
  BY <1>2, AnyReads DEF Reads
<1> HIDE DEF w, new
<1>7. wire \in Seq(S) /\ w \in Seq(S) /\ wire \o w \in Seq(S)
  BY <1>3, <1>4
<1>8. HasBadText(wire \o w) <=> HasBadText(wire) \/ HasBadText(w)
  BY <1>7, BadTextJoined
<1>9. /\ st.ok  => t = ParseInto(kind, st.m, w)
      /\ ~st.ok => ~t.ok
  BY <1>7, ParseJoined DEF ParseFromString
<1> HIDE DEF st, t, S
<1>10. (t.ok <=> ~HasBadText(wire \o w)) /\ (t.ok => t.m = new)
  BY <1>2, <1>6, <1>8, <1>9
<1>11. \E X : wire \o w \in Seq(X)
  BY <1>7
<1> QED
  BY <1>1, <1>2, <1>5, <1>10, <1>11 DEF WireInv, t

(* Every step keeps it.                                                     *)
LEMMA MsgInvNext == MsgInv /\ [MsgNext]_msgVars => MsgInv'
<1> SUFFICES ASSUME MsgInv, [MsgNext]_msgVars PROVE MsgInv'
  OBVIOUS
<1> USE DEF MsgInv
<1>1. CASE UNCHANGED msgVars
  BY <1>1 DEF msgVars, WireInv, RegistryInv, ReaderInv
<1>2. CASE InitProtoRegistry
  <2>1. WireInv' /\ ReaderInv'
    BY <1>2 DEF InitProtoRegistry, WireInv, ReaderInv
  <2>2. RegistryInv'
    BY <1>2 DEF InitProtoRegistry, RegistryInv
  <2> QED
    BY <2>1, <2>2
<1>3. CASE Edit
  <2>1. Formed(kind, msg')
    BY <1>3, EditedFormed DEF Edit, WireInv
  <2>2. WireInv'
    BY <1>3, <2>1 DEF Edit, WireInv
  <2> QED
    BY <1>3, <2>2 DEF Edit, RegistryInv, ReaderInv
<1>4. CASE Clear
  <2>1. Formed(kind, msg')
    BY <1>4, DefaultFormed DEF Clear, WireInv
  <2>2. WireInv'
    BY <1>4, <2>1 DEF Clear, WireInv
  <2> QED
    BY <1>4, <2>2 DEF Clear, RegistryInv, ReaderInv
<1>5. CASE Send
  <2>1. WireInv'
    BY <1>5, SendKeepsWire
  <2> QED
    BY <1>5, <2>1 DEF Send, NotRead, RegistryInv, ReaderInv
<1>6. CASE ReadByType
  BY <1>6 DEF ReadByType, ReadAs, WireInv, RegistryInv, ReaderInv
<1>7. CASE ReadById
  <2>1. CreateMessage(MsgId(kind)) = kind
    BY <1>7, FoundById DEF ReadById, WireInv
  <2> QED
    BY <1>7, <2>1 DEF ReadById, ReadAs, WireInv, RegistryInv, ReaderInv
<1> QED
  BY <1>1, <1>2, <1>3, <1>4, <1>5, <1>6, <1>7 DEF MsgNext

(* A program reads what was written, or the merge of what was written one   *)
(* behind the other, unless a text in it is not UTF-8: _InternalSerialize,  *)
(* _InternalParse, MergeFrom and createMessageV2 agree.                     *)
THEOREM MessagesReadIsWritten == MsgSpec => []ReadIsWritten
<1>1. MsgInv => ReadIsWritten
  BY DEF MsgInv, WireInv, ReaderInv, ReadIsWritten
<1> QED
  BY <1>1, MsgInvInit, MsgInvNext, PTL DEF MsgSpec

(* ByteSizeLong asks for exactly the bytes that _InternalSerialize writes.  *)
THEOREM MessagesSizeIsExact == MsgSpec => []SizeIsExact
<1>1. MsgInv => SizeIsExact
  BY AnyExact DEF MsgInv, WireInv, SizeIsExact, Exact
<1> QED
  BY <1>1, MsgInvInit, MsgInvNext, PTL DEF MsgSpec

-----------------------------------------------------------------------------
(* A message of which every text is UTF-8: what is written of it can be read. *)
NoBadText(class, m) == Formed(class, m) /\ ~HasBadText(Serialize(class, m))

(* A formed message that is written is read as itself, in a new message.    *)
LEMMA ReadBack ==
  ASSUME NEW c \in Classes, NEW m, Formed(c, m)
  PROVE  LET st == ParseFromString(c, Serialize(c, m))
         IN  /\ st.ok <=> ~HasBadText(Serialize(c, m))
             /\ st.ok => st.m = m
<1>1. Reads(c, Default(c), m)
  BY DefaultFormed, AnyReads
<1>2. MergeFrom(c, Default(c), m) = m
  BY FormedMergesToItself DEF MergesToItself
<1> QED
  BY <1>1, <1>2 DEF Reads, ParseFromString

(* A new message is one.                                                    *)
LEMMA DefaultText ==
  ASSUME NEW c \in Classes
  PROVE  NoBadText(c, Default(c))
<1>1. Formed(c, Default(c))
  BY DefaultFormed
<1>2. \A n \in DOMAIN Fields[c] : Values(c, Default(c), n) = <<>>
  BY DEF Default, Values
<1>3. DOMAIN <<>> = {}
  OBVIOUS
<1> QED
  BY <1>1, <1>2, <1>3, BadTextUnfolds DEF NoBadText

(* No value of such a message is bad, and each message in it is one.        *)
LEMMA TextOfValue ==
  ASSUME NEW c \in Classes, NEW m, NoBadText(c, m), NEW n \in DOMAIN Fields[c],
         NEW j \in DOMAIN Values(c, m, n)
  PROVE  /\ ~BadValue(Fields[c][n], Values(c, m, n)[j])
         /\ IsMessage(Fields[c][n]) => NoBadText(Fields[c][n], m.val[n][j])
<1>1. Formed(c, m) /\ ~BadValue(Fields[c][n], Values(c, m, n)[j])
  BY BadTextUnfolds DEF NoBadText
<1>2. ASSUME IsMessage(Fields[c][n]) PROVE NoBadText(Fields[c][n], m.val[n][j])
  <2>1. Values(c, m, n) = m.val[n]
    BY <1>2 DEF Values, Boxed
  <2>2. Formed(Fields[c][n], m.val[n][j])
    BY <1>1, <1>2, <2>1, FormedUnfolds
  <2> QED
    BY <1>1, <1>2, <2>1, <2>2 DEF BadValue, NoBadText
<1> QED
  BY <1>1, <1>2

(* What MergeFrom makes of two such messages is one.                        *)
LEMMA MergedTextStep ==
  ASSUME NEW c \in Classes, NEW to, NoBadText(c, to), NEW from, NoBadText(c, from),
         \A n \in DOMAIN Fields[c] :
            IsMessage(Fields[c][n]) /\ ~Repeated(c, n) /\ IsPresent(c, from, n) =>
              NoBadText(Fields[c][n], MergeFrom(Fields[c][n], Mutable(c, to, n), from.val[n][1]))
  PROVE  NoBadText(c, MergeFrom(c, to, from))
<1> DEFINE m == MergeFrom(c, to, from)
           M(n) == MergedOf(c, to, from, n)
<1>1. Formed(c, to) /\ Formed(c, from) /\ Formed(c, m)
  BY MergedFormed DEF NoBadText
<1>2. m = [val |-> [n \in DOMAIN Fields[c] |-> M(n)], unknown |-> to.unknown \o from.unknown]
  BY MergeUnfolds, Zenon
<1> HIDE DEF m, M
<1>2a. \A n \in DOMAIN Fields[c] : m.val[n] = M(n)
  BY <1>2
<1>3. ASSUME NEW n \in DOMAIN Fields[c], NEW j \in DOMAIN Values(c, m, n)
      PROVE  ~BadValue(Fields[c][n], Values(c, m, n)[j])
  <2>1. \A x : x.val[n] = m.val[n] => Values(c, x, n) = Values(c, m, n)
    BY DEF Values
  <2>2. CASE m.val[n] = to.val[n]
    BY <1>3, <2>1, <2>2, TextOfValue
  <2>3. CASE m.val[n] = from.val[n]
    BY <1>3, <2>1, <2>3, TextOfValue
  <2>4. CASE ~IsPresent(c, from, n) /\ n \in OneofData(c) /\ m.val[n] = <<>>
    <3>1. Values(c, m, n) = <<>> /\ DOMAIN <<>> = {}
      BY <2>4 DEF Values, Boxed
    <3> QED
      BY <1>3, <3>1
  <2>5. CASE Repeated(c, n) /\ m.val[n] = to.val[n] \o from.val[n]
    <3>1. IsMessage(Fields[c][n]) /\ Boxed(c, n)
      BY <2>5, ClassTable, IsMessageType DEF Repeated, Boxed
    <3>2. \A x : Values(c, x, n) = x.val[n]
      BY <3>1 DEF Values
    <3> DEFINE s == to.val[n]
               t == from.val[n]
    <3>3. PICK S1 : s \in Seq(S1)
      BY <1>1, <2>5, <3>1, FormedUnfolds DEF Shape
    <3>4. PICK S2 : t \in Seq(S2)
      BY <1>1, <2>5, <3>1, FormedUnfolds DEF Shape
    <3>5. /\ \A i \in DOMAIN s : ~BadValue(Fields[c][n], s[i])
          /\ \A i \in DOMAIN t : ~BadValue(Fields[c][n], t[i])
      BY <3>2, TextOfValue
    <3>6. j \in DOMAIN (s \o t) /\ Values(c, m, n)[j] = (s \o t)[j]
      BY <1>3, <2>5, <3>2
    <3> HIDE DEF s, t
    <3>7. \/ j \in DOMAIN s /\ (s \o t)[j] = s[j]
          \/ j - Len(s) \in DOMAIN t /\ (s \o t)[j] = t[j - Len(s)]
      <4>1. s \in Seq(S1 \cup S2) /\ t \in Seq(S1 \cup S2)
        BY <3>3, <3>4
      <4>2. /\ Len(s) \in Nat /\ Len(t) \in Nat /\ DOMAIN s = 1 .. Len(s)
            /\ DOMAIN t = 1 .. Len(t) /\ j \in 1 .. Len(s) + Len(t)
        BY <3>6, <4>1
      <4> QED
        BY <4>1, <4>2
    <3> QED
      BY <3>5, <3>6, <3>7
  <2>6. CASE /\ IsMessage(Fields[c][n]) /\ ~Repeated(c, n) /\ IsPresent(c, from, n)
             /\ m.val[n] = <<MergeFrom(Fields[c][n], Mutable(c, to, n), from.val[n][1])>>
    <3> DEFINE x == MergeFrom(Fields[c][n], Mutable(c, to, n), from.val[n][1])
    <3>1. NoBadText(Fields[c][n], x)
      BY <2>6
    <3>2. Values(c, m, n) = <<x>>
      BY <2>6 DEF Values, Boxed
    <3> HIDE DEF x
    <3>3. Values(c, m, n)[j] = x
      BY <1>3, <3>2
    <3> QED
      BY <2>6, <3>1, <3>3 DEF BadValue, NoBadText
  <2>7. m.val[n] = MergedOf(c, to, from, n)
    BY <1>2a DEF M
  <2> QED
    BY <2>2, <2>3, <2>4, <2>5, <2>6, <2>7 DEF MergedOf
<1> QED
  BY <1>1, <1>3, BadTextUnfolds DEF NoBadText, m

(* What MergeFrom makes of two messages without bad text is one.            *)
LEMMA MergedText ==
  ASSUME NEW c \in Classes, NEW to, NoBadText(c, to), NEW from, NoBadText(c, from)
  PROVE  NoBadText(c, MergeFrom(c, to, from))
<1>1. ASSUME NEW x, NoBadText("Position", x), NEW y, NoBadText("Position", y)
      PROVE  NoBadText("Position", MergeFrom("Position", x, y))
  <2>1. "Position" \in Classes
    BY IsMessageType
  <2>2. \A n \in DOMAIN Fields["Position"] : ~IsMessage(Fields["Position"][n])
    BY IsMessageType, SubClass
  <2> QED
    BY <1>1, <2>1, <2>2, MergedTextStep
<1>2. ASSUME NEW n \in DOMAIN Fields[c], IsMessage(Fields[c][n]), ~Repeated(c, n),
             IsPresent(c, from, n)
      PROVE  NoBadText(Fields[c][n], MergeFrom(Fields[c][n], Mutable(c, to, n), from.val[n][1]))
  <2>1. c \in InnerClasses /\ Fields[c][n] \in Classes
    BY <1>2 DEF InnerClasses, Repeated, IsMessage
  <2>2. Fields[c][n] = "Position"
    BY <1>2, <2>1, SubClass
  <2>3. ASSUME NEW m, NoBadText(c, m), IsPresent(c, m, n)
        PROVE  NoBadText("Position", m.val[n][1])
    <3>1. m.val[n] = <<m.val[n][1]>>
      BY <1>2, <2>1, <2>3, PresentFormed DEF NoBadText
    <3>2. Values(c, m, n) = m.val[n]
      BY <1>2 DEF Values, Boxed
    <3> DEFINE y == m.val[n][1]
    <3>3. 1 \in DOMAIN <<y>>
      OBVIOUS
    <3>4. 1 \in DOMAIN Values(c, m, n)
      BY <3>1, <3>2, <3>3
    <3> QED
      BY <1>2, <2>2, <2>3, <3>4, TextOfValue
  <2>4. NoBadText("Position", Mutable(c, to, n))
    <3>1. CASE to.val[n] = <<>>
      <4>1. Mutable(c, to, n) = Default("Position")
        BY <2>2, <3>1 DEF Mutable
      <4> QED
        BY <2>1, <2>2, <4>1, DefaultText
    <3>2. CASE to.val[n] # <<>>
      <4>1. IsPresent(c, to, n)
        BY <1>2, <3>2 DEF IsPresent, Values, Boxed
      <4>2. Mutable(c, to, n) = to.val[n][1]
        BY <1>2, <3>2 DEF Mutable
      <4> QED
        BY <2>3, <4>1, <4>2
    <3> QED
      BY <3>1, <3>2
  <2>5. NoBadText("Position", from.val[n][1])
    BY <1>2, <2>3
  <2> QED
    BY <1>1, <2>2, <2>4, <2>5
<1> QED
  BY <1>2, MergedTextStep

(* The fields that two versions of a class have in common: a tag that both  *)
(* parsers take.  Their values are stored alike.                            *)
Known(c, r) == {n \in DOMAIN Fields[c] \cap DOMAIN Fields[r] : Tags[r][n] = Tags[c][n]}
Agree(c, r) == \A n \in Known(c, r) :
                  Fields[r][n] = Fields[c][n] /\ (Boxed(r, n) <=> Boxed(c, n))

(* A number tells which class holds a message or a oneof there.             *)
LEMMA BoxedIn ==
  ASSUME NEW c \in Classes, NEW n \in DOMAIN Fields[c]
  PROVE  /\ Boxed(c, n) => \/ c = "SyncPlayers" /\ n = 1
                           \/ c = "Player" /\ n = 2
                           \/ c = "BroadCast" /\ n \in {3, 4, 5}
         /\ c = "SyncPlayers" => Boxed(c, n)
<1>1. CASE c = "SyncPlayers"
  <2>1. Fields[c] = <<"Player">> /\ IsMessage("Player")
    BY <1>1, ClassTable, IsMessageType
  <2>2. n = 1 /\ Fields[c][n] = "Player"
    BY <2>1
  <2> QED
    BY <1>1, <2>1, <2>2 DEF Boxed
<1>2. CASE c = "Player"
  <2>1. Fields["Player"] = <<"int32", "Position">>
    BY DEF Fields, PlayerFields
  <2>2. ~IsMessage("int32")
    BY IsMessageType DEF ScalarTypes
  <2>3. n \in {1, 2} /\ (n = 1 => Fields[c][n] = "int32")
    BY <1>2, <2>1
  <2> QED
    BY <1>2, <2>2, <2>3 DEF Boxed, OneofData
<1>3. CASE c = "BroadCast"
  <2>1. Fields["BroadCast"] = <<"int32", "int32", "string", "Position", "int32">>
    BY DEF Fields, BroadCastFields
  <2>2. ~IsMessage("int32")
    BY IsMessageType DEF ScalarTypes
  <2>3. n \in {1, 2, 3, 4, 5} /\ (n \in {1, 2} => Fields[c][n] = "int32")
    BY <1>3, <2>1
  <2> QED
    BY <1>3, <2>2, <2>3 DEF Boxed, OneofData
<1>4. CASE c \in LeafClasses
  BY <1>4, SubClass DEF Boxed, OneofData, LeafClasses
<1> QED
  BY <1>1, <1>2, <1>3, <1>4 DEF LeafClasses

(* So two classes share plain values only.                                  *)
LEMMA KnownAreScalars ==
  ASSUME NEW c \in Classes, NEW r \in Classes, c # r, Agree(c, r), NEW n \in Known(c, r)
  PROVE  /\ n \in DOMAIN Fields[c] /\ n \in DOMAIN Fields[r]
         /\ Tags[r][n] = Tags[c][n] /\ Fields[r][n] = Fields[c][n]
         /\ ~Boxed(c, n) /\ ~Boxed(r, n) /\ ~IsMessage(Fields[c][n])
         /\ n \notin OneofData(c) /\ n \notin OneofData(r)
         /\ ~Repeated(c, n) /\ ~Repeated(r, n)
<1>1. n \in DOMAIN Fields[c] /\ n \in DOMAIN Fields[r] /\ (Boxed(r, n) <=> Boxed(c, n))
  BY DEF Known, Agree
<1>2. ~(Boxed(c, n) /\ Boxed(r, n))
  BY <1>1, BoxedIn
<1>3. ~Boxed(c, n) /\ ~Boxed(r, n)
  BY <1>1, <1>2
<1>4. c # "SyncPlayers" /\ r # "SyncPlayers"
  BY <1>1, <1>3, BoxedIn
<1> QED
  BY <1>1, <1>3, <1>4 DEF Boxed, Repeated, Known, Agree

(* What a parser that has not failed makes of one field more.               *)
ReadOn(class, m, f) ==
    ReadField(class, [ok |-> TRUE, m |-> m], f,
              InnerParse(SubType(class, f), SubBefore(class, m, f), f.v.fields))

(* A parser that has not failed reads the next field on top of what it has. *)
LEMMA ParseOneMore ==
  ASSUME NEW class, NEW m, NEW S, NEW w \in Seq(S), NEW f \in S
  PROVE  LET st == ParseInto(class, m, w)
             t  == ParseInto(class, m, Append(w, f))
         IN  /\ st.ok  => t = ReadOn(class, st.m, f)
             /\ ~st.ok => ~t.ok
<1> DEFINE st == ParseInto(class, m, w)
           one == <<f>>
<1>1. Append(w, f) = w \o one /\ one \in Seq(S) /\ Len(one) = 1 /\ one[1] = f
  OBVIOUS
<1> HIDE DEF one
<1>2. /\ st.ok  => ParseInto(class, m, w \o one) = ParseInto(class, st.m, one)
      /\ ~st.ok => ~ParseInto(class, m, w \o one).ok
  BY <1>1, ParseJoined
<1> HIDE DEF st
<1>3. PICK sub, r : ParseRun(class, st.m, one, sub, r)
  <2>1. Len(one) \in Nat
    BY <1>1
  <2> QED
    BY <2>1, ParseIntoRuns, Zenon
<1>4. /\ r[0] = [ok |-> TRUE, m |-> st.m]
      /\ r[1] = ReadField(class, r[0], f, sub[1])
      /\ sub[1] = InnerParse(SubType(class, f), SubBefore(class, r[0].m, f), f.v.fields)
      /\ ParseInto(class, st.m, one) = r[1]
  <2>1. 1 \in 1 .. Len(one) /\ 1 - 1 = 0
    BY <1>1
  <2> QED
    BY <1>1, <1>3, <2>1 DEF ParseRun, IsRun
<1>5. r[0].m = st.m
  BY <1>4
<1>6. ParseInto(class, st.m, one) = ReadOn(class, st.m, f)
  BY <1>4, <1>5 DEF ReadOn
<1> QED
  BY <1>1, <1>2, <1>6 DEF st

(* What set_<field> and add_<field> leave of a message, field by field.     *)
IsMsg(class, m) ==
    /\ m = [val |-> m.val, unknown |-> m.unknown]
    /\ m.val = [k \in DOMAIN Fields[class] |-> m.val[k]]
PutAt(class, m, n, v, k) ==
    IF k = n THEN IF Repeated(class, n)
                  THEN Append(IF n \in OneofData(class) THEN <<>> ELSE m.val[n], v)
                  ELSE IF Boxed(class, n) THEN <<v>> ELSE v
    ELSE IF n \in OneofData(class) /\ k \in OneofData(class) THEN <<>> ELSE m.val[k]

(* set_<field> and add_<field> do that.                                     *)
LEMMA PutIs ==
  ASSUME NEW c \in Classes, NEW m, IsMsg(c, m), NEW n \in DOMAIN Fields[c], NEW v
  PROVE  Put(c, m, n, v) = [val     |-> [k \in DOMAIN Fields[c] |-> PutAt(c, m, n, v, k)],
                            unknown |-> m.unknown]
<1> DEFINE V == DOMAIN Fields[c]
           w == [k \in V |-> IF n \in OneofData(c) /\ k \in OneofData(c) THEN <<>>
                             ELSE m.val[k]]
           X == IF Repeated(c, n) THEN Append(w[n], v)
                ELSE IF Boxed(c, n) THEN <<v>> ELSE v
           x == [w EXCEPT ![n] = X]
<1>1. m = [val |-> m.val, unknown |-> m.unknown] /\ DOMAIN m.val = V
  BY DEF IsMsg
<1>2. ClearedOthers(c, m, n) = w
  BY <1>1 DEF ClearedOthers
<1>3. Put(c, m, n, v) = [m EXCEPT !.val = x]
  BY <1>2 DEF Put
<1>4. \A k \in V : w[k] = IF n \in OneofData(c) /\ k \in OneofData(c) THEN <<>>
                          ELSE m.val[k]
  OBVIOUS
<1>5. DOMAIN w = V
  OBVIOUS
<1> HIDE DEF w, X
<1>6. x = [k \in V |-> IF k = n THEN X ELSE w[k]]
  BY <1>5
<1>7. X = PutAt(c, m, n, v, n)
  BY <1>4 DEF X, PutAt
<1>8. \A k \in V : k # n => w[k] = PutAt(c, m, n, v, k)
  BY <1>4 DEF PutAt
<1>9. x = [k \in V |-> PutAt(c, m, n, v, k)]
  <2> DEFINE A(k) == IF k = n THEN X ELSE w[k]
             B(k) == PutAt(c, m, n, v, k)
  <2>1. \A k \in V : A(k) = B(k)
    BY <1>7, <1>8
  <2>2. x = [k \in V |-> A(k)]
    BY <1>6
  <2> HIDE DEF A, B, x
  <2>3. x = [k \in V |-> B(k)]
    BY <2>1, <2>2
  <2> QED
    BY <2>3 DEF B
<1> HIDE DEF x
<1>10. [m EXCEPT !.val = x] = [val |-> x, unknown |-> m.unknown]
  BY <1>1
<1> QED
  BY <1>3, <1>9, <1>10

(* A plain value is set, a tag that is not taken is kept.                   *)
Plain(type, f) == IF type = "string" THEN f.v.text ELSE f.v

(* A plain value becomes that of its field.                                 *)
LEMMA ReadPlain ==
  ASSUME NEW c \in Classes, NEW m, IsMsg(c, m), NEW n \in DOMAIN Fields[c], NEW f,
         f.tag = Tags[c][n], ~Boxed(c, n), ~Repeated(c, n)
  PROVE  LET s == ReadOn(c, m, f)
         IN  /\ s.ok <=> (Fields[c][n] = "string" => IsUtf8(f.v.text))
             /\ s.m = [val     |-> [k \in DOMAIN Fields[c] |->
                                      IF k = n THEN Plain(Fields[c][n], f) ELSE m.val[k]],
                       unknown |-> m.unknown]
<1> DEFINE v == Plain(Fields[c][n], f)
           A(k) == PutAt(c, m, n, v, k)
           B(k) == IF k = n THEN v ELSE m.val[k]
           s == ReadOn(c, m, f)
<1>1. f.tag \div 8 = n /\ f.tag \in Range(Tags[c])
  BY ClassTable DEF Range
<1>2. n \notin OneofData(c) /\ ~IsMessage(Fields[c][n])
  BY DEF Boxed
<1>3. s.ok <=> (Fields[c][n] = "string" => IsUtf8(f.v.text))
  BY <1>1, <1>2 DEF ReadOn, ReadField
<1>4. s.m = Put(c, m, n, v)
  BY <1>1, <1>2 DEF ReadOn, ReadField, Plain
<1>5. \A k \in DOMAIN Fields[c] : A(k) = B(k)
  BY <1>2 DEF PutAt
<1>6. Put(c, m, n, v) = [val |-> [k \in DOMAIN Fields[c] |-> A(k)], unknown |-> m.unknown]
  BY PutIs
<1> HIDE DEF A, B, s, v
<1>7. s.m = [val |-> [k \in DOMAIN Fields[c] |-> B(k)], unknown |-> m.unknown]
  BY <1>4, <1>5, <1>6
<1> QED
  BY <1>3, <1>7 DEF B, s, v

(* A field whose tag is not taken changes nothing else.                     *)
LEMMA ReadUnknown ==
  ASSUME NEW c \in Classes, NEW m, IsMsg(c, m), NEW f, f.tag \notin Range(Tags[c])
  PROVE  ReadOn(c, m, f) = [ok |-> TRUE,
                            m  |-> [val |-> m.val, unknown |-> Append(m.unknown, f)]]
<1>1. ReadOn(c, m, f) = [[ok |-> TRUE, m |-> m] EXCEPT !.m = KeptUnknown(@, f)]
  BY DEF ReadOn, ReadField
<1>2. m = [val |-> m.val, unknown |-> m.unknown]
  BY DEF IsMsg
<1>3. KeptUnknown(m, f) = [val |-> m.val, unknown |-> Append(m.unknown, f)]
  BY <1>2 DEF KeptUnknown
<1> QED
  BY <1>1, <1>3

(* What a field is read as depends on what the field holds only, and changes *)
(* no other field but those of a oneof.                                     *)
LEMMA ReadAlike ==
  ASSUME NEW c \in Classes, NEW m, IsMsg(c, m), NEW o, IsMsg(c, o),
         NEW n \in DOMAIN Fields[c], m.val[n] = o.val[n], NEW f, f.tag = Tags[c][n]
  PROVE  LET s == ReadOn(c, m, f)
             t == ReadOn(c, o, f)
         IN  /\ s.ok <=> t.ok
             /\ IsMsg(c, s.m) /\ IsMsg(c, t.m)
             /\ s.m.unknown = m.unknown /\ t.m.unknown = o.unknown
             /\ \A k \in DOMAIN Fields[c] :
                  /\ m.val[k] = o.val[k] => s.m.val[k] = t.m.val[k]
                  /\ k # n /\ k \notin OneofData(c) =>
                       s.m.val[k] = m.val[k] /\ t.m.val[k] = o.val[k]
<1> DEFINE s == ReadOn(c, m, f)
           t == ReadOn(c, o, f)
           V == DOMAIN Fields[c]
           IsPut(x, u, v) == /\ IsMsg(c, u) /\ u.unknown = x.unknown
                             /\ \A k \in V : u.val[k] = PutAt(c, x, n, v, k)
<1>1. f.tag \div 8 = n /\ f.tag \in Range(Tags[c])
  BY ClassTable DEF Range
<1>2. ASSUME NEW x, IsMsg(c, x), NEW v PROVE IsPut(x, Put(c, x, n, v), v)
  <2> DEFINE A(k) == PutAt(c, x, n, v, k)
  <2>1. Put(c, x, n, v) = [val |-> [k \in V |-> A(k)], unknown |-> x.unknown]
    BY <1>2, PutIs
  <2> HIDE DEF A
  <2>2. /\ IsMsg(c, Put(c, x, n, v)) /\ Put(c, x, n, v).unknown = x.unknown
        /\ \A k \in V : Put(c, x, n, v).val[k] = A(k)
    BY <2>1 DEF IsMsg
  <2> QED
    BY <2>2 DEF A
<1>3. PICK v : /\ s.ok <=> t.ok
               /\ s.m = Put(c, m, n, v) /\ t.m = Put(c, o, n, v)
  <2> DEFINE sub == InnerParse(SubType(c, f), SubBefore(c, m, f), f.v.fields)
             type == Fields[c][n]
  <2>1. SubBefore(c, m, f) = SubBefore(c, o, f)
    BY <1>1 DEF SubBefore, Mutable
  <2>2. /\ s = ReadField(c, [ok |-> TRUE, m |-> m], f, sub)
        /\ t = ReadField(c, [ok |-> TRUE, m |-> o], f, sub)
    BY <2>1 DEF ReadOn
  <2> HIDE DEF sub, s, t
  <2>3. CASE IsMessage(type)
    <3>1. /\ s = [ok |-> sub.ok, m |-> Put(c, m, n, sub.m)]
          /\ t = [ok |-> sub.ok, m |-> Put(c, o, n, sub.m)]
      BY <1>1, <2>2, <2>3 DEF ReadField
    <3> QED
      BY <3>1
  <2>4. CASE ~IsMessage(type) /\ type = "string"
    <3>1. /\ s = [ok |-> IsUtf8(f.v.text), m |-> Put(c, m, n, f.v.text)]
          /\ t = [ok |-> IsUtf8(f.v.text), m |-> Put(c, o, n, f.v.text)]
      BY <1>1, <2>2, <2>4 DEF ReadField
    <3> QED
      BY <3>1
  <2>5. CASE ~IsMessage(type) /\ type # "string"
    <3>1. /\ s = [ok |-> TRUE, m |-> Put(c, m, n, f.v)]
          /\ t = [ok |-> TRUE, m |-> Put(c, o, n, f.v)]
      BY <1>1, <2>2, <2>5 DEF ReadField
    <3> QED
      BY <3>1
  <2> QED
    BY <2>3, <2>4, <2>5
<1>4. IsPut(m, s.m, v) /\ IsPut(o, t.m, v)
  BY <1>2, <1>3
<1>5. \A k \in V : /\ m.val[k] = o.val[k] => PutAt(c, m, n, v, k) = PutAt(c, o, n, v, k)
                   /\ k # n /\ k \notin OneofData(c) =>
                        PutAt(c, m, n, v, k) = m.val[k] /\ PutAt(c, o, n, v, k) = o.val[k]
  BY DEF PutAt
<1> HIDE DEF s, t
<1> QED
  BY <1>3, <1>4, <1>5 DEF s, t

(* A reader x of another version r of the class c, beside one of c itself, a, *)
(* and one of c, g, that starts from b and gets what x does not know: x and a *)
(* have the same in the fields that both know, a and g in the others.       *)
SideBySide(c, r, b, x, a, g) ==
    /\ IsMsg(r, x.m)
    /\ \A n \in DOMAIN Fields[r] \ Known(c, r) : x.m.val[n] = Default(r).val[n]
    /\ \A n \in Known(c, r) :
         Fields[c][n] = "string" /\ x.m.val[n] # "" => IsUtf8(x.m.val[n])
    /\ a.ok <=> g.ok
    /\ a.ok =>
         /\ IsMsg(c, a.m) /\ a.m.unknown = <<>>
         /\ IsMsg(c, g.m) /\ g.m.unknown = <<>>
         /\ \A n \in Known(c, r) : a.m.val[n] = x.m.val[n] /\ g.m.val[n] = b.val[n]
         /\ \A n \in DOMAIN Fields[c] \ Known(c, r) : a.m.val[n] = g.m.val[n]

(* s is what the parser of a class makes of f after t.                      *)
Follows(class, t, f, s) ==
    /\ t.ok  => s = ReadOn(class, t.m, f)
    /\ ~t.ok => ~s.ok

(* A field that both know: x and a set the same value, g never sees it.     *)
LEMMA KnownField ==
  ASSUME NEW c \in Classes, NEW r \in Classes, c # r, Agree(c, r), NEW b,
         NEW x, NEW a, NEW g, x.ok, SideBySide(c, r, b, x, a, g),
         NEW n \in Known(c, r), NEW f, f.tag = Tags[c][n],
         NEW y, Follows(r, x, f, y), y.ok, NEW e, Follows(c, a, f, e)
  PROVE  SideBySide(c, r, b, y, e, g) /\ y.m.unknown = x.m.unknown
<1> DEFINE K == Known(c, r)
           v == Plain(Fields[c][n], f)
           Y(k) == IF k = n THEN v ELSE x.m.val[k]
           E(k) == IF k = n THEN v ELSE a.m.val[k]
<1>1. /\ n \in DOMAIN Fields[c] /\ n \in DOMAIN Fields[r]
      /\ Tags[r][n] = Tags[c][n] /\ Fields[r][n] = Fields[c][n]
      /\ ~Boxed(c, n) /\ ~Boxed(r, n) /\ ~Repeated(c, n) /\ ~Repeated(r, n)
  BY KnownAreScalars
<1>2. y = ReadOn(r, x.m, f) /\ IsMsg(r, x.m)
  BY DEF Follows, SideBySide
<1>3. /\ Fields[c][n] = "string" => IsUtf8(f.v.text)
      /\ y.m = [val |-> [k \in DOMAIN Fields[r] |-> Y(k)], unknown |-> x.m.unknown]
  BY <1>1, <1>2, ReadPlain
<1>4. ASSUME a.ok
      PROVE  e.ok /\ e.m = [val |-> [k \in DOMAIN Fields[c] |-> E(k)], unknown |-> <<>>]
  <2>1. e = ReadOn(c, a.m, f) /\ IsMsg(c, a.m) /\ a.m.unknown = <<>>
    BY <1>4 DEF Follows, SideBySide
  <2> QED
    BY <1>1, <1>3, <2>1, ReadPlain
<1>5. ~a.ok => ~e.ok
  BY DEF Follows
<1>6. K \subseteq DOMAIN Fields[c] /\ K \subseteq DOMAIN Fields[r] /\ n \in K
  BY DEF Known
<1>7. Fields[c][n] = "string" => IsUtf8(v)
  BY <1>3 DEF Plain
<1> HIDE DEF v
<1>8. \A k \in DOMAIN Fields[r] : y.m.val[k] = Y(k)
  BY <1>3
<1>9. a.ok => \A k \in DOMAIN Fields[c] : e.m.val[k] = E(k)
  BY <1>4
<1>10. IsMsg(r, y.m) /\ y.m.unknown = x.m.unknown
  <2> HIDE DEF Y
  <2> QED
    BY <1>3 DEF IsMsg
<1>11. a.ok => IsMsg(c, e.m) /\ e.m.unknown = <<>>
  <2> HIDE DEF E
  <2> QED
    BY <1>4 DEF IsMsg
<1>12. \A k \in DOMAIN Fields[r] \ K : y.m.val[k] = Default(r).val[k]
  BY <1>6, <1>8 DEF SideBySide
<1>13. \A k \in K : Fields[c][k] = "string" /\ y.m.val[k] # "" => IsUtf8(y.m.val[k])
  BY <1>6, <1>7, <1>8 DEF SideBySide
<1>14. a.ok <=> e.ok
  BY <1>4, <1>5
<1>15. a.ok =>
         /\ \A k \in K : e.m.val[k] = y.m.val[k]
         /\ \A k \in DOMAIN Fields[c] \ K : e.m.val[k] = a.m.val[k]
  BY <1>6, <1>8, <1>9 DEF SideBySide
<1> HIDE DEF K
<1>16. /\ a.ok <=> g.ok
       /\ a.ok =>
            /\ IsMsg(c, g.m) /\ g.m.unknown = <<>>
            /\ \A k \in K : g.m.val[k] = b.val[k]
            /\ \A k \in DOMAIN Fields[c] \ K : a.m.val[k] = g.m.val[k]
  BY DEF SideBySide, K
<1> HIDE DEF Y, E
<1> QED
  BY <1>10, <1>11, <1>12, <1>13, <1>14, <1>15, <1>16 DEF SideBySide, K

(* A field that x does not know: x keeps it, a and g read it alike.         *)
LEMMA UnknownField ==
  ASSUME NEW c \in Classes, NEW r \in Classes, c # r, Agree(c, r), NEW b,
         NEW x, NEW a, NEW g, x.ok, SideBySide(c, r, b, x, a, g),
         NEW f, f.tag \in Range(Tags[c]), f.tag \notin Range(Tags[r]),
         NEW y, Follows(r, x, f, y), NEW e, Follows(c, a, f, e),
         NEW h, Follows(c, g, f, h)
  PROVE  SideBySide(c, r, b, y, e, h) /\ y.ok /\ y.m.unknown = Append(x.m.unknown, f)
<1> DEFINE n == f.tag \div 8
           K == Known(c, r)
<1>1. n \in DOMAIN Fields[c] /\ f.tag = Tags[c][n]
  BY KnownTag
<1>2. n \notin K
  BY <1>1, ClassTable DEF Known, Range
<1>3. IsMsg(r, x.m) /\ y = ReadOn(r, x.m, f)
  BY DEF SideBySide, Follows
<1>4. /\ y.ok /\ y.m.val = x.m.val /\ y.m.unknown = Append(x.m.unknown, f)
      /\ y.m = [val |-> y.m.val, unknown |-> y.m.unknown]
  BY <1>3, ReadUnknown
<1>5. IsMsg(r, y.m)
  BY <1>3, <1>4 DEF IsMsg
<1> HIDE DEF n
<1>6. CASE ~a.ok
  <2>1. ~e.ok /\ ~h.ok
    BY <1>6 DEF SideBySide, Follows
  <2> QED
    BY <1>4, <1>5, <1>6, <2>1 DEF SideBySide
<1>7. CASE a.ok
  <2>1. /\ e = ReadOn(c, a.m, f) /\ h = ReadOn(c, g.m, f)
        /\ IsMsg(c, a.m) /\ a.m.unknown = <<>>
        /\ IsMsg(c, g.m) /\ g.m.unknown = <<>>
        /\ \A k \in K : a.m.val[k] = x.m.val[k] /\ g.m.val[k] = b.val[k]
        /\ \A k \in DOMAIN Fields[c] \ K : a.m.val[k] = g.m.val[k]
    BY <1>7 DEF SideBySide, Follows
  <2>2. a.m.val[n] = g.m.val[n]
    BY <1>1, <1>2, <2>1
  <2> DEFINE p == a.m
             q == g.m
  <2>3. /\ e.ok <=> h.ok
        /\ IsMsg(c, e.m) /\ IsMsg(c, h.m)
        /\ e.m.unknown = <<>> /\ h.m.unknown = <<>>
        /\ \A k \in DOMAIN Fields[c] :
             /\ a.m.val[k] = g.m.val[k] => e.m.val[k] = h.m.val[k]
             /\ k # n /\ k \notin OneofData(c) =>
                  e.m.val[k] = a.m.val[k] /\ h.m.val[k] = g.m.val[k]
    <3>1. /\ IsMsg(c, p) /\ IsMsg(c, q) /\ p.val[n] = q.val[n]
          /\ e = ReadOn(c, p, f) /\ h = ReadOn(c, q, f)
          /\ p.unknown = <<>> /\ q.unknown = <<>>
      BY <2>1, <2>2
    <3>2. LET s == ReadOn(c, p, f)
              t == ReadOn(c, q, f)
          IN  /\ s.ok <=> t.ok
              /\ IsMsg(c, s.m) /\ IsMsg(c, t.m)
              /\ s.m.unknown = p.unknown /\ t.m.unknown = q.unknown
              /\ \A k \in DOMAIN Fields[c] :
                   /\ p.val[k] = q.val[k] => s.m.val[k] = t.m.val[k]
                   /\ k # n /\ k \notin OneofData(c) =>
                        s.m.val[k] = p.val[k] /\ t.m.val[k] = q.val[k]
      <4> HIDE DEF p, q
      <4> QED
        BY <1>1, <3>1, ReadAlike
    <3> QED
      BY <3>1, <3>2
  <2>4. \A k \in K : k \in DOMAIN Fields[c] /\ k # n /\ k \notin OneofData(c)
    BY <1>2, KnownAreScalars
  <2>5. \A k \in K : e.m.val[k] = y.m.val[k] /\ h.m.val[k] = b.val[k]
    BY <1>4, <2>1, <2>3, <2>4
  <2>6. \A k \in DOMAIN Fields[c] \ K : e.m.val[k] = h.m.val[k]
    BY <2>1, <2>3
  <2>7. /\ \A k \in DOMAIN Fields[r] \ K : y.m.val[k] = Default(r).val[k]
        /\ \A k \in K : Fields[c][k] = "string" /\ y.m.val[k] # "" => IsUtf8(y.m.val[k])
    BY <1>4 DEF SideBySide
  <2> HIDE DEF K
  <2> QED
    BY <1>4, <1>5, <2>3, <2>5, <2>6, <2>7 DEF SideBySide, K
<1> QED
  BY <1>6, <1>7

(* No bytes leave a message as it is.                                       *)
LEMMA ParseNone ==
  ASSUME NEW class, NEW m
  PROVE  ParseInto(class, m, <<>>) = [ok |-> TRUE, m |-> m]
<1> DEFINE w == <<>>
<1>1. Len(w) = 0 /\ Len(w) \in Nat
  OBVIOUS
<1> HIDE DEF w
<1>2. PICK sub, r : ParseRun(class, m, w, sub, r)
  BY <1>1, ParseIntoRuns, Zenon
<1>3. ParseInto(class, m, w) = r[0] /\ r[0] = [ok |-> TRUE, m |-> m]
  BY <1>1, <1>2 DEF ParseRun, IsRun
<1> QED
  BY <1>3 DEF w

(* Before the first field all three have their defaults, g what is in b.    *)
LEMMA SideBySideStarts ==
  ASSUME NEW c \in Classes, NEW r \in Classes, c # r, Agree(c, r), NEW b,
         IsMsg(c, b), b.unknown = <<>>,
         \A n \in DOMAIN Fields[c] \ Known(c, r) : b.val[n] = Default(c).val[n]
  PROVE  SideBySide(c, r, b, ParseFromString(r, <<>>), ParseFromString(c, <<>>),
                    ParseInto(c, b, <<>>))
<1> DEFINE x == ParseFromString(r, <<>>)
           a == ParseFromString(c, <<>>)
           g == ParseInto(c, b, <<>>)
<1>1. x.m = Default(r) /\ a.m = Default(c) /\ g.m = b /\ a.ok /\ g.ok
  BY ParseNone DEF ParseFromString
<1>2. ASSUME NEW d
      PROVE  /\ IsMsg(d, Default(d)) /\ Default(d).unknown = <<>>
             /\ \A n \in DOMAIN Fields[d] : ~Boxed(d, n) => Default(d).val[n] = Zero(Fields[d][n])
  <2> DEFINE D(n) == IF Boxed(d, n) THEN <<>> ELSE Zero(Fields[d][n])
  <2>1. Default(d) = [val |-> [n \in DOMAIN Fields[d] |-> D(n)], unknown |-> <<>>]
    BY DEF Default
  <2>2. \A n \in DOMAIN Fields[d] : Default(d).val[n] = D(n)
    BY <2>1
  <2>3. IsMsg(d, Default(d)) /\ Default(d).unknown = <<>>
    <3> HIDE DEF D
    <3> QED
      BY <2>1 DEF IsMsg
  <2> QED
    BY <2>2, <2>3
<1>3. \A n \in Known(c, r) :
         /\ Default(c).val[n] = Zero(Fields[c][n])
         /\ Default(r).val[n] = Zero(Fields[c][n])
  BY <1>2, KnownAreScalars
<1>4. Zero("string") = ""
  BY DEF Zero
<1> HIDE DEF x, a, g
<1>5. /\ IsMsg(r, x.m) /\ IsMsg(c, a.m) /\ a.m.unknown = <<>>
      /\ \A n \in DOMAIN Fields[r] \ Known(c, r) : x.m.val[n] = Default(r).val[n]
      /\ \A n \in Known(c, r) :
           Fields[c][n] = "string" /\ x.m.val[n] # "" => IsUtf8(x.m.val[n])
  BY <1>1, <1>2, <1>3, <1>4
<1>6. /\ \A n \in Known(c, r) : a.m.val[n] = x.m.val[n] /\ g.m.val[n] = b.val[n]
      /\ \A n \in DOMAIN Fields[c] \ Known(c, r) : a.m.val[n] = g.m.val[n]
  BY <1>1, <1>3
<1>7. SideBySide(c, r, b, x, a, g)
  BY <1>1, <1>5, <1>6 DEF SideBySide
<1> QED
  BY <1>7 DEF x, a, g

(* So the three stay side by side over all the bytes.                       *)
LEMMA SideBySideRuns ==
  ASSUME NEW c \in Classes, NEW r \in Classes, c # r, Agree(c, r), NEW S,
         NEW w \in Seq(S), \A i \in 1 .. Len(w) : w[i].tag \in Range(Tags[c]),
         NEW b, IsMsg(c, b), b.unknown = <<>>,
         \A n \in DOMAIN Fields[c] \ Known(c, r) : b.val[n] = Default(c).val[n]
  PROVE  LET x == ParseFromString(r, w)
         IN  x.ok => /\ x.m.unknown \in Seq(S)
                     /\ SideBySide(c, r, b, x, ParseFromString(c, w),
                                   ParseInto(c, b, x.m.unknown))
<1> DEFINE N == Len(w)
           X(v) == ParseFromString(r, v)
           A(v) == ParseFromString(c, v)
           G(v) == ParseInto(c, b, X(v).m.unknown)
           Good(v) == X(v).ok => /\ X(v).m.unknown \in Seq(S)
                                 /\ SideBySide(c, r, b, X(v), A(v), G(v))
           P == {k \in 0 .. N : Good(SubSeq(w, 1, k))}
<1>1. Good(<<>>)
  <2>1. X(<<>>).m.unknown = <<>>
    BY ParseNone DEF ParseFromString, Default
  <2>2. SideBySide(c, r, b, X(<<>>), A(<<>>), G(<<>>))
    BY <2>1, SideBySideStarts
  <2>3. <<>> \in Seq(S)
    OBVIOUS
  <2> HIDE DEF X, A, G
  <2> QED
    BY <2>1, <2>2, <2>3
<1>2. ASSUME NEW v \in Seq(S), NEW f \in S, f.tag \in Range(Tags[c]), Good(v)
      PROVE  Good(Append(v, f))
  <2> DEFINE x == X(v)
             a == A(v)
             g == G(v)
             y == X(Append(v, f))
             e == A(Append(v, f))
             h == ParseInto(c, b, Append(x.m.unknown, f))
  <2>1. Follows(r, x, f, y) /\ Follows(c, a, f, e)
    BY ParseOneMore DEF Follows, ParseFromString
  <2>2. SUFFICES ASSUME y.ok
                 PROVE  y.m.unknown \in Seq(S)
                          /\ SideBySide(c, r, b, y, e, ParseInto(c, b, y.m.unknown))
    OBVIOUS
  <2>3. x.ok
    BY <2>1, <2>2 DEF Follows
  <2>4. x.m.unknown \in Seq(S) /\ SideBySide(c, r, b, x, a, g)
    BY <1>2, <2>3
  <2>5. Follows(c, g, f, h)
    <3> DEFINE u == x.m.unknown
    <3>1. u \in Seq(S)
      BY <2>4
    <3> HIDE DEF u
    <3>2. Follows(c, ParseInto(c, b, u), f, ParseInto(c, b, Append(u, f)))
      BY <3>1, ParseOneMore DEF Follows
    <3> QED
      BY <3>2 DEF u
  <2>6. g = ParseInto(c, b, x.m.unknown)
    OBVIOUS
  <2> HIDE DEF x, a, g, y, e, h
  <2>7. CASE f.tag \in Range(Tags[r])
    <3> DEFINE n == f.tag \div 8
    <3>1. n \in Known(c, r) /\ f.tag = Tags[c][n]
      BY <1>2, <2>7, KnownTag DEF Known
    <3> HIDE DEF n
    <3>2. SideBySide(c, r, b, y, e, g) /\ y.m.unknown = x.m.unknown
      BY <2>1, <2>2, <2>3, <2>4, <3>1, KnownField
    <3> QED
      BY <2>4, <2>6, <3>2
  <2>8. CASE f.tag \notin Range(Tags[r])
    <3>1. SideBySide(c, r, b, y, e, h) /\ y.m.unknown = Append(x.m.unknown, f)
      BY <1>2, <2>1, <2>3, <2>4, <2>5, <2>8, UnknownField
    <3>2. h = ParseInto(c, b, y.m.unknown)
      BY <3>1 DEF h
    <3>3. y.m.unknown \in Seq(S)
      BY <2>4, <3>1
    <3> QED
      BY <3>1, <3>2, <3>3
  <2> QED
    BY <2>7, <2>8
<1> HIDE DEF Good
<1>3. SubSeq(w, 1, 0) = <<>> /\ SubSeq(w, 1, N) = w /\ N \in Nat
  OBVIOUS
<1>4. ASSUME NEW k \in 0 .. N, k < N
      PROVE  /\ k + 1 \in 1 .. N /\ w[k + 1] \in S /\ SubSeq(w, 1, k) \in Seq(S)
             /\ SubSeq(w, 1, k + 1) = Append(SubSeq(w, 1, k), w[k + 1])
  BY <1>4
<1>5. \A k \in 0 .. N : k \in P
  <2>1. 0 \in P
    <3>1. Good(SubSeq(w, 1, 0))
      BY <1>1, <1>3, Zenon
    <3> QED
      BY <1>3, <3>1
  <2>2. ASSUME NEW k \in 0 .. N, k \in P, k < N PROVE k + 1 \in P
    <3>1. Good(SubSeq(w, 1, k))
      BY <2>2
    <3>2. /\ k + 1 \in 1 .. N /\ w[k + 1] \in S /\ SubSeq(w, 1, k) \in Seq(S)
          /\ SubSeq(w, 1, k + 1) = Append(SubSeq(w, 1, k), w[k + 1])
      BY <1>4, <2>2
    <3>3. w[k + 1].tag \in Range(Tags[c])
      BY <3>2
    <3>4. Good(Append(SubSeq(w, 1, k), w[k + 1]))
      BY <1>2, <3>1, <3>2, <3>3, Zenon
    <3>5. Good(SubSeq(w, 1, k + 1))
      BY <3>2, <3>4, Zenon
    <3> QED
      BY <1>3, <3>2, <3>5
  <2>3. \A k \in 0 .. N : k \in P /\ k < N => k + 1 \in P
    BY <2>2
  <2> HIDE DEF P
  <2> QED
    BY <1>3, <2>1, <2>3, UpTo, Zenon
<1>6. Good(w)
  <2>1. N \in P
    BY <1>3, <1>5
  <2> QED
    BY <1>3, <2>1
<1> QED
  BY <1>6 DEF Good

(* Empty sequences at the end add nothing.                                  *)
EndsEmpty(q, t, N, M, S) ==
    /\ N \in Nat \ {0} /\ M \in Nat \ {0} /\ N <= M
    /\ q \in [1 .. N -> Seq(S)] /\ t \in [1 .. M -> Seq(S)]
    /\ \A n \in 1 .. N : t[n] = q[n]
    /\ \A n \in 1 .. M : n > N => t[n] = <<>>

(* They are joined to the same sequence.                                    *)
LEMMA EmptyFlattens ==
  ASSUME NEW q, NEW t, NEW N, NEW M, NEW S, EndsEmpty(q, t, N, M, S)
  PROVE  FlattenSeq(t) = FlattenSeq(q)
<1> USE DEF EndsEmpty
<1>1. PICK p : Places(q, N, p)
  BY Flattened
<1>2. PICK o : Places(t, M, o)
  BY Flattened
<1> DEFINE Q(n) == IF n <= N THEN p[n] ELSE p[N]
           P == {n \in 0 .. M : o[n] = Q(n)}
<1>3. \A n \in 0 .. M : o[n] = Q(n)
  <2>1. 0 \in P
    BY <1>1, <1>2 DEF Places
  <2>2. ASSUME NEW h \in 0 .. M, h \in P, h < M PROVE h + 1 \in P
    <3> DEFINE n == h + 1
    <3>1. n \in 1 .. M /\ n - 1 = h /\ n \in 0 .. M /\ o[h] = Q(h)
      BY <2>2
    <3> HIDE DEF n, Q
    <3>2. o[n] = o[h] + Len(t[n])
      BY <1>2, <3>1 DEF Places
    <3>3. CASE n <= N
      <4>1. n \in 1 .. N /\ h <= N
        BY <3>1, <3>3
      <4>2. p[n] = p[h] + Len(q[n]) /\ t[n] = q[n]
        BY <1>1, <3>1, <4>1 DEF Places
      <4>3. o[n] = Q(n)
        BY <3>1, <3>2, <3>3, <4>1, <4>2 DEF Q
      <4> QED
        BY <3>1, <4>3 DEF n
    <3>4. CASE n > N
      <4>1. t[n] = <<>> /\ Len(<<>>) = 0
        BY <3>1, <3>4
      <4>2. o[h] \in Nat
        BY <1>2 DEF Places
      <4>3. o[n] = o[h]
        BY <3>2, <4>1, <4>2
      <4>4. Q(n) = p[N] /\ Q(h) = p[N]
        BY <3>1, <3>4 DEF Q
      <4>5. o[n] = Q(n)
        BY <3>1, <4>3, <4>4
      <4> QED
        BY <3>1, <4>5 DEF n
    <3> QED
      BY <3>1, <3>3, <3>4
  <2>3. \A n \in 0 .. M : n \in P /\ n < M => n + 1 \in P
    BY <2>2
  <2> HIDE DEF P
  <2>4. \A n \in 0 .. M : n \in P
    BY <2>1, <2>3, UpTo, Zenon
  <2> QED
    BY <2>4 DEF P
<1>4. o[M] = p[N]
  BY <1>3
<1>5. Len(FlattenSeq(q)) = p[N] /\ Len(FlattenSeq(t)) = p[N]
  BY <1>1, <1>2, <1>4 DEF Places
<1>6. ASSUME NEW i \in 1 .. p[N] PROVE FlattenSeq(t)[i] = FlattenSeq(q)[i]
  <2>1. Covers(q, N, p)
    BY <1>1, Located
  <2>2. PICK n \in 1 .. N : \E j \in 1 .. Len(q[n]) : i = p[n - 1] + j
    BY <2>1 DEF Covers
  <2>3. PICK j \in 1 .. Len(q[n]) : i = p[n - 1] + j
    BY <2>2
  <2>4. n \in 1 .. M /\ n - 1 \in 0 .. M /\ n - 1 <= N /\ t[n] = q[n]
    OBVIOUS
  <2>5. o[n - 1] = p[n - 1]
    BY <1>3, <2>4
  <2>6. FlattenSeq(q)[p[n - 1] + j] = q[n][j]
    BY <1>1 DEF Places
  <2>7. FlattenSeq(t)[o[n - 1] + j] = t[n][j]
    <3>1. j \in 1 .. Len(t[n])
      BY <2>4
    <3> QED
      BY ONLY <1>2, <2>4, <3>1 DEF Places
  <2> QED
    BY <2>3, <2>4, <2>5, <2>6, <2>7
<1>7. FlattenSeq(q) \in Seq(S) /\ FlattenSeq(t) \in Seq(S)
  BY Flattened
<1> DEFINE y == FlattenSeq(q)
           z == FlattenSeq(t)
<1> HIDE DEF y, z
<1>8. y \in Seq(S) /\ z \in Seq(S) /\ Len(y) = p[N] /\ Len(z) = p[N]
      /\ \A i \in 1 .. p[N] : z[i] = y[i]
  BY <1>5, <1>6, <1>7 DEF y, z
<1>9. z = y
  BY ONLY <1>8
<1> QED
  BY <1>9 DEF y, z

(* What a reader of r has read, as far as c knows it.                       *)
Common(c, r, m) ==
    [val     |-> [n \in DOMAIN Fields[c] |->
                    IF n \in Known(c, r) THEN m.val[n] ELSE Default(c).val[n]],
     unknown |-> <<>>]

(* Fields with their default are not written.                               *)
LEMMA DefaultIsAbsent ==
  ASSUME NEW c \in Classes, NEW m, NEW n \in DOMAIN Fields[c],
         m.val[n] = Default(c).val[n]
  PROVE  Values(c, m, n) = <<>> /\ WrittenOf(c, m, n) = <<>>
<1> DEFINE D(k) == IF Boxed(c, k) THEN <<>> ELSE Zero(Fields[c][k])
<1>1. Default(c) = [val |-> [k \in DOMAIN Fields[c] |-> D(k)], unknown |-> <<>>]
  BY DEF Default
<1>2. Default(c).val[n] = D(n)
  BY <1>1
<1>3. Values(c, m, n) = <<>>
  BY <1>2 DEF Values
<1>4. DOMAIN <<>> = {}
  OBVIOUS
<1> QED
  BY <1>3, <1>4 DEF WrittenOf

(* That is a message of c.                                                  *)
LEMMA CommonIs ==
  ASSUME NEW c \in Classes, NEW r \in Classes, c # r, Agree(c, r), NEW m
  PROVE  /\ Formed(c, Common(c, r, m)) /\ IsMsg(c, Common(c, r, m))
         /\ Common(c, r, m).unknown = <<>>
         /\ \A n \in Known(c, r) : Common(c, r, m).val[n] = m.val[n]
         /\ \A n \in DOMAIN Fields[c] \ Known(c, r) :
              Common(c, r, m).val[n] = Default(c).val[n]
<1> DEFINE V == DOMAIN Fields[c]
           B(n) == IF n \in Known(c, r) THEN m.val[n] ELSE Default(c).val[n]
           b == Common(c, r, m)
<1>1. b = [val |-> [n \in V |-> B(n)], unknown |-> <<>>]
  BY DEF Common
<1>2. Known(c, r) \subseteq V
  BY DEF Known
<1>3. \A n \in V : b.val[n] = B(n)
  BY <1>1
<1>4. b = [val |-> b.val, unknown |-> <<>>] /\ b.val = [n \in V |-> b.val[n]]
  <2> HIDE DEF B, b
  <2> QED
    BY <1>1
<1>5. \A n \in V : Boxed(c, n) => n \notin Known(c, r)
  BY KnownAreScalars
<1>6. \A n \in V : Boxed(c, n) => b.val[n] = Default(c).val[n]
  BY <1>3, <1>5
<1>7. \A n \in V : Boxed(c, n) => Default(c).val[n] = <<>>
  BY DEF Default
<1>8. OneofData(c) \subseteq V /\ \A n \in OneofData(c) : Boxed(c, n)
  BY OneofInBroadCast DEF Boxed
<1>9. <<>> \in Seq({})
  OBVIOUS
<1> HIDE DEF b
<1>10. Shape(c, b)
  BY <1>4, <1>6, <1>7, <1>8, <1>9 DEF Shape
<1>11. ASSUME NEW n \in V, IsMessage(Fields[c][n]), NEW i \in DOMAIN b.val[n]
       PROVE  FALSE
  <2>1. b.val[n] = <<>>
    BY <1>6, <1>7, <1>11 DEF Boxed
  <2>2. DOMAIN <<>> = {}
    OBVIOUS
  <2> QED
    BY <1>11, <2>1, <2>2
<1>12. Formed(c, b)
  BY <1>10, <1>11, FormedUnfolds
<1> QED
  BY <1>1, <1>2, <1>3, <1>4, <1>12 DEF IsMsg, b

(* Sequences of no and of one element.                                      *)
LEMMA OneTuple == DOMAIN <<>> = {} /\ \A v : DOMAIN <<v>> = {1} /\ <<v>>[1] = v
  OBVIOUS

(* No text in it is bad, as the reader of r has read all of them.           *)
LEMMA CommonText ==
  ASSUME NEW c \in Classes, NEW r \in Classes, c # r, Agree(c, r), NEW m,
         \A n \in Known(c, r) :
           Fields[c][n] = "string" /\ m.val[n] # "" => IsUtf8(m.val[n])
  PROVE  NoBadText(c, Common(c, r, m))
<1> DEFINE b == Common(c, r, m)
<1>1. /\ Formed(c, b)
      /\ \A n \in Known(c, r) : b.val[n] = m.val[n]
      /\ \A n \in DOMAIN Fields[c] \ Known(c, r) : b.val[n] = Default(c).val[n]
  BY CommonIs
<1> HIDE DEF b
<1>2. ASSUME NEW n \in DOMAIN Fields[c], NEW j \in DOMAIN Values(c, b, n)
      PROVE  ~BadValue(Fields[c][n], Values(c, b, n)[j])
  <2>1. DOMAIN Values(c, b, n) # {} /\ DOMAIN <<>> = {}
    BY <1>2, OneTuple
  <2>2. n \in Known(c, r)
    BY <1>1, <2>1, DefaultIsAbsent
  <2>3. ~Boxed(c, n) /\ ~IsMessage(Fields[c][n])
    BY <2>2, KnownAreScalars
  <2>4. Values(c, b, n) = <<b.val[n]>> /\ b.val[n] # Zero(Fields[c][n])
    BY <2>1, <2>3 DEF Values
  <2>6. Values(c, b, n)[j] = b.val[n]
    BY <1>2, <2>4, OneTuple
  <2>7. Fields[c][n] = "string" => IsUtf8(b.val[n])
    BY <1>1, <2>2, <2>4 DEF Zero
  <2> QED
    BY <2>3, <2>6, <2>7 DEF BadValue
<1>3. ~HasBadText(Serialize(c, b))
  BY <1>1, <1>2, BadTextUnfolds
<1> QED
  BY <1>1, <1>3 DEF NoBadText, b

(* What the reader of r writes again is what c would write of it, and what it *)
(* did not know.                                                            *)
LEMMA CommonWritten ==
  ASSUME NEW c \in Classes, NEW r \in Classes, c # r, Agree(c, r), NEW m,
         \A n \in DOMAIN Fields[r] \ Known(c, r) : m.val[n] = Default(r).val[n]
  PROVE  /\ Serialize(r, m) = Serialize(c, Common(c, r, m)) \o m.unknown
         /\ \E S : Serialize(c, Common(c, r, m)) \in Seq(S)
<1> DEFINE b == Common(c, r, m)
           K == Known(c, r)
           Q(n) == IF n \in K THEN WrittenOf(c, b, n) ELSE <<>>
           S == {WrittenOf(c, b, n)[1] : n \in K}
           N == Len(Fields[c])
           M == Len(Fields[r])
           q == [n \in 1 .. N |-> Q(n)]
           t == [n \in 1 .. M |-> Q(n)]
<1>1. /\ Formed(c, b) /\ b.unknown = <<>>
      /\ \A n \in K : b.val[n] = m.val[n]
      /\ \A n \in DOMAIN Fields[c] \ K : b.val[n] = Default(c).val[n]
  BY CommonIs
<1> HIDE DEF b
<1>2. /\ N \in Nat \ {0} /\ M \in Nat \ {0}
      /\ DOMAIN Fields[c] = 1 .. N /\ DOMAIN Fields[r] = 1 .. M
  <2>1. N \in 1 .. 7 /\ DOMAIN Fields[c] = 1 .. N
    BY ClassTable, Zenon
  <2>2. M \in 1 .. 7 /\ DOMAIN Fields[r] = 1 .. M
    BY ClassTable, Zenon
  <2> HIDE DEF N, M
  <2> QED
    BY <2>1, <2>2
<1>3. K \subseteq 1 .. N /\ K \subseteq 1 .. M
  BY <1>2 DEF Known
<1>4. ASSUME NEW n \in K
      PROVE  /\ WrittenOf(r, m, n) = WrittenOf(c, b, n)
             /\ WrittenOf(c, b, n) = <<>>
                  \/ WrittenOf(c, b, n) = <<WrittenOf(c, b, n)[1]>>
  <2>1. /\ Tags[r][n] = Tags[c][n] /\ Fields[r][n] = Fields[c][n]
        /\ ~Boxed(c, n) /\ ~Boxed(r, n)
    BY KnownAreScalars
  <2>2. Values(r, m, n) = Values(c, b, n)
    BY <1>1, <2>1 DEF Values
  <2> DEFINE F(i) == Field(c, n, PayloadOf(Fields[c][n], Values(c, b, n)[i]))
             H(i) == Field(r, n, PayloadOf(Fields[r][n], Values(r, m, n)[i]))
             D == DOMAIN Values(c, b, n)
  <2>3. \A i \in D : F(i) = H(i)
    BY <2>1, <2>2 DEF Field
  <2>4. WrittenOf(c, b, n) = [i \in D |-> F(i)]
    BY DEF WrittenOf
  <2>5. WrittenOf(r, m, n) = [i \in D |-> H(i)]
    BY <2>2 DEF WrittenOf
  <2>6. Values(c, b, n) = <<>> \/ Values(c, b, n) = <<b.val[n]>>
    BY <2>1 DEF Values
  <2>7. D = {} \/ D = {1}
    BY <2>6, OneTuple
  <2> HIDE DEF F, H, D
  <2>8. WrittenOf(r, m, n) = WrittenOf(c, b, n)
    BY <2>3, <2>4, <2>5
  <2> DEFINE x == [i \in D |-> F(i)]
  <2>9. x = <<>> \/ x = <<x[1]>>
    <3>1. CASE D = {}
      <4>1. x = <<>>
        BY <3>1
      <4> QED
        BY <4>1
    <3>2. CASE D = {1}
      <4>1. x = <<F(1)>> /\ x[1] = F(1)
        BY <3>2
      <4> HIDE DEF x
      <4> QED
        BY <4>1
    <3> QED
      BY <2>7, <3>1, <3>2
  <2> HIDE DEF x
  <2>10. WrittenOf(c, b, n) = x
    BY <2>4 DEF x
  <2> QED
    BY <2>8, <2>9, <2>10
<1>5. ASSUME NEW n PROVE Q(n) \in Seq(S)
  <2>1. CASE n \notin K
    <3>1. <<>> \in Seq(S)
      OBVIOUS
    <3> QED
      BY <2>1, <3>1
  <2>2. CASE n \in K
    <3> DEFINE e == WrittenOf(c, b, n)[1]
    <3>1. e \in S
      BY <2>2
    <3>2. Q(n) = <<>> \/ Q(n) = <<e>>
      BY <1>4, <2>2
    <3> HIDE DEF S, e, Q
    <3>3. <<>> \in Seq(S) /\ <<e>> \in Seq(S)
      BY <3>1
    <3> QED
      BY <3>2, <3>3
  <2> QED
    BY <2>1, <2>2
<1>6. \A n \in 1 .. N : WrittenOf(c, b, n) = Q(n)
  BY <1>1, <1>2, DefaultIsAbsent
<1>7. \A n \in 1 .. M : WrittenOf(r, m, n) = Q(n)
  BY <1>2, <1>4, DefaultIsAbsent
<1>8. Serialize(c, b) = FlattenSeq(q) \o <<>>
  <2> DEFINE A(n) == WrittenOf(c, b, n)
  <2>1. Serialize(c, b) = FlattenSeq([n \in 1 .. N |-> A(n)]) \o <<>>
    BY <1>1, <1>2, SerializeUnfolds
  <2>2. \A n \in 1 .. N : A(n) = Q(n)
    BY <1>6
  <2> HIDE DEF A, Q
  <2>3. [n \in 1 .. N |-> A(n)] = q
    BY <2>2
  <2> QED
    BY <2>1, <2>3
<1>9. Serialize(r, m) = FlattenSeq(t) \o m.unknown
  <2> DEFINE A(n) == WrittenOf(r, m, n)
  <2>1. Serialize(r, m) = FlattenSeq([n \in 1 .. M |-> A(n)]) \o m.unknown
    BY <1>2, SerializeUnfolds
  <2>2. \A n \in 1 .. M : A(n) = Q(n)
    BY <1>7
  <2> HIDE DEF A, Q
  <2>3. [n \in 1 .. M |-> A(n)] = t
    BY <2>2
  <2> QED
    BY <2>1, <2>3
<1>10. q \in [1 .. N -> Seq(S)] /\ t \in [1 .. M -> Seq(S)]
  <2> HIDE DEF Q, S
  <2> QED
    BY <1>5
<1>11. /\ \A n \in 1 .. N : n > M => q[n] = <<>>
       /\ \A n \in 1 .. M : n > N => t[n] = <<>>
       /\ \A n \in 1 .. N : n \in 1 .. M => q[n] = t[n]
  BY <1>2, <1>3
<1> HIDE DEF N, M, q, t, S, K, Q
<1>12. FlattenSeq(t) = FlattenSeq(q)
  <2>1. CASE N <= M
    <3>1. EndsEmpty(q, t, N, M, S)
      BY <1>2, <1>10, <1>11, <2>1 DEF EndsEmpty
    <3> QED
      BY <3>1, EmptyFlattens
  <2>2. CASE M <= N
    <3>1. EndsEmpty(t, q, M, N, S)
      BY <1>2, <1>10, <1>11, <2>2 DEF EndsEmpty
    <3> QED
      BY <3>1, EmptyFlattens
  <2> QED
    BY <1>2, <2>1, <2>2
<1>13. FlattenSeq(q) \in Seq(S)
  BY <1>2, <1>10, Flattened
<1> DEFINE z == FlattenSeq(q)
<1> HIDE DEF z
<1>14. z \in Seq(S) /\ Serialize(c, b) = z \o <<>>
  BY <1>8, <1>13 DEF z
<1>15. Serialize(c, b) = z
  BY <1>14
<1> QED
  BY <1>9, <1>12, <1>14, <1>15 DEF z, b

(* The bytes that a reader of another version writes again are read as the  *)
(* bytes it got.                                                            *)
LEMMA WrittenAgain ==
  ASSUME NEW c \in Classes, NEW r \in Classes, c # r, Agree(c, r), NEW S,
         NEW w \in Seq(S), \A i \in 1 .. Len(w) : w[i].tag \in Range(Tags[c]),
         ParseFromString(r, w).ok
  PROVE  LET a     == ParseFromString(c, w)
             again == ParseFromString(c, Serialize(r, ParseFromString(r, w).m))
         IN  (again.ok <=> a.ok) /\ (again.ok => again.m = a.m)
<1> DEFINE x == ParseFromString(r, w)
           a == ParseFromString(c, w)
           m == x.m
           u == m.unknown
           b == Common(c, r, m)
           s == Serialize(c, b)
           g == ParseInto(c, b, u)
           again == ParseFromString(c, Serialize(r, m))
<1>1. /\ Formed(c, b) /\ IsMsg(c, b) /\ b.unknown = <<>>
      /\ \A n \in Known(c, r) : b.val[n] = m.val[n]
      /\ \A n \in DOMAIN Fields[c] \ Known(c, r) : b.val[n] = Default(c).val[n]
  <2> HIDE DEF m
  <2> QED
    BY CommonIs
<1>2. u \in Seq(S) /\ SideBySide(c, r, b, x, a, g)
  <2> HIDE DEF b
  <2> QED
    BY <1>1, SideBySideRuns
<1> HIDE DEF x, a, g
<1>3. /\ \A n \in DOMAIN Fields[r] \ Known(c, r) : m.val[n] = Default(r).val[n]
      /\ \A n \in Known(c, r) :
           Fields[c][n] = "string" /\ m.val[n] # "" => IsUtf8(m.val[n])
  BY <1>2 DEF SideBySide
<1> HIDE DEF m
<1>4. NoBadText(c, b)
  BY <1>3, CommonText
<1>5. Serialize(r, m) = s \o u /\ \E T : s \in Seq(T)
  BY <1>3, CommonWritten
<1>6. PICK T : s \in Seq(T)
  BY <1>5
<1> HIDE DEF b
<1>7. ParseInto(c, Default(c), s).ok /\ ParseInto(c, Default(c), s).m = b
  BY <1>1, <1>4, ReadBack DEF NoBadText, ParseFromString
<1> HIDE DEF s, u
<1>8. again = ParseInto(c, b, u)
  <2> DEFINE X == S \cup T
  <2>1. s \in Seq(X) /\ u \in Seq(X)
    BY <1>2, <1>6
  <2> HIDE DEF X
  <2>2. ParseInto(c, Default(c), s \o u)
          = ParseInto(c, ParseInto(c, Default(c), s).m, u)
    BY <1>7, <2>1, ParseJoined
  <2> QED
    BY <1>5, <1>7, <2>2 DEF ParseFromString
<1>9. again = g
  BY <1>8 DEF g
<1>10. a.ok <=> again.ok
  BY <1>2, <1>9 DEF SideBySide
<1>11. ASSUME a.ok PROVE a.m = g.m
  <2> DEFINE p == a.m
             o == g.m
             V == DOMAIN Fields[c]
  <2>1. /\ p = [val |-> p.val, unknown |-> <<>>] /\ o = [val |-> o.val, unknown |-> <<>>]
        /\ p.val = [k \in V |-> p.val[k]] /\ o.val = [k \in V |-> o.val[k]]
    BY <1>2, <1>11 DEF SideBySide, IsMsg
  <2>2. \A k \in V : p.val[k] = o.val[k]
    BY <1>1, <1>2, <1>11 DEF SideBySide, m
  <2>3. p.val = o.val
    <3> HIDE DEF p, o, V
    <3> QED
      BY <2>1, <2>2
  <2> HIDE DEF p, o, V
  <2>4. p = o
    BY <2>1, <2>3
  <2> QED
    BY <2>4 DEF p, o
<1> HIDE DEF again
<1>12. (again.ok <=> a.ok) /\ (again.ok => again.m = a.m)
  BY <1>9, <1>10, <1>11
<1> QED
  BY <1>12 DEF again, a, m, x

-----------------------------------------------------------------------------
(* What UnknownSurvives needs beside MsgInv: the wire holds fields of the   *)
(* writer only, messages without bad text merge into one without, and a     *)
(* reader of another class understands the writer's.                        *)
TagsInv == \A i \in 1 .. Len(wire) : wire[i].tag \in Range(Tags[kind])
TextInv == ~HasBadText(wire) => NoBadText(kind, sent)
PeerInv == /\ got.ok => reader \in Classes
           /\ reader \in Classes => reader = kind \/ Understands(reader)
SurviveInv == MsgInv /\ TagsInv /\ TextInv /\ PeerInv

(* The invariant holds at the start.                                        *)
LEMMA SurviveInvInit == MsgInit => SurviveInv
<1> SUFFICES ASSUME MsgInit PROVE SurviveInv
  OBVIOUS
<1>1. kind \in Classes
  BY MessageConstants DEF MsgInit
<1>2. MsgInv
  BY MsgInvInit
<1>3. TagsInv
  BY DEF MsgInit, TagsInv
<1>4. TextInv
  BY <1>1, DefaultText DEF MsgInit, TextInv
<1>5. PeerInv
  BY MessageConstants DEF MsgInit, PeerInv
<1> QED
  BY <1>2, <1>3, <1>4, <1>5 DEF SurviveInv

(* Writing one message more keeps it.                                       *)
LEMMA SendKeepsSurvive ==
  ASSUME SurviveInv, Send
  PROVE  TagsInv' /\ TextInv'
<1> DEFINE w == Serialize(kind, msg)
           new == MergeFrom(kind, sent, msg)
<1>1. kind' = kind /\ wire' = wire \o w /\ sent' = new
  BY DEF Send
<1>2. kind \in Classes /\ Formed(kind, msg) /\ Shape(kind, msg)
  BY FormedUnfolds DEF SurviveInv, MsgInv, WireInv
<1>3. PICK S1 : wire \in Seq(S1)
  BY DEF SurviveInv, MsgInv, WireInv
<1>4. PICK S2 : w \in Seq(S2)
  BY <1>2, SerializedFields
<1>5. \A i \in DOMAIN w : w[i].tag \in Range(Tags[kind])
  <2> SUFFICES ASSUME NEW i \in DOMAIN w PROVE w[i].tag \in Range(Tags[kind])
    OBVIOUS
  <2>1. PICK n \in DOMAIN Fields[kind] : \E j \in DOMAIN Values(kind, msg, n) :
               w[i] = Element(kind, msg, n, j)
    BY <1>2, SerializedFields
  <2>2. w[i].tag = Tags[kind][n]
    BY <1>2, <2>1, ElementIs
  <2> QED
    BY <1>2, <2>2, ClassTable DEF Range
<1>6. ~HasBadText(wire) /\ ~HasBadText(w) => NoBadText(kind, new)
  BY <1>2, MergedText DEF SurviveInv, TextInv, NoBadText
<1> HIDE DEF w, new
<1> DEFINE S == S1 \cup S2
<1>7. wire \in Seq(S) /\ w \in Seq(S)
  BY <1>3, <1>4
<1> HIDE DEF S
<1>8. HasBadText(wire \o w) <=> HasBadText(wire) \/ HasBadText(w)
  BY <1>7, BadTextJoined
<1>9. \A i \in 1 .. Len(wire \o w) : (wire \o w)[i].tag \in Range(Tags[kind])
  <2> SUFFICES ASSUME NEW i \in 1 .. Len(wire \o w)
               PROVE  (wire \o w)[i].tag \in Range(Tags[kind])
    OBVIOUS
  <2>1. \/ i \in 1 .. Len(wire) /\ (wire \o w)[i] = wire[i]
        \/ i - Len(wire) \in DOMAIN w /\ (wire \o w)[i] = w[i - Len(wire)]
    BY <1>7
  <2> QED
    BY <1>5, <2>1 DEF SurviveInv, TagsInv
<1> QED
  BY <1>1, <1>6, <1>8, <1>9 DEF TagsInv, TextInv

(* So does every step.                                                      *)
LEMMA SurviveInvNext == SurviveInv /\ [MsgNext]_msgVars => SurviveInv'
<1> SUFFICES ASSUME SurviveInv, [MsgNext]_msgVars PROVE SurviveInv'
  OBVIOUS
<1>0. MsgInv'
  BY MsgInvNext DEF SurviveInv
<1> SUFFICES (TagsInv /\ TextInv /\ PeerInv)'
  BY <1>0 DEF SurviveInv
<1> USE DEF SurviveInv
<1>1. CASE UNCHANGED msgVars
  BY <1>1 DEF msgVars, TagsInv, TextInv, PeerInv, Understands
<1>2. CASE InitProtoRegistry
  BY <1>2 DEF InitProtoRegistry, TagsInv, TextInv, PeerInv, Understands
<1>3. CASE Edit
  BY <1>3 DEF Edit, TagsInv, TextInv, PeerInv, Understands
<1>4. CASE Clear
  BY <1>4 DEF Clear, TagsInv, TextInv, PeerInv, Understands
<1>5. CASE Send
  <2>1. TagsInv' /\ TextInv'
    BY <1>5, SendKeepsSurvive
  <2>2. PeerInv'
    BY <1>5, MessageConstants DEF Send, NotRead, PeerInv
  <2> QED
    BY <2>1, <2>2
<1>6. CASE ReadByType
  BY <1>6, MessageConstants DEF ReadByType, ReadAs, TagsInv, TextInv, PeerInv, Understands
<1>7. CASE ReadById
  <2>1. CreateMessage(MsgId(kind)) = kind /\ kind \in Classes
    BY <1>7, FoundById DEF ReadById, MsgInv, WireInv
  <2> QED
    BY <1>7, <2>1 DEF ReadById, ReadAs, TagsInv, TextInv, PeerInv
<1> QED
  BY <1>1, <1>2, <1>3, <1>4, <1>5, <1>6, <1>7 DEF MsgNext

(* A reader with other fields than the writer keeps what it does not know,  *)
(* and what it writes again is read as what was sent: the unknown fields of *)
(* _InternalParse and _InternalSerialize lose nothing, whatever the two     *)
(* classes, the values and the number of messages.                          *)
THEOREM MessagesUnknownSurvives == MsgSpec => []UnknownSurvives
<1>1. SurviveInv => UnknownSurvives
  <2> SUFFICES ASSUME SurviveInv, got.ok
               PROVE  LET again == ParseFromString(kind, Serialize(reader, got.m))
                      IN  /\ again.ok <=> ~HasBadText(wire)
                          /\ again.ok => again.m = sent
    BY DEF UnknownSurvives
  <2>1. /\ kind \in Classes /\ Formed(kind, sent)
        /\ ParseFromString(kind, wire).ok <=> ~HasBadText(wire)
        /\ ParseFromString(kind, wire).ok => ParseFromString(kind, wire).m = sent
    BY DEF SurviveInv, MsgInv, WireInv
  <2>2. reader \in Classes /\ (reader = kind \/ Understands(reader))
    BY DEF SurviveInv, PeerInv
  <2>3. got = ParseFromString(reader, wire)
    BY <2>2, MessageConstants DEF SurviveInv, MsgInv, ReaderInv
  <2>4. CASE reader = kind
    <3>1. got.m = sent /\ ~HasBadText(wire)
      BY <2>1, <2>3, <2>4
    <3>2. NoBadText(kind, sent)
      BY <3>1 DEF SurviveInv, TextInv
    <3>3. /\ ParseFromString(kind, Serialize(kind, sent)).ok
          /\ ParseFromString(kind, Serialize(kind, sent)).m = sent
      BY <2>1, <3>2, ReadBack DEF NoBadText
    <3> QED
      BY <2>4, <3>1, <3>3
  <2>5. CASE reader # kind
    <3>1. Agree(kind, reader)
      BY <2>2, <2>5 DEF Understands, Agree, Known
    <3>2. PICK S : wire \in Seq(S)
      BY DEF SurviveInv, MsgInv, WireInv
    <3>3. \A i \in 1 .. Len(wire) : wire[i].tag \in Range(Tags[kind])
      BY DEF SurviveInv, TagsInv
    <3>4. ParseFromString(reader, wire).ok
      BY <2>3
    <3> DEFINE a == ParseFromString(kind, wire)
               again == ParseFromString(kind, Serialize(reader, ParseFromString(reader, wire).m))
    <3>5. (again.ok <=> a.ok) /\ (again.ok => again.m = a.m)
      BY <2>1, <2>2, <2>5, <3>1, <3>2, <3>3, <3>4, WrittenAgain
    <3> QED
      BY <2>1, <2>3, <3>5
  <2> QED
    BY <2>4, <2>5
<1> QED
  BY <1>1, SurviveInvInit, SurviveInvNext, PTL DEF MsgSpec

(* A role is listed in its own cell only, and by a count of its own only if *)
(* init has run.                                                            *)
ListsInOrder ==
    \A g \in Cells : \A e \in grids[g] :
        /\ CellOf(e.role) = g
        /\ e.role \in made
        /\ e.own => e.role \in taken

UnmadeAreUndeleted == \A r \in Roles \ made : deletes[r] = 0

WorldInv == /\ WorldTypeOK /\ ListsInOrder
        /\ UnmadeAreUndeleted /\ AddedRolesStayAlive

-----------------------------------------------------------------------------
(* A multiple of n between -n and n is 0.                                   *)
LEMMA SmallMultiple ==
  ASSUME NEW n \in Nat \ {0}, NEW k \in Int, NEW m \in Int,
         k * n = m, -n < m, m < n
  PROVE  k = 0 /\ m = 0
<1>1. CASE k = 0
  BY <1>1, SMT
<1>2. CASE k >= 1
  <2>1. k * n >= n
    BY <1>2, SMT
  <2> QED
    BY <2>1
<1>3. CASE k <= -1
  <2>1. k * n <= -n
    BY <1>3, SMT
  <2> QED
    BY <2>1
<1> QED
  BY <1>1, <1>2, <1>3

(* A cell's number is made of its row and its column.                       *)
LEMMA CellNumber ==
  ASSUME NEW g \in Cells
  PROVE  /\ Row(g) \in 0 .. YCount - 1
         /\ Column(g) \in 0 .. XCount - 1
         /\ g = Row(g) * XCount + Column(g)
<1> USE WorldSizes
<1>1. g \in Nat /\ XCount \in Nat /\ XCount > 0 /\ g < XCount * YCount
  BY SMT DEF Cells
<1>2. /\ Row(g) \in Int /\ Column(g) \in 0 .. XCount - 1
      /\ g = Row(g) * XCount + Column(g)
  BY <1>1, SMT DEF Row, Column
<1>3. Row(g) >= 0
  BY <1>1, <1>2, SMT
<1>4. Row(g) < YCount
  BY <1>1, <1>2, SMT
<1> QED
  BY <1>2, <1>3, <1>4, SMT

(* The difference of two cells' numbers, if it is that of neighbours, is one *)
(* of rows and columns.                                                     *)
LEMMA CellsApart ==
  ASSUME NEW g \in Cells, NEW h \in Cells,
         NEW dx \in {-1, 0, 1}, NEW dy \in {-1, 0, 1},
         Column(g) + dx \in 0 .. XCount - 1
  PROVE  h = g + dx + dy * XCount
           <=> Column(h) = Column(g) + dx /\ Row(h) = Row(g) + dy
<1> DEFINE k == Row(h) - Row(g) - dy
           m == Column(g) + dx - Column(h)
<1>1. /\ Row(g) \in Int /\ Column(g) \in 0 .. XCount - 1
      /\ g = Row(g) * XCount + Column(g)
      /\ Row(h) \in Int /\ Column(h) \in 0 .. XCount - 1
      /\ h = Row(h) * XCount + Column(h)
  BY CellNumber
<1>2. XCount \in Nat \ {0}
  BY WorldSizes
<1>3. k \in Int /\ m \in Int /\ -XCount < m /\ m < XCount
  BY <1>1, <1>2
<1>4. k * XCount = Row(h) * XCount - Row(g) * XCount - dy * XCount
  BY <1>1, <1>2, SMT
<1>5. h = g + dx + dy * XCount <=> k * XCount = m
  <2> DEFINE p == Row(h) * XCount
             q == Row(g) * XCount
             s == dy * XCount
  <2>1. p \in Int /\ q \in Int /\ s \in Int
    BY <1>1, <1>2
  <2>2. k * XCount = p - q - s
    BY <1>4
  <2>3. h = p + Column(h) /\ g = q + Column(g)
    BY <1>1
  <2>4. dy * XCount = s /\ k \in Int
    BY <1>3
  <2>5. k * XCount \in Int
    BY <2>1, <2>2
  <2> HIDE DEF p, q, s, k
  <2>6. h = g + dx + s <=> k * XCount = m
    BY <2>1, <2>2, <2>3, <1>1
  <2> QED
    BY <2>4, <2>6
<1>6. k * XCount = m <=> k = 0 /\ m = 0
  <2>1. ASSUME k * XCount = m PROVE k = 0 /\ m = 0
    <3> HIDE DEF k, m
    <3> QED
      BY <1>2, <1>3, <2>1, SmallMultiple
  <2>2. k = 0 => k * XCount = 0
    BY <1>2, SMT
  <2> QED
    BY <2>1, <2>2
<1>7. k = 0 <=> Row(h) = Row(g) + dy
  BY <1>1
<1>8. m = 0 <=> Column(h) = Column(g) + dx
  BY <1>1
<1> QED
  BY <1>5, <1>6, <1>7, <1>8

(* The cells looked into, as the conditions of get_srd_players give them.   *)
LEMMA RangeOfConcat ==
  ASSUME NEW s \in Seq(Int), NEW t \in Seq(Int)
  PROVE  s \o t \in Seq(Int) /\ Range(s \o t) = Range(s) \cup Range(t)
<1> DEFINE u == s \o t
<1>1. /\ u \in Seq(Int) /\ Len(u) = Len(s) + Len(t)
      /\ DOMAIN u = 1 .. Len(u)
      /\ DOMAIN s = 1 .. Len(s) /\ DOMAIN t = 1 .. Len(t)
      /\ Len(s) \in Nat /\ Len(t) \in Nat
  OBVIOUS
<1>2. \A i \in 1 .. Len(s) : i \in DOMAIN u /\ u[i] = s[i]
  BY <1>1
<1>3. \A i \in 1 .. Len(t) : Len(s) + i \in DOMAIN u /\ u[Len(s) + i] = t[i]
  BY <1>1
<1>4. \A i \in DOMAIN u :
        i \notin 1 .. Len(s) =>
            i - Len(s) \in 1 .. Len(t) /\ u[i] = t[i - Len(s)]
  <2> SUFFICES ASSUME NEW i \in DOMAIN u, i \notin 1 .. Len(s)
               PROVE  i - Len(s) \in 1 .. Len(t) /\ u[i] = t[i - Len(s)]
    OBVIOUS
  <2>1. i - Len(s) \in 1 .. Len(t) /\ i = Len(s) + (i - Len(s))
    BY <1>1
  <2> QED
    BY <1>3, <2>1
<1> HIDE DEF u
<1>5. Range(u) \subseteq Range(s) \cup Range(t)
  <2>1. ASSUME NEW i \in DOMAIN u PROVE u[i] \in Range(s) \cup Range(t)
    BY <1>1, <1>2, <1>4 DEF Range
  <2> QED
    BY <2>1 DEF Range
<1>6. Range(s) \subseteq Range(u)
  <2>1. ASSUME NEW i \in 1 .. Len(s) PROVE s[i] \in Range(u)
    BY <1>2 DEF Range
  <2> QED
    BY <1>1, <2>1 DEF Range
<1>7. Range(t) \subseteq Range(u)
  <2>1. ASSUME NEW i \in 1 .. Len(t) PROVE t[i] \in Range(u)
    BY <1>3 DEF Range
  <2> QED
    BY <1>1, <2>1 DEF Range
<1> QED
  BY <1>1, <1>5, <1>6, <1>7 DEF u

(* The cells of one of the conditions.                                      *)
LEMMA RangeOfOne ==
  ASSUME NEW a \in Int
  PROVE  <<a>> \in Seq(Int) /\ Range(<<a>>) = {a}
BY DEF Range

(* Of one that gives two cells.                                             *)
LEMMA RangeOfTwo ==
  ASSUME NEW a \in Int, NEW b \in Int
  PROVE  <<a, b>> \in Seq(Int) /\ Range(<<a, b>>) = {a, b}
BY DEF Range

(* Of one that does not hold.                                               *)
LEMMA RangeOfNone == << >> \in Seq(Int) /\ Range(<< >>) = {}
BY DEF Range

(* All cells that get_srd_players looks into.                               *)
LEMMA RangeOfLooked ==
  ASSUME NEW g \in Cells
  PROVE  Range(Looked(g)) =
           LET left  == Column(g) > 0
               right == Column(g) < XCount - 1
               up    == Row(g) > 0
               down  == Row(g) < YCount - 1
               If(cond, cells) == IF cond THEN cells ELSE {}
           IN  UNION {If(right /\ down, {g + XCount, g + 1 + XCount}),
                      If(left /\ down, {g - 1 + XCount}),
                      If(right, {g + 1}), If(left, {g - 1}),
                      If(right /\ up, {g + 1 - XCount}),
                      If(left /\ up, {g - XCount, g - 1 - XCount})}
<1> DEFINE left  == Column(g) > 0
           right == Column(g) < XCount - 1
           up    == Row(g) > 0
           down  == Row(g) < YCount - 1
           s1 == IF right /\ down THEN <<g + XCount, g + 1 + XCount>> ELSE <<>>
           s2 == IF left /\ down THEN <<g - 1 + XCount>> ELSE <<>>
           s3 == IF right THEN <<g + 1>> ELSE <<>>
           s4 == IF left THEN <<g - 1>> ELSE <<>>
           s5 == IF right /\ up THEN <<g + 1 - XCount>> ELSE <<>>
           s6 == IF left /\ up THEN <<g - XCount, g - 1 - XCount>> ELSE <<>>
           r1 == IF right /\ down THEN {g + XCount, g + 1 + XCount} ELSE {}
           r2 == IF left /\ down THEN {g - 1 + XCount} ELSE {}
           r3 == IF right THEN {g + 1} ELSE {}
           r4 == IF left THEN {g - 1} ELSE {}
           r5 == IF right /\ up THEN {g + 1 - XCount} ELSE {}
           r6 == IF left /\ up THEN {g - XCount, g - 1 - XCount} ELSE {}
<1>1. g \in Int /\ XCount \in Int
  BY WorldSizes DEF Cells
<1>3. s1 \in Seq(Int) /\ Range(s1) = r1
  <2>1. g + XCount \in Int /\ g + 1 + XCount \in Int
    BY <1>1
  <2>2. CASE right /\ down
    BY <2>1, <2>2, RangeOfTwo
  <2>3. CASE ~(right /\ down)
    BY <2>3, RangeOfNone
  <2> QED
    BY <2>2, <2>3
<1>4. s2 \in Seq(Int) /\ Range(s2) = r2
  <2>1. g - 1 + XCount \in Int
    BY <1>1
  <2>2. CASE left /\ down
    BY <2>1, <2>2, RangeOfOne
  <2>3. CASE ~(left /\ down)
    BY <2>3, RangeOfNone
  <2> QED
    BY <2>2, <2>3
<1>5. s3 \in Seq(Int) /\ Range(s3) = r3
  <2>1. g + 1 \in Int
    BY <1>1
  <2>2. CASE right
    BY <2>1, <2>2, RangeOfOne
  <2>3. CASE ~right
    BY <2>3, RangeOfNone
  <2> QED
    BY <2>2, <2>3
<1>6. s4 \in Seq(Int) /\ Range(s4) = r4
  <2>1. g - 1 \in Int
    BY <1>1
  <2>2. CASE left
    BY <2>1, <2>2, RangeOfOne
  <2>3. CASE ~left
    BY <2>3, RangeOfNone
  <2> QED
    BY <2>2, <2>3
<1>7. s5 \in Seq(Int) /\ Range(s5) = r5
  <2>1. g + 1 - XCount \in Int
    BY <1>1
  <2>2. CASE right /\ up
    BY <2>1, <2>2, RangeOfOne
  <2>3. CASE ~(right /\ up)
    BY <2>3, RangeOfNone
  <2> QED
    BY <2>2, <2>3
<1>8. s6 \in Seq(Int) /\ Range(s6) = r6
  <2>1. g - XCount \in Int /\ g - 1 - XCount \in Int
    BY <1>1
  <2>2. CASE left /\ up
    BY <2>1, <2>2, RangeOfTwo
  <2>3. CASE ~(left /\ up)
    BY <2>3, RangeOfNone
  <2> QED
    BY <2>2, <2>3
<1>9. Looked(g) = s1 \o s2 \o s3 \o s4 \o s5 \o s6
  BY DEF Looked, LookedAround
<1> HIDE DEF s1, s2, s3, s4, s5, s6
<1>10. /\ s1 \o s2 \in Seq(Int)
       /\ Range(s1 \o s2) = r1 \cup r2
  BY <1>3, <1>4, RangeOfConcat
<1>11. /\ s1 \o s2 \o s3 \in Seq(Int)
       /\ Range(s1 \o s2 \o s3) = r1 \cup r2 \cup r3
  BY <1>5, <1>10, RangeOfConcat
<1>12. /\ s1 \o s2 \o s3 \o s4 \in Seq(Int)
       /\ Range(s1 \o s2 \o s3 \o s4) = r1 \cup r2 \cup r3 \cup r4
  BY <1>6, <1>11, RangeOfConcat
<1>13. /\ s1 \o s2 \o s3 \o s4 \o s5 \in Seq(Int)
       /\ Range(s1 \o s2 \o s3 \o s4 \o s5)
            = r1 \cup r2 \cup r3 \cup r4 \cup r5
  BY <1>7, <1>12, RangeOfConcat
<1>14. Range(s1 \o s2 \o s3 \o s4 \o s5 \o s6)
         = r1 \cup r2 \cup r3 \cup r4 \cup r5 \cup r6
  BY <1>8, <1>13, RangeOfConcat
<1>15. Range(Looked(g)) = UNION {r1, r2, r3, r4, r5, r6}
  <2> HIDE DEF r1, r2, r3, r4, r5, r6
  <2> QED
    BY <1>9, <1>14
<1> QED
  BY <1>15

(* Between cells that are not above each other at an edge, looking is being *)
(* next to each other.                                                      *)
LEMMA LookedIsAdjacent ==
  ASSUME NEW g \in Cells, NEW h \in Cells, ~AtEdge(g, h)
  PROVE  h \in Range(Looked(g)) <=> Adjacent(g, h)
<1> DEFINE left  == Column(g) > 0
           right == Column(g) < XCount - 1
           up    == Row(g) > 0
           down  == Row(g) < YCount - 1
           At(dx, dy) == Column(h) = Column(g) + dx /\ Row(h) = Row(g) + dy
<1>1. /\ g \in Int /\ h \in Int /\ XCount \in Nat /\ YCount \in Nat
      /\ Row(g) \in 0 .. YCount - 1 /\ Column(g) \in 0 .. XCount - 1
      /\ Row(h) \in 0 .. YCount - 1 /\ Column(h) \in 0 .. XCount - 1
  BY CellNumber, WorldSizes DEF Cells
<1>2. \A dx, dy \in {-1, 0, 1} :
        Column(g) + dx \in 0 .. XCount - 1 =>
            (h = g + dx + dy * XCount
               <=> Column(h) = Column(g) + dx /\ Row(h) = Row(g) + dy)
  BY CellsApart
<1>3. /\ right => (h = g + 1 + XCount <=> At(1, 1))
      /\ h = g + XCount <=> At(0, 1)
      /\ left => (h = g - 1 + XCount <=> At(-1, 1))
  <2>1. right => (h = g + 1 + 1 * XCount <=> At(1, 1))
    BY <1>1, <1>2
  <2>2. h = g + 0 + 1 * XCount <=> At(0, 1)
    BY <1>1, <1>2
  <2>3. left => (h = g + -1 + 1 * XCount <=> At(-1, 1))
    BY <1>1, <1>2
  <2> QED
    BY <1>1, <2>1, <2>2, <2>3
<1>4. /\ right => (h = g + 1 <=> At(1, 0))
      /\ h = g <=> At(0, 0)
      /\ left => (h = g - 1 <=> At(-1, 0))
  <2>1. right => (h = g + 1 + 0 * XCount <=> At(1, 0))
    BY <1>1, <1>2
  <2>2. h = g + 0 + 0 * XCount <=> At(0, 0)
    BY <1>1, <1>2
  <2>3. left => (h = g + -1 + 0 * XCount <=> At(-1, 0))
    BY <1>1, <1>2
  <2> QED
    BY <1>1, <2>1, <2>2, <2>3
<1>5. /\ right => (h = g + 1 - XCount <=> At(1, -1))
      /\ h = g - XCount <=> At(0, -1)
      /\ left => (h = g - 1 - XCount <=> At(-1, -1))
  <2>1. right => (h = g + 1 + (-1) * XCount <=> At(1, -1))
    BY <1>1, <1>2
  <2>2. h = g + 0 + (-1) * XCount <=> At(0, -1)
    BY <1>1, <1>2
  <2>3. left => (h = g + -1 + (-1) * XCount <=> At(-1, -1))
    BY <1>1, <1>2
  <2> QED
    BY <1>1, <2>1, <2>2, <2>3
<1>6. h \in Range(Looked(g)) <=>
        \/ right /\ down /\ (At(0, 1) \/ At(1, 1))
        \/ left /\ down /\ At(-1, 1)
        \/ right /\ At(1, 0)
        \/ left /\ At(-1, 0)
        \/ right /\ up /\ At(1, -1)
        \/ left /\ up /\ (At(0, -1) \/ At(-1, -1))
  <2> HIDE DEF At
  <2>1. h \in Range(Looked(g)) <=>
          \/ right /\ down /\ (h = g + XCount \/ h = g + 1 + XCount)
          \/ left /\ down /\ h = g - 1 + XCount
          \/ right /\ h = g + 1
          \/ left /\ h = g - 1
          \/ right /\ up /\ h = g + 1 - XCount
          \/ left /\ up /\ (h = g - XCount \/ h = g - 1 - XCount)
    BY RangeOfLooked
  <2> HIDE DEF left, right, up, down
  <2> QED
    BY <2>1, <1>3, <1>4, <1>5
<1>7. ~(Column(g) = Column(h) /\ (Column(g) = 0 \/ Column(g) = XCount - 1))
  BY DEF AtEdge
<1>8. Adjacent(g, h) <=>
        /\ ~At(0, 0)
        /\ Column(g) - Column(h) \in -1 .. 1
        /\ Row(g) - Row(h) \in -1 .. 1
  BY <1>4 DEF Adjacent
<1>9. h \in Range(Looked(g)) => Adjacent(g, h)
  BY <1>1, <1>6, <1>8
<1>10. ASSUME Adjacent(g, h) PROVE h \in Range(Looked(g))
  <2>1. PICK dx \in {-1, 0, 1}, dy \in {-1, 0, 1} :
            At(dx, dy) /\ ~(dx = 0 /\ dy = 0)
    <3>1. Column(h) - Column(g) \in -1 .. 1 /\ Row(h) - Row(g) \in -1 .. 1
      BY <1>1, <1>8, <1>10
    <3>2. At(Column(h) - Column(g), Row(h) - Row(g))
      BY <1>1
    <3> QED
      BY <3>1, <3>2, <1>8, <1>10
  <2>2. CASE dx = 0
    <3>1. left /\ right /\ (dy = 1 \/ dy = -1)
      BY <1>1, <1>7, <2>1, <2>2
    <3> QED
      BY <1>1, <1>6, <2>1, <2>2, <3>1
  <2>3. CASE dx = 1
    <3>1. right /\ (dy = 1 => down) /\ (dy = -1 => up)
      BY <1>1, <2>1, <2>3
    <3> QED
      BY <1>6, <2>1, <2>3, <3>1
  <2>4. CASE dx = -1
    <3>1. left /\ (dy = 1 => down) /\ (dy = -1 => up)
      BY <1>1, <2>1, <2>4
    <3> QED
      BY <1>6, <2>1, <2>4, <3>1
  <2> QED
    BY <2>2, <2>3, <2>4
<1> QED
  BY <1>9, <1>10

-----------------------------------------------------------------------------
(* Nothing is listed, held or deleted at the start.                         *)
LEMMA WorldInvInit == WorldInit => WorldInv
<1> SUFFICES ASSUME WorldInit PROVE WorldInv
  OBVIOUS
<1>1. WorldTypeOK
  BY DEF WorldInit, WorldTypeOK
<1>2. ListsInOrder
  BY DEF WorldInit, ListsInOrder
<1>3. AddedRolesStayAlive
  BY DEF WorldInit, AddedRolesStayAlive
<1>4. UnmadeAreUndeleted
  BY DEF WorldInit, UnmadeAreUndeleted
<1> QED
  BY <1>1, <1>2, <1>3, <1>4 DEF WorldInv

(* The counts that go with the entries of a role are a number.              *)
LEMMA OwnEntriesFinite ==
  ASSUME WorldTypeOK, NEW r \in Roles, CellOf(r) \in Cells
  PROVE  Cardinality(OwnEntries(r)) \in Nat
<1> DEFINE T == OwnEntries(r)
           f == [e \in T |-> e.at]
<1>1. T \subseteq Entries /\ \A e \in T : e.role = r /\ e.own = TRUE
  BY DEF OwnEntries, WorldTypeOK, Entries
<1>2. \A d, e \in T : d.at = e.at => d = e
  BY <1>1 DEF Entries
<1>3. \A e \in T : e.at \in 1 .. MaxPlaces
  BY <1>1 DEF Entries
<1> HIDE DEF T
<1>4. f \in Injection(T, 1 .. MaxPlaces)
  BY <1>2, <1>3 DEF Injection, IsInjective
<1>5. IsFiniteSet(1 .. MaxPlaces)
  BY WorldSizes, FS_Interval
<1>6. IsFiniteSet(T)
  BY <1>4, <1>5, FS_Injection
<1> QED
  BY <1>6, FS_CardinalityType DEF T

(* Adding a role, or removing it, leaves the entries of the others.         *)
LEMMA OthersStayListed ==
  ASSUME WorldTypeOK, NEW r \in Roles, NEW s \in Roles, s # r,
         \/ \E own \in BOOLEAN : Listed(r, own)
         \/ \E more \in {0, 1} : Unlisted(r, more)
         \/ UNCHANGED grids
  PROVE  IsListed(s)' <=> IsListed(s)
<1>1. \A g \in Cells : \A e :
        e.role = s => (e \in grids'[g] <=> e \in grids[g])
  <2>1. CASE \E own \in BOOLEAN : Listed(r, own)
    BY <2>1 DEF Listed, WorldTypeOK
  <2>2. CASE \E more \in {0, 1} : Unlisted(r, more)
    BY <2>2 DEF Unlisted, WorldTypeOK
  <2>3. CASE UNCHANGED grids
    BY <2>3
  <2> QED
    BY <2>1, <2>2, <2>3
<1> QED
  BY <1>1 DEF IsListed, ListedBy

(* Roles other than r as they were, and r as it must be.                    *)
LEMMA OneByOne ==
  ASSUME AddedRolesStayAlive, NEW r \in Roles, made' \subseteq Roles,
         \A s \in Roles \ {r} :
           /\ IsListed(s)' <=> IsListed(s)
           /\ s \in made' <=> s \in made
           /\ s \in held' <=> s \in held
           /\ s \in taken' <=> s \in taken
           /\ deletes'[s] = deletes[s],
         r \in made' \ taken' =>
           deletes'[r] = IF r \in held' \/ IsListed(r)' THEN 0 ELSE 1
  PROVE  AddedRolesStayAlive'
<1> SUFFICES ASSUME NEW s \in made' \ taken'
             PROVE  deletes'[s] = IF s \in held' \/ IsListed(s)' THEN 0 ELSE 1
  BY DEF AddedRolesStayAlive
<1>1. CASE s = r
  BY <1>1
<1>2. CASE s # r
  BY <1>2 DEF AddedRolesStayAlive
<1> QED
  BY <1>1, <1>2

(* Every action keeps the types.                                            *)
LEMMA NextWorldTypeOK ==
  ASSUME WorldInv, [WorldNext]_worldVars
  PROVE  WorldTypeOK'
<1>1. ASSUME NEW r \in Roles, Make(r) PROVE WorldTypeOK'
  BY <1>1
     DEF WorldInv, Make, WorldTypeOK
<1>2. ASSUME NEW r \in Roles, AddPlayer(r) PROVE WorldTypeOK'
  <2>1. CASE CellOf(r) \in Cells
    <3>1. PICK at \in 1 .. MaxPlaces :
            grids' = [grids EXCEPT ![CellOf(r)] =
                        @ \cup {[role |-> r, own |-> FALSE, at |-> at]}]
      BY <1>2, <2>1 DEF AddPlayer, Listed
    <3>2. [role |-> r, own |-> FALSE, at |-> at] \in Entries
      BY DEF Entries
    <3> QED
      BY <1>2, <2>1, <3>1, <3>2 DEF WorldInv, AddPlayer, Usable, Listed,
          WorldTypeOK
  <2>2. CASE CellOf(r) \notin Cells
    BY <1>2, <2>2 DEF WorldInv, AddPlayer, Usable, Listed, WorldTypeOK
  <2> QED
    BY <2>1, <2>2
<1>3. ASSUME NEW r \in Roles, InitRole(r) PROVE WorldTypeOK'
  <2>1. CASE CellOf(r) \in Cells
    <3>1. PICK at \in 1 .. MaxPlaces :
            grids' = [grids EXCEPT ![CellOf(r)] =
                        @ \cup {[role |-> r, own |-> TRUE, at |-> at]}]
      BY <1>3, <2>1 DEF InitRole, Listed
    <3>2. [role |-> r, own |-> TRUE, at |-> at] \in Entries
      BY DEF Entries
    <3> QED
      BY <1>3, <2>1, <3>1, <3>2 DEF WorldInv, InitRole, Usable, Listed, WorldTypeOK
  <2>2. CASE CellOf(r) \notin Cells
    BY <1>3, <2>2 DEF WorldInv, InitRole, Usable, Listed, WorldTypeOK
  <2> QED
    BY <2>1, <2>2
<1>4. ASSUME NEW r \in Roles, DelPlayer(r) PROVE WorldTypeOK'
  <2>1. CASE CellOf(r) \notin Cells
    BY <1>4, <2>1 DEF WorldInv, DelPlayer, Usable, Unlisted, WorldTypeOK
  <2>2. CASE CellOf(r) \in Cells
    <3>1. deletes[r] + Cardinality(OwnEntries(r)) + 0 \in Nat
      BY <2>2, OwnEntriesFinite DEF WorldInv, WorldTypeOK
    <3>2. /\ grids' \in [Cells -> SUBSET Entries]
          /\ deletes' = [deletes EXCEPT ![r] =
                           @ + Cardinality(OwnEntries(r)) + 0]
      BY <1>4, <2>2 DEF WorldInv, DelPlayer, Unlisted, WorldTypeOK
    <3> QED
      BY <1>4, <2>2, <3>1, <3>2
         DEF WorldInv, DelPlayer, Usable, Unlisted, WorldTypeOK
  <2> QED
    BY <2>1, <2>2
<1>5. ASSUME NEW r \in Roles, FiniRole(r) PROVE WorldTypeOK'
  <2>1. CASE CellOf(r) \notin Cells
    BY <1>5, <2>1 DEF WorldInv, FiniRole, Usable, Unlisted, WorldTypeOK
  <2>2. CASE CellOf(r) \in Cells
    <3>1. deletes[r] + Cardinality(OwnEntries(r)) + 1 \in Nat
      BY <2>2, OwnEntriesFinite DEF WorldInv, WorldTypeOK
    <3>2. /\ grids' \in [Cells -> SUBSET Entries]
          /\ deletes' = [deletes EXCEPT ![r] =
                           @ + Cardinality(OwnEntries(r)) + 1]
      BY <1>5, <2>2 DEF WorldInv, FiniRole, Unlisted, WorldTypeOK
    <3> QED
      BY <1>5, <2>2, <3>1, <3>2
         DEF WorldInv, FiniRole, Usable, Unlisted, WorldTypeOK
  <2> QED
    BY <2>1, <2>2
<1>6. ASSUME NEW r \in Roles, Drop(r) PROVE WorldTypeOK'
  <2>1. deletes' \in [Roles -> Nat]
    <3>1. deletes[r] \in Nat /\ deletes[r] + 1 \in Nat
      BY DEF WorldInv, WorldTypeOK
    <3> HIDE DEF ListedBy
    <3> QED
      BY <1>6, <3>1 DEF WorldInv, Drop, WorldTypeOK
  <2> QED
    BY <1>6, <2>1 DEF WorldInv, Drop, WorldTypeOK
<1>7. ASSUME NEW r \in Roles, UseDeleted(r) PROVE WorldTypeOK'
  BY <1>7
     DEF WorldInv, UseDeleted, WorldTypeOK
<1>8. ASSUME NEW r \in Roles, LookAround(r) PROVE WorldTypeOK'
  BY <1>8
     DEF WorldInv, LookAround, Usable, WorldTypeOK
<1>9. ASSUME NEW r \in Roles, CreateSrdPlayers(r) PROVE WorldTypeOK'
  BY <1>9
     DEF WorldInv, CreateSrdPlayers, Usable, WorldTypeOK
<1>10. CASE UNCHANGED worldVars
  BY <1>10 DEF WorldInv, worldVars, WorldTypeOK
<1> QED
  BY <1>1, <1>2, <1>3, <1>4, <1>5, <1>6, <1>7, <1>8, <1>9, <1>10 DEF WorldNext

(* A role is added to its own cell, and removed from no other.              *)
LEMMA NextListsInOrder ==
  ASSUME WorldInv, [WorldNext]_worldVars
  PROVE  ListsInOrder'
<1>1. ASSUME NEW r \in Roles, Make(r) PROVE ListsInOrder'
  BY <1>1
     DEF WorldInv, Make, ListsInOrder, CellOf, WorldTypeOK
<1>2. ASSUME NEW r \in Roles, AddPlayer(r) PROVE ListsInOrder'
  BY <1>2
     DEF WorldInv, AddPlayer, Usable, Listed, ListsInOrder, CellOf, WorldTypeOK
<1>3. ASSUME NEW r \in Roles, InitRole(r) PROVE ListsInOrder'
  BY <1>3
     DEF WorldInv, InitRole, Usable, Listed, ListsInOrder, CellOf, WorldTypeOK
<1>4. ASSUME NEW r \in Roles, DelPlayer(r) PROVE ListsInOrder'
  BY <1>4
     DEF WorldInv, DelPlayer, Usable, Unlisted, ListsInOrder, CellOf, WorldTypeOK
<1>5. ASSUME NEW r \in Roles, FiniRole(r) PROVE ListsInOrder'
  BY <1>5
     DEF WorldInv, FiniRole, Usable, Unlisted, ListsInOrder, CellOf, WorldTypeOK
<1>6. ASSUME NEW r \in Roles, Drop(r) PROVE ListsInOrder'
  BY <1>6
     DEF WorldInv, Drop, ListsInOrder, CellOf, WorldTypeOK
<1>7. ASSUME NEW r \in Roles, UseDeleted(r) PROVE ListsInOrder'
  BY <1>7
     DEF WorldInv, UseDeleted, ListsInOrder, CellOf, WorldTypeOK
<1>8. ASSUME NEW r \in Roles, LookAround(r) PROVE ListsInOrder'
  BY <1>8
     DEF WorldInv, LookAround, Usable, ListsInOrder, CellOf, WorldTypeOK
<1>9. ASSUME NEW r \in Roles, CreateSrdPlayers(r) PROVE ListsInOrder'
  BY <1>9
     DEF WorldInv, CreateSrdPlayers, Usable, ListsInOrder, CellOf, WorldTypeOK
<1>10. CASE UNCHANGED worldVars
  BY <1>10 DEF WorldInv, worldVars, ListsInOrder, CellOf, WorldTypeOK
<1> QED
  BY <1>1, <1>2, <1>3, <1>4, <1>5, <1>6, <1>7, <1>8, <1>9, <1>10 DEF WorldNext

(* Only a role that was made is deleted.                                    *)
LEMMA NextUnmadeAreUndeleted ==
  ASSUME WorldInv, [WorldNext]_worldVars
  PROVE  UnmadeAreUndeleted'
<1>1. ASSUME NEW r \in Roles, Make(r) PROVE UnmadeAreUndeleted'
  BY <1>1
     DEF WorldInv, Make, UnmadeAreUndeleted, WorldTypeOK
<1>2. ASSUME NEW r \in Roles, AddPlayer(r) PROVE UnmadeAreUndeleted'
  BY <1>2
     DEF WorldInv, AddPlayer, Usable, Listed, UnmadeAreUndeleted, WorldTypeOK
<1>3. ASSUME NEW r \in Roles, InitRole(r) PROVE UnmadeAreUndeleted'
  BY <1>3
     DEF WorldInv, InitRole, Usable, Listed, UnmadeAreUndeleted, WorldTypeOK
<1>4. ASSUME NEW r \in Roles, DelPlayer(r) PROVE UnmadeAreUndeleted'
  BY <1>4
     DEF WorldInv, DelPlayer, Usable, Unlisted, UnmadeAreUndeleted, WorldTypeOK
<1>5. ASSUME NEW r \in Roles, FiniRole(r) PROVE UnmadeAreUndeleted'
  BY <1>5
     DEF WorldInv, FiniRole, Usable, Unlisted, UnmadeAreUndeleted, WorldTypeOK
<1>6. ASSUME NEW r \in Roles, Drop(r) PROVE UnmadeAreUndeleted'
  BY <1>6
     DEF WorldInv, Drop, UnmadeAreUndeleted, WorldTypeOK
<1>7. ASSUME NEW r \in Roles, UseDeleted(r) PROVE UnmadeAreUndeleted'
  BY <1>7
     DEF WorldInv, UseDeleted, UnmadeAreUndeleted, WorldTypeOK
<1>8. ASSUME NEW r \in Roles, LookAround(r) PROVE UnmadeAreUndeleted'
  BY <1>8
     DEF WorldInv, LookAround, Usable, UnmadeAreUndeleted, WorldTypeOK
<1>9. ASSUME NEW r \in Roles, CreateSrdPlayers(r) PROVE UnmadeAreUndeleted'
  BY <1>9
     DEF WorldInv, CreateSrdPlayers, Usable, UnmadeAreUndeleted, WorldTypeOK
<1>10. CASE UNCHANGED worldVars
  BY <1>10 DEF WorldInv, worldVars, UnmadeAreUndeleted, WorldTypeOK
<1> QED
  BY <1>1, <1>2, <1>3, <1>4, <1>5, <1>6, <1>7, <1>8, <1>9, <1>10 DEF WorldNext

(* A role that init and fini leave alone is deleted by its last owner only. *)
LEMMA NextAddedRolesStayAlive ==
  ASSUME WorldInv, [WorldNext]_worldVars
  PROVE  AddedRolesStayAlive'
<1>1. ASSUME NEW r \in Roles, Make(r) PROVE AddedRolesStayAlive'
  <2>1. \A s \in Roles \ {r} :
          /\ IsListed(s)' <=> IsListed(s)
          /\ s \in made' <=> s \in made
          /\ s \in held' <=> s \in held
          /\ s \in taken' <=> s \in taken
          /\ deletes'[s] = deletes[s]
    <3> SUFFICES ASSUME NEW s \in Roles \ {r}
                 PROVE  /\ IsListed(s)' <=> IsListed(s)
                        /\ s \in made' <=> s \in made
                        /\ s \in held' <=> s \in held
                        /\ s \in taken' <=> s \in taken
                        /\ deletes'[s] = deletes[s]
      OBVIOUS
    <3>1. IsListed(s)' <=> IsListed(s)
      BY <1>1, OthersStayListed DEF WorldInv, Make
    <3> QED
      BY <1>1, <3>1 DEF WorldInv, Make, WorldTypeOK
  <2>2. r \in made' \ taken' =>
          deletes'[r] = IF r \in held' \/ IsListed(r)' THEN 0 ELSE 1
    <3>1. ~IsListed(r)
      BY <1>1 DEF Make, WorldInv, ListsInOrder, IsListed, ListedBy
    <3>2. IsListed(r)' <=> IsListed(r)
      BY <1>1 DEF Make, IsListed, ListedBy
    <3>3. deletes'[r] = 0 /\ r \in held'
      BY <1>1 DEF Make, WorldInv, UnmadeAreUndeleted
    <3> QED
      BY <3>3
  <2>3. made' \subseteq Roles
    BY <1>1 DEF WorldInv, Make, WorldTypeOK
  <2> QED
    BY <2>1, <2>2, <2>3, OneByOne DEF WorldInv
<1>2. ASSUME NEW r \in Roles, AddPlayer(r) PROVE AddedRolesStayAlive'
  <2>1. \A s \in Roles \ {r} :
          /\ IsListed(s)' <=> IsListed(s)
          /\ s \in made' <=> s \in made
          /\ s \in held' <=> s \in held
          /\ s \in taken' <=> s \in taken
          /\ deletes'[s] = deletes[s]
    <3> SUFFICES ASSUME NEW s \in Roles \ {r}
                 PROVE  /\ IsListed(s)' <=> IsListed(s)
                        /\ s \in made' <=> s \in made
                        /\ s \in held' <=> s \in held
                        /\ s \in taken' <=> s \in taken
                        /\ deletes'[s] = deletes[s]
      OBVIOUS
    <3>1. IsListed(s)' <=> IsListed(s)
      BY <1>2, OthersStayListed DEF WorldInv, AddPlayer
    <3> QED
      BY <1>2, <3>1 DEF WorldInv, AddPlayer, WorldTypeOK
  <2>2. r \in made' \ taken' =>
          deletes'[r] = IF r \in held' \/ IsListed(r)' THEN 0 ELSE 1
    BY <1>2 DEF WorldInv, AddPlayer, Usable, WorldTypeOK
  <2>3. made' \subseteq Roles
    BY <1>2 DEF WorldInv, AddPlayer, WorldTypeOK
  <2> QED
    BY <2>1, <2>2, <2>3, OneByOne DEF WorldInv
<1>3. ASSUME NEW r \in Roles, InitRole(r) PROVE AddedRolesStayAlive'
  <2>1. \A s \in Roles \ {r} :
          /\ IsListed(s)' <=> IsListed(s)
          /\ s \in made' <=> s \in made
          /\ s \in held' <=> s \in held
          /\ s \in taken' <=> s \in taken
          /\ deletes'[s] = deletes[s]
    <3> SUFFICES ASSUME NEW s \in Roles \ {r}
                 PROVE  /\ IsListed(s)' <=> IsListed(s)
                        /\ s \in made' <=> s \in made
                        /\ s \in held' <=> s \in held
                        /\ s \in taken' <=> s \in taken
                        /\ deletes'[s] = deletes[s]
      OBVIOUS
    <3>1. IsListed(s)' <=> IsListed(s)
      BY <1>3, OthersStayListed DEF WorldInv, InitRole
    <3> QED
      BY <1>3, <3>1 DEF WorldInv, InitRole, WorldTypeOK
  <2>2. r \in made' \ taken' =>
          deletes'[r] = IF r \in held' \/ IsListed(r)' THEN 0 ELSE 1
    BY <1>3 DEF WorldInv, InitRole, Usable, WorldTypeOK
  <2>3. made' \subseteq Roles
    BY <1>3 DEF WorldInv, InitRole, WorldTypeOK
  <2> QED
    BY <2>1, <2>2, <2>3, OneByOne DEF WorldInv
<1>4. ASSUME NEW r \in Roles, DelPlayer(r) PROVE AddedRolesStayAlive'
  <2>1. \A s \in Roles \ {r} :
          /\ IsListed(s)' <=> IsListed(s)
          /\ s \in made' <=> s \in made
          /\ s \in held' <=> s \in held
          /\ s \in taken' <=> s \in taken
          /\ deletes'[s] = deletes[s]
    <3> SUFFICES ASSUME NEW s \in Roles \ {r}
                 PROVE  /\ IsListed(s)' <=> IsListed(s)
                        /\ s \in made' <=> s \in made
                        /\ s \in held' <=> s \in held
                        /\ s \in taken' <=> s \in taken
                        /\ deletes'[s] = deletes[s]
      OBVIOUS
    <3>1. IsListed(s)' <=> IsListed(s)
      BY <1>4, OthersStayListed DEF WorldInv, DelPlayer
    <3> QED
      BY <1>4, <3>1 DEF WorldInv, DelPlayer, Unlisted, WorldTypeOK
  <2>2. r \in made' \ taken' =>
          deletes'[r] = IF r \in held' \/ IsListed(r)' THEN 0 ELSE 1
    <3>1. CASE CellOf(r) \in Cells /\ r \notin taken
      <4>1. OwnEntries(r) = {}
        BY <3>1 DEF WorldInv, ListsInOrder, OwnEntries, WorldTypeOK
      <4>2. Cardinality(OwnEntries(r)) = 0
        BY <4>1, FS_EmptySet
      <4> QED
        BY <1>4, <3>1, <4>2 DEF WorldInv, DelPlayer, Usable, Unlisted, WorldTypeOK
    <3>2. CASE CellOf(r) \notin Cells
      BY <1>4, <3>2 DEF DelPlayer, Usable, Unlisted
    <3>3. CASE r \in taken
      BY <1>4, <3>3 DEF DelPlayer
    <3> QED
      BY <3>1, <3>2, <3>3
  <2>3. made' \subseteq Roles
    BY <1>4 DEF WorldInv, DelPlayer, WorldTypeOK
  <2> QED
    BY <2>1, <2>2, <2>3, OneByOne DEF WorldInv
<1>5. ASSUME NEW r \in Roles, FiniRole(r) PROVE AddedRolesStayAlive'
  <2>1. \A s \in Roles \ {r} :
          /\ IsListed(s)' <=> IsListed(s)
          /\ s \in made' <=> s \in made
          /\ s \in held' <=> s \in held
          /\ s \in taken' <=> s \in taken
          /\ deletes'[s] = deletes[s]
    <3> SUFFICES ASSUME NEW s \in Roles \ {r}
                 PROVE  /\ IsListed(s)' <=> IsListed(s)
                        /\ s \in made' <=> s \in made
                        /\ s \in held' <=> s \in held
                        /\ s \in taken' <=> s \in taken
                        /\ deletes'[s] = deletes[s]
      OBVIOUS
    <3>1. IsListed(s)' <=> IsListed(s)
      BY <1>5, OthersStayListed DEF WorldInv, FiniRole
    <3> QED
      BY <1>5, <3>1 DEF WorldInv, FiniRole, Unlisted, WorldTypeOK
  <2>2. r \in made' \ taken' =>
          deletes'[r] = IF r \in held' \/ IsListed(r)' THEN 0 ELSE 1
    BY <1>5 DEF FiniRole
  <2>3. made' \subseteq Roles
    BY <1>5 DEF WorldInv, FiniRole, WorldTypeOK
  <2> QED
    BY <2>1, <2>2, <2>3, OneByOne DEF WorldInv
<1>6. ASSUME NEW r \in Roles, Drop(r) PROVE AddedRolesStayAlive'
  <2>1. \A s \in Roles \ {r} :
          /\ IsListed(s)' <=> IsListed(s)
          /\ s \in made' <=> s \in made
          /\ s \in held' <=> s \in held
          /\ s \in taken' <=> s \in taken
          /\ deletes'[s] = deletes[s]
    <3> SUFFICES ASSUME NEW s \in Roles \ {r}
                 PROVE  /\ IsListed(s)' <=> IsListed(s)
                        /\ s \in made' <=> s \in made
                        /\ s \in held' <=> s \in held
                        /\ s \in taken' <=> s \in taken
                        /\ deletes'[s] = deletes[s]
      OBVIOUS
    <3>1. IsListed(s)' <=> IsListed(s)
      BY <1>6, OthersStayListed DEF WorldInv, Drop
    <3> QED
      BY <1>6, <3>1 DEF WorldInv, Drop, WorldTypeOK
  <2>2. r \in made' \ taken' =>
          deletes'[r] = IF r \in held' \/ IsListed(r)' THEN 0 ELSE 1
    <3>1. r \in made \ taken => ~ListedBy(r, TRUE)
      BY DEF WorldInv, ListsInOrder, ListedBy
    <3>2. IsListed(r)' <=> IsListed(r)
      BY <1>6 DEF Drop, IsListed, ListedBy
    <3>3. r \in made \ taken => deletes[r] = 0
      BY <1>6 DEF WorldInv, AddedRolesStayAlive, Drop
    <3>4. r \in made' \ taken' => r \in made \ taken
      BY <1>6 DEF Drop
    <3>5. CASE ListedBy(r, FALSE)
      <4>1. IsListed(r)'
        BY <3>2, <3>5 DEF IsListed
      <4>2. deletes'[r] = deletes[r]
        BY <1>6, <3>5 DEF Drop, WorldInv, WorldTypeOK
      <4> QED
        BY <3>3, <3>4, <4>1, <4>2
    <3>6. CASE ~ListedBy(r, FALSE)
      <4>1. r \in made' \ taken' => ~IsListed(r)'
        BY <3>1, <3>2, <3>4, <3>6 DEF IsListed
      <4>2. deletes'[r] = deletes[r] + 1 /\ r \notin held'
        BY <1>6, <3>6 DEF Drop, WorldInv, WorldTypeOK
      <4> QED
        BY <3>3, <3>4, <4>1, <4>2
    <3> QED
      BY <3>5, <3>6
  <2>3. made' \subseteq Roles
    BY <1>6 DEF WorldInv, Drop, WorldTypeOK
  <2> QED
    BY <2>1, <2>2, <2>3, OneByOne DEF WorldInv
<1>7. ASSUME NEW r \in Roles, UseDeleted(r) PROVE AddedRolesStayAlive'
  BY <1>7 DEF WorldInv, UseDeleted, AddedRolesStayAlive, IsListed, ListedBy
<1>8. ASSUME NEW r \in Roles, LookAround(r) PROVE AddedRolesStayAlive'
  BY <1>8 DEF WorldInv, LookAround, AddedRolesStayAlive, IsListed, ListedBy
<1>9. ASSUME NEW r \in Roles, CreateSrdPlayers(r) PROVE AddedRolesStayAlive'
  BY <1>9 DEF WorldInv, CreateSrdPlayers, AddedRolesStayAlive, IsListed, ListedBy
<1>10. CASE UNCHANGED worldVars
  BY <1>10 DEF WorldInv, worldVars, AddedRolesStayAlive, IsListed, ListedBy,
      ListsInOrder, CellOf, WorldTypeOK
<1> QED
  BY <1>1, <1>2, <1>3, <1>4, <1>5, <1>6, <1>7, <1>8, <1>9, <1>10 DEF WorldNext

-----------------------------------------------------------------------------
(* The invariant is inductive.                                              *)
LEMMA WorldInvNext == WorldInv /\ [WorldNext]_worldVars => WorldInv'
BY NextWorldTypeOK, NextListsInOrder, NextUnmadeAreUndeleted,
   NextAddedRolesStayAlive DEF WorldInv

(* A role sees whom the cells it looks into list.                           *)
LEMMA SightFromLists ==
  ASSUME WorldInv
  PROVE  SightIsAdjacent
<1> SUFFICES ASSUME NEW r \in Roles, NEW s \in Roles,
                    IsListed(r), IsListed(s), ~AtEdge(CellOf(r), CellOf(s))
             PROVE  s \in Sight(r) <=> Adjacent(CellOf(r), CellOf(s))
  BY DEF SightIsAdjacent
<1>1. CellOf(r) \in Cells
  BY DEF WorldInv, ListsInOrder, IsListed, ListedBy
<1>2. CellOf(s) \in Cells /\ \E e \in grids[CellOf(s)] : e.role = s
  BY DEF WorldInv, ListsInOrder, IsListed, ListedBy
<1>3. s \in Sight(r) <=> CellOf(s) \in Range(Looked(CellOf(r)))
  <2>1. s \in Sight(r) <=>
          \E g \in Cells \cap Range(Looked(CellOf(r))) :
            \E e \in grids[g] : e.role = s
    BY DEF Sight
  <2>2. \A g \in Cells : \A e \in grids[g] : CellOf(e.role) = g
    BY DEF WorldInv, ListsInOrder
  <2> HIDE DEF CellOf
  <2> QED
    BY <1>2, <2>1, <2>2
<1> QED
  BY <1>1, <1>2, <1>3, LookedIsAdjacent

(* Types.                                                                   *)
THEOREM WorldTypeCorrect == WorldSpec => []WorldTypeOK
<1>1. WorldInv => WorldTypeOK
  BY DEF WorldInv
<1> QED
  BY <1>1, WorldInvInit, WorldInvNext, PTL DEF WorldSpec

(* Who is in sight of whom, in a grid of any size and with any players: the *)
(* eight conditions of get_srd_players are those of being next to each other, *)
(* but at the left and right edge.                                          *)
THEOREM WorldSightIsAdjacent == WorldSpec => []SightIsAdjacent
<1>1. WorldInv => SightIsAdjacent
  BY SightFromLists
<1> QED
  BY <1>1, WorldInvInit, WorldInvNext, PTL DEF WorldSpec

(* A role that is only added and removed is deleted by its last owner.      *)
THEOREM WorldKeepsAddedRoles == WorldSpec => []AddedRolesStayAlive
<1>1. WorldInv => AddedRolesStayAlive
  BY DEF WorldInv
<1> QED
  BY <1>1, WorldInvInit, WorldInvNext, PTL DEF WorldSpec

-----------------------------------------------------------------------------
(* The client and the server: every step of the two is one of the world or  *)
(* leaves it alone, create_srd_players being the only other that looks at it. *)
LEMMA StepOfWorld == [Next]_vars => [WorldNext]_worldVars
<1> SUFFICES ASSUME [Next]_vars PROVE [WorldNext]_worldVars
  OBVIOUS
<1>1. CASE UNCHANGED vars
  BY <1>1 DEF vars
<1>2. CASE World
  BY <1>2 DEF World
<1>3. ASSUME NEW s \in Services, NEW k, RegisterService(s, k) PROVE UNCHANGED worldVars
  BY <1>3 DEF RegisterService
<1>4. ASSUME NEW r \in Roles, CallLogin(r) PROVE UNCHANGED worldVars
  BY <1>4 DEF CallLogin
<1>5. ASSUME NEW r \in Roles, CallSync(r) PROVE WorldNext
  BY <1>5 DEF CallSync, WorldNext
<1>6. CASE CallOrder
  BY <1>6 DEF CallOrder
<1>7. CASE CallOther
  BY <1>7 DEF CallOther
<1>8. CASE Serve
  BY <1>8 DEF Serve
<1>9. CASE GetReply
  BY <1>9 DEF GetReply
<1> QED
  BY <1>1, <1>2, <1>3, <1>4, <1>5, <1>6, <1>7, <1>8, <1>9 DEF Next

(* The game's world is the world of AOIWorld.                               *)
THEOREM GameImplementsWorld == Spec => WorldSpec
<1>1. Init => WorldInit
  BY DEF Init
<1> QED
  BY <1>1, StepOfWorld, PTL DEF Spec, WorldSpec

(* Hence what was proved of that one holds while roles call services.       *)
THEOREM GameSightIsAdjacent == Spec => []SightIsAdjacent
  BY GameImplementsWorld, WorldSightIsAdjacent, PTL

(* A role that is only added lives on while it is read for a call.          *)
THEOREM GameKeepsAddedRoles == Spec => []AddedRolesStayAlive
  BY GameImplementsWorld, WorldKeepsAddedRoles, PTL

-----------------------------------------------------------------------------
(* The messages of the calls are formed.                                    *)
LEMMA Classified ==
  /\ \A s \in Services : RequestOf[s] \in Classes /\ ResponseOf[s] \in Classes
  /\ {"Login", "SyncSrdPlayer", "Order"} = Services
  /\ Fields["Player"] = <<"int32", "Position">>
  /\ Fields["SyncPlayers"] = <<"Player">>
  /\ Fields["SyncPid"] = <<"int32", "string">>
  /\ Fields["makeOrderRequest"] = <<"int32", "string">>
  /\ Fields["Position"] = <<"float", "float", "float", "float">>
  /\ Fields["SyncPidResponse"] = <<"int32", "string", "enum">>
  /\ Fields["SyncPlayersResponse"] = <<"int32", "string", "enum">>
  /\ Fields["makeOrderResponse"] = <<"int32", "string", "string">>
  /\ {"Player", "SyncPlayers", "SyncPid", "makeOrderRequest", "Position",
      "SyncPidResponse", "SyncPlayersResponse", "makeOrderResponse"} \subseteq Classes
  BY DEF Services, RequestOf, ResponseOf, Classes, Fields, PlayerFields,
         SyncPlayersFields, SyncPidFields, MakeOrderRequestFields, PositionFields,
         SyncPidResponseFields, SyncPlayersResponseFields, MakeOrderResponseFields

(* Two scalar fields are set in a new message.                              *)
LEMMA PutScalar ==
  ASSUME NEW c \in Classes, NEW m, Formed(c, m), NEW n \in DOMAIN Fields[c],
         Fields[c][n] \in ScalarTypes, NEW v
  PROVE  Formed(c, Put(c, m, n, v))
  BY IsMessageType, PutFormed

(* create_id_name_login makes a formed request.                             *)
LEMMA LoginFormed ==
  ASSUME NEW r
  PROVE  Formed("SyncPid", LoginRequest(r))
<1> DEFINE d == Put("SyncPid", Default("SyncPid"), 1, Id[r])
<1>1. /\ "SyncPid" \in Classes /\ {1, 2} \subseteq DOMAIN Fields["SyncPid"]
      /\ \A n \in {1, 2} : Fields["SyncPid"][n] \in ScalarTypes
  BY Classified DEF ScalarTypes
<1>2. Formed("SyncPid", d)
  BY <1>1, DefaultFormed, PutScalar
<1> HIDE DEF d
<1>3. Formed("SyncPid", Put("SyncPid", d, 2, Name[r]))
  BY <1>1, <1>2, PutScalar
<1> QED
  BY <1>3 DEF LoginRequest, d

(* So does a program that orders.                                           *)
LEMMA OrderFormed ==
  ASSUME NEW price, NEW goods
  PROVE  Formed("makeOrderRequest", Put("makeOrderRequest",
             Put("makeOrderRequest", Default("makeOrderRequest"), 1, price), 2, goods))
<1> DEFINE c == "makeOrderRequest"
           d == Put(c, Default(c), 1, price)
<1>1. /\ c \in Classes /\ {1, 2} \subseteq DOMAIN Fields[c]
      /\ \A n \in {1, 2} : Fields[c][n] \in ScalarTypes
  BY Classified DEF ScalarTypes
<1>2. Formed(c, d)
  BY <1>1, DefaultFormed, PutScalar
<1> HIDE DEF d
<1>3. Formed(c, Put(c, d, 2, goods))
  BY <1>1, <1>2, PutScalar
<1> QED
  BY <1>3 DEF d

(* So is each Player that create_srd_players adds.                          *)
LEMMA PlayerFormed ==
  ASSUME NEW r
  PROVE  Formed("Player", PlayerOf(r))
<1> DEFINE c == "Position"
           p0 == Mutable("Player", Default("Player"), 2)
           p1 == Put(c, p0, 1, Float(pos[r].x))
           p2 == Put(c, p1, 2, Float(pos[r].y))
           p3 == Put(c, p2, 3, Float(0))
           p4 == Put(c, p3, 4, Float(0))
           d  == Put("Player", Default("Player"), 1, Id[r])
<1>1. /\ c \in Classes /\ "Player" \in Classes
      /\ DOMAIN Fields[c] = 1 .. 4 /\ \A n \in 1 .. 4 : Fields[c][n] \in ScalarTypes
      /\ DOMAIN Fields["Player"] = 1 .. 2
      /\ Fields["Player"][1] \in ScalarTypes /\ Fields["Player"][2] = c
  BY Classified DEF ScalarTypes
<1>2. Formed("Player", Default("Player"))
  BY <1>1, DefaultFormed
<1>3. Formed(c, p0)
  BY <1>1, <1>2, IsMessageType, MutableFormed
<1> HIDE DEF p0
<1>4. Formed(c, p1)
  BY <1>1, <1>3, PutScalar
<1> HIDE DEF p1
<1>5. Formed(c, p2)
  BY <1>1, <1>4, PutScalar
<1> HIDE DEF p2
<1>6. Formed(c, p3)
  BY <1>1, <1>5, PutScalar
<1> HIDE DEF p3
<1>7. Formed(c, p4)
  BY <1>1, <1>6, PutScalar
<1> HIDE DEF p4
<1>8. Formed("Player", d)
  BY <1>1, <1>2, PutScalar
<1> HIDE DEF d
<1>9. Formed("Player", Put("Player", d, 2, p4))
  BY <1>1, <1>7, <1>8, PutFormed
<1>10. PlayerOf(r) = Put("Player", d, 2, p4)
  BY Zenon DEF PlayerOf, d, p0, p1, p2, p3, p4
<1> QED
  BY <1>9, <1>10

(* The list of create_srd_players is one, if the cells it looks into exist. *)
LEMMA LookedIsSequence ==
  ASSUME NEW g
  PROVE  \E S : Looked(g) \in Seq(S)
<1> DEFINE S == {g + XCount, g + 1 + XCount, g - 1 + XCount, g + 1, g - 1,
                 g + 1 - XCount, g - XCount, g - 1 - XCount}
           If(cond, s) == IF cond THEN s ELSE <<>>
           s1(x) == If(x, <<g + XCount, g + 1 + XCount>>)
           s2(x) == If(x, <<g - 1 + XCount>>)
           s3(x) == If(x, <<g + 1>>)
           s4(x) == If(x, <<g - 1>>)
           s5(x) == If(x, <<g + 1 - XCount>>)
           s6(x) == If(x, <<g - XCount, g - 1 - XCount>>)
<1>1. \A x : /\ s1(x) \in Seq(S) /\ s2(x) \in Seq(S) /\ s3(x) \in Seq(S)
             /\ s4(x) \in Seq(S) /\ s5(x) \in Seq(S) /\ s6(x) \in Seq(S)
  <2>1. \A a, b \in S : <<>> \in Seq(S) /\ <<a>> \in Seq(S) /\ <<a, b>> \in Seq(S)
    OBVIOUS
  <2>2. /\ g + XCount \in S /\ g + 1 + XCount \in S /\ g - 1 + XCount \in S
        /\ g + 1 \in S /\ g - 1 \in S /\ g + 1 - XCount \in S
        /\ g - XCount \in S /\ g - 1 - XCount \in S
    BY Zenon DEF S
  <2> HIDE DEF S
  <2>3. /\ <<>> \in Seq(S) /\ <<g + XCount, g + 1 + XCount>> \in Seq(S)
        /\ <<g - 1 + XCount>> \in Seq(S) /\ <<g + 1>> \in Seq(S)
        /\ <<g - 1>> \in Seq(S) /\ <<g + 1 - XCount>> \in Seq(S)
        /\ <<g - XCount, g - 1 - XCount>> \in Seq(S)
    BY <2>1, <2>2, Zenon
  <2> QED
    BY <2>3, Zenon
<1>2. \E x1, x2, x3, x4, x5, x6 :
        Looked(g) = s1(x1) \o s2(x2) \o s3(x3) \o s4(x4) \o s5(x5) \o s6(x6)
  BY Zenon DEF Looked, LookedAround
<1> HIDE DEF s1, s2, s3, s4, s5, s6, S
<1>3. PICK x1, x2, x3, x4, x5, x6 :
        Looked(g) = s1(x1) \o s2(x2) \o s3(x3) \o s4(x4) \o s5(x5) \o s6(x6)
  BY <1>2
<1>4. s1(x1) \o s2(x2) \in Seq(S)
  BY <1>1
<1>5. s1(x1) \o s2(x2) \o s3(x3) \in Seq(S)
  BY <1>1, <1>4
<1>6. s1(x1) \o s2(x2) \o s3(x3) \o s4(x4) \in Seq(S)
  BY <1>1, <1>5
<1>7. s1(x1) \o s2(x2) \o s3(x3) \o s4(x4) \o s5(x5) \in Seq(S)
  BY <1>1, <1>6
<1>8. Looked(g) \in Seq(S)
  BY <1>1, <1>3, <1>7
<1> QED
  BY <1>8

(* The list of a cell is one.                                               *)
LEMMA ListIsSequence ==
  ASSUME WorldTypeOK, NEW g \in Cells
  PROVE  \E k \in Nat : \E T : ListOf(g) \in [1 .. k -> T]
<1>1. IsFiniteSet(grids[g])
  <2>1. grids[g] \subseteq Entries
    BY DEF WorldTypeOK
  <2> DEFINE f == [e \in Entries |-> <<<<e.role, e.own>>, e.at>>]
             P == (Roles \X BOOLEAN) \X (1 .. MaxPlaces)
  <2>2. IsFiniteSet(P)
    <3>1. IsFiniteSet(Roles) /\ IsFiniteSet(1 .. MaxPlaces)
      BY WorldSizes, FS_Interval
    <3>2. IsFiniteSet(BOOLEAN)
      <4>1. BOOLEAN = {TRUE, FALSE}
        OBVIOUS
      <4>2. IsFiniteSet({}) /\ IsFiniteSet({} \cup {TRUE})
            /\ IsFiniteSet(({} \cup {TRUE}) \cup {FALSE})
        BY FS_EmptySet, FS_AddElement
      <4>3. BOOLEAN = ({} \cup {TRUE}) \cup {FALSE}
        OBVIOUS
      <4> QED
        BY <4>2, <4>3
    <3> QED
      BY <3>1, <3>2, FS_Product
  <2>3. f \in Injection(Entries, P)
    <3>1. \A e \in Entries : f[e] \in P
      BY DEF Entries
    <3>2. \A d, e \in Entries : f[d] = f[e] => d = e
      BY DEF Entries
    <3> QED
      BY <3>1, <3>2 DEF Injection, IsInjective
  <2>4. IsFiniteSet(Entries)
    BY <2>2, <2>3, FS_Injection
  <2> QED
    BY <2>1, <2>4, FS_Subset
<1>2. Cardinality(grids[g]) \in Nat
  BY <1>1, FS_CardinalityType
<1> DEFINE k == Cardinality(grids[g])
           E(j) == CHOOSE e \in grids[g] : Cardinality({d \in grids[g] : d.at < e.at}) = j - 1
           T == {E(j) : j \in 1 .. k}
<1>3. ListOf(g) = [j \in 1 .. k |-> E(j)]
  BY Zenon DEF ListOf
<1>4. \A j \in 1 .. k : E(j) \in T
  OBVIOUS
<1> HIDE DEF E, T
<1>5. ListOf(g) \in [1 .. k -> T]
  BY <1>3, <1>4
<1> QED
  BY <1>2, <1>5

(* The lists of the cells around, joined, are one.                          *)
LEMMA SrdIsSequence ==
  ASSUME WorldTypeOK, NEW r, Range(Looked(CellOf(r))) \subseteq Cells
  PROVE  \E S : SrdPlayers(r) \in Seq(S)
<1> DEFINE cells == Looked(CellOf(r))
           N == Len(cells)
           q == [i \in DOMAIN cells |-> ListOf(cells[i])]
           T == UNION {Range(ListOf(g)) : g \in Cells}
<1>1. PICK S : cells \in Seq(S)
  BY LookedIsSequence
<1>2. SrdPlayers(r) = FlattenSeq(q)
  BY DEF SrdPlayers
<1>3. ASSUME NEW g \in Cells PROVE ListOf(g) \in Seq(T)
  <2>1. PICK k \in Nat : \E U : ListOf(g) \in [1 .. k -> U]
    BY ListIsSequence
  <2>2. PICK U : ListOf(g) \in [1 .. k -> U]
    BY <2>1
  <2>3. Range(ListOf(g)) \subseteq T
    OBVIOUS
  <2>4. \A i \in 1 .. k : ListOf(g)[i] \in Range(ListOf(g))
    BY <2>2 DEF Range
  <2> HIDE DEF T
  <2> QED
    BY <2>1, <2>2, <2>3, <2>4
<1>4. N \in Nat /\ DOMAIN cells = 1 .. N /\ \A i \in 1 .. N : cells[i] \in Cells
  <2>1. N \in Nat /\ DOMAIN cells = 1 .. N
    BY <1>1
  <2> QED
    BY <2>1 DEF Range
<1> HIDE DEF cells, T, N
<1>5. q \in [1 .. N -> Seq(T)]
  BY <1>3, <1>4
<1>6. CASE N = 0
  <2>1. q = <<>>
    BY <1>4, <1>6
  <2>2. FlattenSeq(<<>>) = <<>>
    BY DEF FlattenSeq
  <2>3. <<>> \in Seq({})
    OBVIOUS
  <2> QED
    BY <1>2, <2>1, <2>2, <2>3
<1>7. CASE N # 0
  <2>1. N \in Nat \ {0}
    BY <1>4, <1>7
  <2> HIDE DEF q
  <2>2. FlattenSeq(q) \in Seq(T)
    BY <1>5, <2>1, Flattened
  <2> QED
    BY <1>2, <2>2
<1> QED
  BY <1>6, <1>7

(* create_srd_players makes a formed request, of formed Players.            *)
LEMMA SyncFormed ==
  ASSUME WorldTypeOK, NEW r, Range(Looked(CellOf(r))) \subseteq Cells
  PROVE  Formed("SyncPlayers", SyncRequest(r))
<1> DEFINE c == "SyncPlayers"
           players == SrdPlayers(r)
           x == [i \in DOMAIN players |-> PlayerOf(players[i].role)]
           u == Default(c).val
<1>1. PICK S : players \in Seq(S)
  BY SrdIsSequence
<1>2. c \in Classes /\ DOMAIN Fields[c] = {1} /\ Fields[c][1] = "Player"
      /\ Repeated(c, 1) /\ 1 \notin OneofData(c)
  BY Classified DEF Repeated, OneofData
<1>3. Formed(c, Default(c))
  BY <1>2, DefaultFormed
<1>4. SyncRequest(r) = [Default(c) EXCEPT !.val[1] = x]
  BY DEF SyncRequest
<1> HIDE DEF players
<1>5. x \in Seq({PlayerOf(players[i].role) : i \in DOMAIN players})
  BY <1>1
<1>6. \A i \in DOMAIN x : Formed("Player", x[i])
  BY PlayerFormed
<1>7. Default(c) = [val |-> u, unknown |-> <<>>] /\ DOMAIN u = {1}
  BY <1>2, <1>3, MessageIs
<1> HIDE DEF x
<1>8. [Default(c) EXCEPT !.val[1] = x] = [val |-> [u EXCEPT ![1] = x], unknown |-> <<>>]
  <2> DEFINE d == Default(c)
  <2>1. d = [val |-> u, unknown |-> <<>>]
    BY <1>7
  <2> HIDE DEF d, u
  <2>2. [d EXCEPT !.val[1] = x] = [val |-> [u EXCEPT ![1] = x], unknown |-> <<>>]
    BY <2>1
  <2> QED
    BY <2>2 DEF d
<1>9. Formed(c, [val |-> [u EXCEPT ![1] = x], unknown |-> <<>>])
  <2>1. u = Default(c).val /\ 1 \in DOMAIN Fields[c]
    BY <1>2
  <2> HIDE DEF u, c
  <2> QED
    BY <1>2, <1>3, <1>5, <1>6, <2>1, ShapeKept
<1> QED
  BY <1>4, <1>8, <1>9

-----------------------------------------------------------------------------
(* A message whose texts are empty, or an order id, can be read.            *)
LEMMA NoBadTextIf ==
  ASSUME NEW c \in Classes, NEW m, Formed(c, m),
         \A n \in DOMAIN Fields[c] :
            /\ ~IsMessage(Fields[c][n])
            /\ Fields[c][n] = "string" =>
                 ~Boxed(c, n) /\ m.val[n] \in {Zero(Fields[c][n]), OrderId, ResInfo}
  PROVE  NoBadText(c, m)
<1> SUFFICES ASSUME NEW n \in DOMAIN Fields[c], NEW j \in DOMAIN Values(c, m, n),
                    BadValue(Fields[c][n], Values(c, m, n)[j])
             PROVE  FALSE
  BY BadTextUnfolds DEF NoBadText
<1>1. Fields[c][n] = "string" /\ ~IsUtf8(Values(c, m, n)[j])
  BY DEF BadValue
<1>2. \/ Values(c, m, n) = <<>> \/ Values(c, m, n) = <<OrderId>>
      \/ Values(c, m, n) = <<ResInfo>>
  BY <1>1 DEF Values
<1>3. Values(c, m, n)[j] \in {OrderId, ResInfo}
  <2>1. CASE Values(c, m, n) = <<>>
    <3>1. DOMAIN <<>> = {}
      OBVIOUS
    <3> QED
      BY <2>1, <3>1
  <2>2. ASSUME NEW v, Values(c, m, n) = <<v>> PROVE Values(c, m, n)[j] = v
    BY <2>2
  <2> QED
    BY <1>2, <2>1, <2>2
<1> QED
  BY <1>1, <1>3, NamesDiffer DEF IsUtf8

(* What the services of the tests answer can be read.                       *)
LEMMA ResponsesRead ==
  ASSUME NEW s \in Services, NEW request, NEW response \in Responses(s, request)
  PROVE  NoBadText(ResponseOf[s], response)
<1> DEFINE c == ResponseOf[s]
           d == Default(c)
<1>1. /\ c \in Classes /\ Fields[c] \in {<<"int32", "string", "enum">>,
                                         <<"int32", "string", "string">>}
      /\ s = "Order" => Fields[c] = <<"int32", "string", "string">>
      /\ s # "Order" => Fields[c] = <<"int32", "string", "enum">>
      /\ OneofData(c) = {} /\ ~Repeated(c, 1) /\ ~Repeated(c, 2) /\ ~Repeated(c, 3)
  BY Classified DEF Services, ResponseOf, OneofData, Repeated
<1>2. DOMAIN Fields[c] = 1 .. 3
      /\ \A n \in 1 .. 3 : Fields[c][n] \in ScalarTypes
  BY <1>1 DEF ScalarTypes
<1>3. \A n \in 1 .. 3 : ~IsMessage(Fields[c][n]) /\ ~Boxed(c, n)
  BY <1>1, <1>2, IsMessageType DEF Boxed
<1>4. Formed(c, d) /\ d.val = [n \in 1 .. 3 |-> Zero(Fields[c][n])]
  BY <1>1, <1>2, <1>3, DefaultFormed DEF Default
<1> HIDE DEF d
<1>5. ASSUME NEW m, Formed(c, m), NEW n \in 1 .. 3, NEW v
      PROVE  /\ Formed(c, Put(c, m, n, v)) /\ DOMAIN m.val = 1 .. 3
             /\ Put(c, m, n, v).val = [m.val EXCEPT ![n] = v]
  <2>1. Formed(c, Put(c, m, n, v))
    BY <1>1, <1>2, <1>5, PutScalar
  <2>2. m = [val |-> m.val, unknown |-> <<>>] /\ DOMAIN m.val = 1 .. 3
    BY <1>1, <1>2, <1>5, MessageIs
  <2>3. ClearedOthers(c, m, n) = m.val
    <3>1. ClearedOthers(c, m, n) = [k \in DOMAIN m.val |-> m.val[k]]
      BY <1>1 DEF ClearedOthers
    <3>2. m.val = [k \in DOMAIN m.val |-> m.val[k]]
      <4>1. Shape(c, m)
        BY <1>1, <1>5, FormedUnfolds
      <4> QED
        BY <4>1 DEF Shape
    <3> QED
      BY <3>1, <3>2
  <2>4. Put(c, m, n, v).val = [m.val EXCEPT ![n] = v]
    BY <1>1, <1>3, <2>2, <2>3 DEF Put
  <2> QED
    BY <2>1, <2>2, <2>4
<1>6. ASSUME NEW m, Formed(c, m), NEW n \in 1 .. 3, NEW v, NEW k \in 1 .. 3
      PROVE  Put(c, m, n, v).val[k] = IF k = n THEN v ELSE m.val[k]
  <2> DEFINE u == m.val
             w == Put(c, m, n, v).val
  <2>1. w = [u EXCEPT ![n] = v] /\ DOMAIN u = 1 .. 3
    BY <1>5, <1>6
  <2> HIDE DEF u, w
  <2>2. w[k] = IF k = n THEN v ELSE u[k]
    BY <2>1
  <2> QED
    BY <2>2 DEF u, w
<1>7. /\ \A n \in 1 .. 3 : d.val[n] = Zero(Fields[c][n])
      /\ 1 \in 1 .. 3 /\ 2 \in 1 .. 3 /\ 3 \in 1 .. 3
  BY <1>4
<1> DEFINE F == \A m, v : Formed(c, m) => \A n \in 1 .. 3 : Formed(c, Put(c, m, n, v))
<1>8. F
  BY <1>5
<1>9. ASSUME NEW v, response = Put(c, d, 3, v), Fields[c][3] = "string" => v = OrderId
      PROVE  NoBadText(c, response)
  <2>1. response.val[2] = Zero(Fields[c][2]) /\ response.val[3] = v
    BY <1>4, <1>6, <1>7, <1>9
  <2>2. Fields[c][1] # "string"
    BY <1>1
  <2>3. Formed(c, response)
    BY <1>4, <1>7, <1>9, <1>8, Zenon
  <2> QED
    BY <1>1, <1>2, <1>3, <1>9, <2>1, <2>2, <2>3, NoBadTextIf
<1>10. CASE response = Put(c, Put(c, d, 1, -1), 2, ResInfo)
  <2> DEFINE m == Put(c, d, 1, -1)
  <2>1. Formed(c, m)
    BY <1>4, <1>7, <1>8, Zenon
  <2>2. m.val[3] = Zero(Fields[c][3])
    BY <1>4, <1>6, <1>7
  <2> HIDE DEF m
  <2>3. response = Put(c, m, 2, ResInfo)
    BY <1>10 DEF m
  <2>4. Formed(c, response)
    BY <1>7, <1>8, <2>1, <2>3, Zenon
  <2>5. response.val[2] = ResInfo /\ response.val[3] = Zero(Fields[c][3])
    BY <1>6, <2>1, <2>3, <2>2
  <2>6. Fields[c][1] # "string"
    BY <1>1
  <2> QED
    BY <1>1, <1>2, <1>3, <2>5, <2>6, <2>4, NoBadTextIf
<1>11. \/ response = Put(c, Put(c, d, 1, -1), 2, ResInfo)
       \/ s = "Order" /\ response = Put(c, d, 3, OrderId)
       \/ s # "Order" /\ \E v : response = Put(c, d, 3, v)
  BY DEF Responses, d
<1>12. s # "Order" => Fields[c][3] # "string"
  BY <1>1
<1> QED
  BY <1>9, <1>10, <1>11, <1>12

(* A call under way: what was sent is a request of the service it names, or *)
(* names none; what is answered is what the service gave for it, or nothing. *)
Names(name, s) == name = <<s, Method[s]>>
CallSent ==
    /\ call.class \in Classes /\ call.response \in Classes
    /\ Formed(call.class, call.request)
    /\ call.bytes = Serialize(call.class, call.request)
    /\ \/ call.name \in OtherNames
       \/ \E s \in Services : /\ Names(call.name, s)
                              /\ call.class = RequestOf[s] /\ call.response = ResponseOf[s]
WasServed ==
    LET by == served[1]
    IN  /\ Len(served) = 1 /\ by.service \in Services
        /\ Names(call.name, by.service) /\ call.response = ResponseOf[by.service]
        /\ by.request = call.request /\ ParseFromString(call.class, call.bytes).ok
        /\ NoBadText(call.response, by.response)
        /\ reply.err = "none" /\ reply.bytes = Serialize(call.response, by.response)
NotServed ==
    served = <<>> /\ reply.bytes = <<>> /\ Refused(reply.err)

CallInv ==
    /\ WorldInv /\ DOMAIN services \subseteq Services
    /\ stage \in {"idle", "sent", "replied", "lost"}
    /\ outcome = None /\ stage \in {"idle", "sent"} => served = <<>>
    /\ stage # "idle" => outcome = None
    /\ stage = "sent" => CallSent
    /\ stage = "replied" => CallSent /\ (WasServed \/ NotServed)
    /\ RepliesAnswerTheCall

(* What CallMethod leaves behind.                                           *)
LEMMA CallMade ==
  ASSUME CallInv, stage = "idle", outcome = None, WorldInv',
         NEW name, NEW c \in Classes, NEW response \in Classes, NEW request,
         Formed(c, request), CallMethod(name, c, response, request),
         \/ name \in OtherNames
         \/ \E s \in Services : /\ Names(name, s)
                                /\ c = RequestOf[s] /\ response = ResponseOf[s]
  PROVE  CallInv'
<1>1. /\ stage' = "sent" /\ services' = services /\ served' = served
      /\ reply' = reply /\ outcome' = outcome
      /\ call' = [name |-> name, class |-> c, response |-> response,
                  request |-> request, bytes |-> Serialize(c, request)]
  BY DEF CallMethod
<1>2. /\ call'.name = name /\ call'.class = c /\ call'.response = response
      /\ call'.request = request /\ call'.bytes = Serialize(c, request)
  BY <1>1
<1>3. CallSent'
  BY <1>2 DEF CallSent
<1>4. RepliesAnswerTheCall'
  BY <1>1 DEF RepliesAnswerTheCall
<1> QED
  BY <1>1, <1>3, <1>4 DEF CallInv

-----------------------------------------------------------------------------
(* The name of a method is that of its service and its own.                 *)
LEMMA NameParts ==
  ASSUME NEW s \in Services, NEW name, Names(name, s)
  PROVE  Len(name) = 2 /\ ServiceName(name) = s /\ MethodName(name) = <<Method[s]>>
<1>1. name = <<s, Method[s]>>
  BY DEF Names
<1>2. <<s, Method[s]>> \in Seq({s, Method[s]}) /\ Len(<<s, Method[s]>>) = 2
  OBVIOUS
<1>3. Head(<<s, Method[s]>>) = s
  OBVIOUS
<1>4. Tail(<<s, Method[s]>>) = <<Method[s]>>
  OBVIOUS
<1> QED
  BY <1>1, <1>2, <1>3, <1>4 DEF ServiceName, MethodName

(* A name whose first part is a service and whose rest is its method is     *)
(* theirs.                                                                  *)
LEMMA NameOfParts ==
  ASSUME NEW S, NEW name \in Seq(S), Len(name) >= 2,
         MethodName(name) = <<Method[ServiceName(name)]>>
  PROVE  Names(name, ServiceName(name))
<1> DEFINE s == ServiceName(name)
           m == Method[s]
<1>1. s = name[1]
  BY DEF ServiceName
<1>2. Len(Tail(name)) = Len(name) - 1 /\ Tail(name)[1] = name[2] /\ Len(name) \in Nat
  OBVIOUS
<1>3. Tail(name) = <<m>>
  BY DEF MethodName
<1> DEFINE t == Tail(name)
<1> HIDE DEF s, m, t
<1>4. t = <<m>> /\ Len(t) = Len(name) - 1 /\ t[1] = name[2]
  BY <1>2, <1>3 DEF t
<1>5. Len(<<m>>) = 1 /\ <<m>>[1] = m
  OBVIOUS
<1>6. Len(name) = 2 /\ name[2] = m
  BY <1>2, <1>4, <1>5
<1>7. name = <<s, m>>
  BY <1>1, <1>6
<1> QED
  BY <1>7 DEF Names, s, m

(* What dispatch leaves behind: the service of the name was called with the *)
(* request that was sent, or none was and the answer is an error.           *)
LEMMA NoneServed ==
  ASSUME CallInv, stage = "sent", outcome = None, WorldInv',
         UNCHANGED <<services, call, outcome>>,
         NEW err, Refused(err), SetTinyPBError(err)
  PROVE  CallInv'
<1>1. /\ stage' = "replied" /\ served' = served
      /\ reply' = [class |-> "reply", err |-> err, bytes |-> <<>>]
  BY DEF SetTinyPBError, Answered
<1>2. CallSent /\ served = <<>> /\ DOMAIN services \subseteq Services
  BY DEF CallInv
<1>3. CallSent'
  BY <1>2 DEF CallSent
<1>4. NotServed'
  <2>1. reply'.err = err /\ reply'.bytes = <<>>
    BY <1>1
  <2>2. Refused(reply.err)'
    BY <2>1 DEF Refused
  <2> QED
    BY <1>1, <1>2, <2>1, <2>2 DEF NotServed
<1>5. RepliesAnswerTheCall'
  BY DEF RepliesAnswerTheCall
<1> QED
  BY <1>1, <1>2, <1>3, <1>4, <1>5 DEF CallInv

(* The service of the name is called, or its stub ends the server.          *)
LEMMA ServiceCalled ==
  ASSUME CallInv, stage = "sent", outcome = None, WorldInv',
         UNCHANGED <<services, call, outcome>>,
         NEW s \in Services, Names(call.name, s), call.response = ResponseOf[s],
         ParseFromString(call.class, call.bytes).ok,
         ServiceCall(s, call.request)
  PROVE  CallInv'
<1>1. CallSent /\ served = <<>> /\ DOMAIN services \subseteq Services
  BY DEF CallInv
<1>2. CallSent'
  BY <1>1 DEF CallSent
<1>3. RepliesAnswerTheCall'
  BY DEF RepliesAnswerTheCall
<1>4. CASE stage' = "lost"
  BY <1>1, <1>3, <1>4 DEF CallInv
<1>5. ASSUME NEW response \in Responses(s, call.request),
             served' = Append(served, [service |-> s, request |-> call.request,
                                       response |-> response]),
             Answered("none", Serialize(ResponseOf[s], response))
      PROVE  CallInv'
  <2> DEFINE by == [service |-> s, request |-> call.request, response |-> response]
             b == Serialize(call.response, response)
  <2>1. served' = <<by>>
    BY <1>1, <1>5
  <2>2. stage' = "replied" /\ reply' = [class |-> "reply", err |-> "none", bytes |-> b]
    BY <1>5 DEF Answered
  <2>3. NoBadText(call.response, response)
    BY <1>5, ResponsesRead
  <2>4. /\ by.service = s /\ by.request = call.request /\ by.response = response
        /\ Len(<<by>>) = 1 /\ <<by>>[1] = by
    OBVIOUS
  <2>5. WasServed'
    <3> HIDE DEF by, b
    <3>1. reply'.err = "none" /\ reply'.bytes = b
      BY <2>2
    <3>2. Len(served') = 1 /\ served'[1] = by
      BY <2>1, <2>4
    <3> QED
      BY <2>3, <2>4, <3>1, <3>2, Zenon DEF WasServed, b
  <2> QED
    BY <1>1, <1>2, <1>3, <2>2, <2>5 DEF CallInv
<1> QED
  BY <1>4, <1>5 DEF ServiceCall

(* rpcDispatcher::dispatch keeps the invariant: it finds the service if and *)
(* only if the name is that of one that is registered, and calls it if and  *)
(* only if the request can be read.                                         *)
LEMMA ServeKeeps ==
  ASSUME CallInv, outcome = None, WorldInv', Serve
  PROVE  CallInv'
<1> DEFINE name == call.name
           s == ServiceName(name)
           read == ParseFromString(RequestOf[s], call.bytes)
<1>1. /\ stage = "sent" /\ Dispatch(name, call.bytes)
      /\ UNCHANGED <<services, call, outcome>>
  BY DEF Serve
<1>2. CallSent /\ DOMAIN services \subseteq Services
  BY <1>1 DEF CallInv
<1>3. \E S : name \in Seq(S)
  <2>1. ASSUME NEW t \in Services, Names(name, t) PROVE name \in Seq({t, Method[t]})
    BY <2>1 DEF Names
  <2> QED
    BY <1>2, <2>1, NamesDiffer DEF CallSent
<1>4. CASE ~\E t \in DOMAIN services : Names(name, t)
  <2>1. ~(Len(name) >= 2 /\ s \in DOMAIN services /\ MethodName(name) = <<Method[s]>>)
    BY <1>3, <1>4, NameOfParts
  <2>2. Len(name) \in Nat /\ (Len(name) >= 2 => s = name[1])
    BY <1>3 DEF ServiceName
  <2>3. ~(Len(name) < 2) => Len(name) >= 2
    BY <2>2
  <2>4. \E err : Refused(err) /\ SetTinyPBError(err)
    <3> HIDE DEF name, s
    <3>1. Dispatch(name, call.bytes)
      BY <1>1 DEF name
    <3>2. CASE Len(name) < 2
      <4>1. SetTinyPBError(ParseError)
        BY <3>1, <3>2, Zenon DEF Dispatch
      <4>2. Refused(ParseError)
        BY <3>2 DEF Refused, name
      <4> QED
        BY <4>1, <4>2
    <3>3. CASE ~(Len(name) < 2) /\ s \notin DOMAIN services
      <4>1. SetTinyPBError(ServiceNotFound)
        BY <3>1, <3>3, Zenon DEF Dispatch, s
      <4>2. Refused(ServiceNotFound)
        BY <2>2, <2>3, <3>3 DEF Refused, name
      <4> QED
        BY <4>1, <4>2
    <3>4. CASE ~(Len(name) < 2) /\ s \in DOMAIN services /\ MethodName(name) # <<Method[s]>>
      <4>1. SetTinyPBError(MethodNotFound)
        BY <3>1, <3>4, Zenon DEF Dispatch, s
      <4>2. name # <<s, Method[s]>>
        BY <1>4, <3>4 DEF Names
      <4>3. Refused(MethodNotFound)
        BY <2>2, <2>3, <3>4, <4>2 DEF Refused, name
      <4> QED
        BY <4>1, <4>3
    <3> QED
      BY <2>1, <2>3, <3>2, <3>3, <3>4
  <2> QED
    BY <1>1, <2>4, NoneServed
<1>5. ASSUME NEW t \in DOMAIN services, Names(name, t) PROVE CallInv'
  <2>1. t \in Services
    BY <1>2
  <2>2. Len(name) = 2 /\ s = t /\ MethodName(name) = <<Method[t]>>
    BY <1>5, <2>1, NameParts
  <2>3. call.class = RequestOf[t] /\ call.response = ResponseOf[t]
    <3>1. name \notin OtherNames
      BY <1>5, <2>1, NamesDiffer DEF Names
    <3>2. PICK u \in Services : Names(name, u) /\ call.class = RequestOf[u]
                                /\ call.response = ResponseOf[u]
      BY <1>2, <3>1 DEF CallSent
    <3>3. u = t
      BY <2>2, <3>2, NameParts
    <3> QED
      BY <3>2, <3>3
  <2>4. read = ParseFromString(call.class, call.bytes)
    BY <2>2, <2>3
  <2>5. read.ok => read.m = call.request
    BY <1>2, <2>4, ReadBack DEF CallSent
  <2>6. IF read.ok THEN ServiceCall(t, read.m) ELSE SetTinyPBError(DeserializeError)
    <3>1. ~(Len(name) < 2)
      BY <2>2
    <3>2. Dispatch(name, call.bytes) /\ s \in DOMAIN services
          /\ MethodName(name) = <<Method[s]>> /\ s = t
      BY <1>1, <1>5, <2>2
    <3> HIDE DEF name
    <3>3. IF read.ok THEN ServiceCall(s, read.m) ELSE SetTinyPBError(DeserializeError)
      BY <3>1, <3>2, Zenon DEF Dispatch
    <3> QED
      BY <3>2, <3>3
  <2>7. CASE read.ok
    <3>1. ServiceCall(t, call.request)
      BY <2>5, <2>6, <2>7
    <3>2. ParseFromString(call.class, call.bytes).ok
      BY <2>4, <2>7
    <3> QED
      BY <1>1, <1>5, <2>1, <2>3, <3>1, <3>2, ServiceCalled
  <2>8. CASE ~read.ok
    <3>1. SetTinyPBError(DeserializeError) /\ ~ParseFromString(call.class, call.bytes).ok
      BY <2>4, <2>6, <2>8
    <3>2. Refused(DeserializeError)
      BY <1>5, <3>1, Zenon DEF Refused, Names
    <3> QED
      BY <1>1, <3>1, <3>2, NoneServed
  <2> QED
    BY <2>7, <2>8
<1> QED
  BY <1>4, <1>5

-----------------------------------------------------------------------------
(* The client's calls: each is of a formed request.                         *)
LEMMA CallKeeps ==
  ASSUME CallInv, stage = "idle", outcome = None, WorldInv', NEW s \in Services,
         NEW request, Formed(RequestOf[s], request), CallService(s, request)
  PROVE  CallInv'
<1>1. RequestOf[s] \in Classes /\ ResponseOf[s] \in Classes
  BY Classified
<1>2. CallMethod(<<s, Method[s]>>, RequestOf[s], ResponseOf[s], request)
  BY DEF CallService
<1>3. Names(<<s, Method[s]>>, s)
  BY DEF Names
<1> QED
  BY <1>1, <1>2, <1>3, CallMade

(* get_srd_players looks into cells that exist when memory stays sound.     *)
LEMMA SyncKeeps ==
  ASSUME CallInv, outcome = None, WorldInv', NEW r \in Roles, CallSync(r)
  PROVE  CallInv'
<1>1. stage = "idle" /\ CreateSrdPlayers(r)
  BY DEF CallSync
<1>2. CASE corrupt'
  <2>1. UNCHANGED callVars
    BY <1>2 DEF CallSync
  <2>2. CallInv'
    BY <1>1, <2>1 DEF CallInv, callVars, RepliesAnswerTheCall
  <2> QED
    BY <2>2
<1>3. CASE ~corrupt'
  <2>1. Range(Looked(CellOf(r))) \subseteq Cells
    BY <1>1, <1>3 DEF CreateSrdPlayers
  <2>2. WorldTypeOK
    BY DEF CallInv, WorldInv
  <2>3. Formed("SyncPlayers", SyncRequest(r))
    BY <2>1, <2>2, SyncFormed
  <2>4. CallService("SyncSrdPlayer", SyncRequest(r))
    BY <1>3 DEF CallSync
  <2>5. "SyncSrdPlayer" \in Services /\ RequestOf["SyncSrdPlayer"] = "SyncPlayers"
    BY DEF Services, RequestOf
  <2> QED
    BY <1>1, <2>3, <2>4, <2>5, CallKeeps
<1> QED
  BY <1>2, <1>3

(* The other calls.                                                         *)
LEMMA OrderKeeps ==
  ASSUME CallInv, outcome = None, WorldInv', CallOrder
  PROVE  CallInv'
<1>1. PICK price \in {9, 100}, goods \in Goods :
        CallService("Order", Put("makeOrderRequest",
             Put("makeOrderRequest", Default("makeOrderRequest"), 1, price), 2, goods))
  BY DEF CallOrder
<1>2. "Order" \in Services /\ RequestOf["Order"] = "makeOrderRequest" /\ stage = "idle"
  BY DEF Services, RequestOf, CallOrder
<1> QED
  BY <1>1, <1>2, OrderFormed, CallKeeps

(* A call by a name that no service has.                                    *)
LEMMA OtherKeeps ==
  ASSUME CallInv, outcome = None, WorldInv', CallOther
  PROVE  CallInv'
<1>1. PICK name \in OtherNames :
        CallMethod(name, "SyncPid", "SyncPidResponse", Default("SyncPid"))
  BY DEF CallOther
<1>2. "SyncPid" \in Classes /\ "SyncPidResponse" \in Classes /\ stage = "idle"
  BY Classified DEF CallOther
<1>3. Formed("SyncPid", Default("SyncPid"))
  BY <1>2, DefaultFormed
<1> QED
  BY <1>1, <1>2, <1>3, CallMade

(* A role logs in.                                                          *)
LEMMA LoginKeeps ==
  ASSUME CallInv, outcome = None, WorldInv', NEW r \in Roles, CallLogin(r)
  PROVE  CallInv'
<1>1. CallService("Login", LoginRequest(r)) /\ stage = "idle"
  BY DEF CallLogin
<1>2. "Login" \in Services /\ RequestOf["Login"] = "SyncPid"
  BY DEF Services, RequestOf
<1>3. Formed("SyncPid", LoginRequest(r))
  BY LoginFormed
<1> QED
  BY <1>1, <1>2, <1>3, CallKeeps

(* The client reads the answer: a response that was written is read as such, *)
(* and of no bytes an empty one.                                            *)
LEMMA ReplyKeeps ==
  ASSUME CallInv, WorldInv', GetReply
  PROVE  CallInv'
<1> DEFINE read == ParseFromString(call.response, reply.bytes)
<1>1. stage = "replied" /\ CallSent /\ (WasServed \/ NotServed)
      /\ DOMAIN services \subseteq Services
  BY DEF CallInv, GetReply
<1>2. /\ stage' = "idle" /\ UNCHANGED <<services, call, served, reply>>
      /\ outcome' = [class |-> "outcome",
                     err   |-> IF read.ok THEN reply.err ELSE "ERROR_FAILED_SERIALIZE",
                     response |-> read.m]
  BY DEF GetReply
<1>3. call.response \in Classes
  BY <1>1 DEF CallSent
<1> HIDE DEF read
<1>4. outcome' # None
  BY <1>2 DEF None
<1>5. CASE WasServed
  <2> DEFINE m == served[1].response
             c == call.response
  <2>1. NoBadText(c, m) /\ reply.err = "none" /\ reply.bytes = Serialize(c, m)
    BY <1>5 DEF WasServed
  <2>2. read.ok /\ read.m = m
    BY <1>3, <2>1, ReadBack DEF NoBadText, read
  <2>3. outcome'.err = "none" /\ outcome'.response = m
    BY <1>2, <2>1, <2>2
  <2>4. /\ Len(served) = 1
        /\ call.name = <<served[1].service, Method[served[1].service]>>
        /\ served[1].request = call.request
        /\ ParseFromString(call.class, call.bytes).ok
    BY <1>5 DEF WasServed, Names
  <2>5. RepliesAnswerTheCall'
    BY <1>2, <2>3, <2>4 DEF RepliesAnswerTheCall
  <2> QED
    BY <1>1, <1>2, <1>4, <2>5 DEF CallInv
<1>6. CASE NotServed
  <2>1. served = <<>> /\ reply.bytes = <<>> /\ Refused(reply.err)
    BY <1>6 DEF NotServed
  <2>2. reply.err # "none"
    BY <2>1 DEF Refused, ParseError, ServiceNotFound, MethodNotFound,
                DeserializeError
  <2>3. read.ok /\ read.m = Default(call.response)
    BY <1>3, <2>1, EmptyReads DEF read
  <2>4. outcome'.err = reply.err /\ outcome'.response = Default(call.response)
    BY <1>2, <2>3
  <2>5. Refused(outcome.err)'
    BY <1>2, <2>1, <2>4 DEF Refused
  <2>6. RepliesAnswerTheCall'
    BY <1>2, <2>1, <2>2, <2>4, <2>5 DEF RepliesAnswerTheCall
  <2> QED
    BY <1>1, <1>2, <1>4, <2>6 DEF CallInv
<1> QED
  BY <1>1, <1>5, <1>6

(* A call of the controller's is answered by the service it names.          *)
LEMMA CallInvInit == Init => CallInv
<1> SUFFICES ASSUME Init PROVE CallInv
  OBVIOUS
<1>1. WorldInv
  BY WorldInvInit DEF Init
<1>2. DOMAIN services = {} /\ stage = "idle" /\ outcome = None /\ served = <<>>
  BY DEF Init
<1> QED
  BY <1>1, <1>2 DEF CallInv, RepliesAnswerTheCall

(* Every step of client and server keeps the invariant of a call.           *)
LEMMA CallInvNext == CallInv /\ [Next]_vars => CallInv'
<1> SUFFICES ASSUME CallInv, [Next]_vars PROVE CallInv'
  OBVIOUS
<1>1. WorldInv'
  BY StepOfWorld, WorldInvNext DEF CallInv
<1>2. CASE UNCHANGED callVars
  <2>1. UNCHANGED <<services, stage, call, served, reply, outcome>>
    BY <1>2 DEF callVars
  <2> QED
    BY <1>1, <2>1 DEF CallInv, CallSent, WasServed, NotServed, Refused,
                      RepliesAnswerTheCall, Names
<1>3. ASSUME NEW s \in Services, NEW kind_, outcome = None, RegisterService(s, kind_)
      PROVE  CallInv'
  <2>1. /\ stage = "idle" /\ UNCHANGED <<stage, call, served, reply, outcome>>
        /\ DOMAIN services' = DOMAIN services \cup {s}
    BY <1>3 DEF RegisterService
  <2> QED
    BY <1>1, <1>3, <2>1 DEF CallInv, RepliesAnswerTheCall
<1>4. ASSUME NEW r \in Roles, outcome = None, CallLogin(r) \/ CallSync(r)
      PROVE  CallInv'
  BY <1>1, <1>4, LoginKeeps, SyncKeeps
<1>5. CASE outcome = None /\ (CallOrder \/ CallOther)
  BY <1>1, <1>5, OrderKeeps, OtherKeeps
<1>6. CASE Serve
  <2>1. outcome = None
    BY <1>6 DEF Serve, CallInv
  <2> QED
    BY <1>1, <1>6, <2>1, ServeKeeps
<1>7. CASE GetReply
  BY <1>1, <1>7, ReplyKeeps
<1>8. (World \/ UNCHANGED vars) => UNCHANGED callVars
  BY DEF World, vars
<1> QED
  BY <1>2, <1>3, <1>4, <1>5, <1>6, <1>7, <1>8 DEF Next

(* A call succeeds if and only if a service was called, with the client's   *)
(* request, and then it has that service's response; otherwise its error is *)
(* the one of dispatch that says why none was; for any roles, world, names  *)
(* and texts.                                                               *)
THEOREM GameRepliesAnswerTheCall == Spec => []RepliesAnswerTheCall
<1>1. CallInv => RepliesAnswerTheCall
  BY DEF CallInv
<1> QED
  BY <1>1, CallInvInit, CallInvNext, PTL DEF Spec
=============================================================================
