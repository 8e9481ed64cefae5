------------------------- MODULE RosterRing_proofs -------------------------
(***************************************************************************)
(* Facts about the indices of the servers and about the ring of the        *)
(* roster, for the proofs about the protocols.                             *)
(***************************************************************************)
EXTENDS RosterRing, FiniteSetTheorems, TLAPS

(* If the numbers below n are mapped to different numbers below n, every   *)
(* one of them is hit.                                                     *)
LEMMA InjectiveIsOnto ==
    ASSUME NEW n \in Nat, NEW f \in [0 .. n - 1 -> 0 .. n - 1],
           \A i, j \in 0 .. n - 1 : i # j => f[i] # f[j]
    PROVE  \A k \in 0 .. n - 1 : \E i \in 0 .. n - 1 : f[i] = k
  <1> DEFINE S == 0 .. n - 1
  <1>1. IsFiniteSet(S)
    BY FS_Interval
  <1>2. f \in Injection(S, S)
    BY DEF Injection, IsInjective
  <1> HIDE DEF S
  <1>3. f \in Surjection(S, S)
    BY <1>1, <1>2, FS_Injection
  <1> QED BY <1>3 DEF Surjection, S

(* A map of the nodes to different nodes hits every one of them.           *)
LEMMA OntoNodes ==
    ASSUME NEW f \in [Nodes -> Nodes],
           \A i, j \in Nodes : i # j => f[i] # f[j]
    PROVE  \A k \in Nodes : \E i \in Nodes : f[i] = k
  <1>1. N \in Nat
    BY NAssumption
  <1>2. /\ f \in [0 .. N - 1 -> 0 .. N - 1]
        /\ \A i, j \in 0 .. N - 1 : i # j => f[i] # f[j]
    BY DEF Nodes
  <1>3. \A k \in 0 .. N - 1 : \E i \in 0 .. N - 1 : f[i] = k
    BY <1>1, <1>2, InjectiveIsOnto
  <1> QED BY <1>3 DEF Nodes

(* N elements of different nodes are elements of all nodes.                *)
LEMMA AllAreThere ==
    ASSUME NEW S, NEW s \in Seq(S), Len(s) = N,
           \A i \in DOMAIN s : s[i].index \in Nodes,
           \A i, j \in DOMAIN s : i # j => s[i].index # s[j].index
    PROVE  \A k \in Nodes : \E i \in DOMAIN s : s[i].index = k
  <1> DEFINE f == [i \in Nodes |-> s[i + 1].index]
  <1>1. N \in Nat
    BY NAssumption
  <1>2. DOMAIN s = 1 .. N
    BY <1>1
  <1>3. \A i \in Nodes : i + 1 \in DOMAIN s
    BY <1>1, <1>2 DEF Nodes
  <1>4. f \in [Nodes -> Nodes]
    BY <1>3
  <1>5. \A i, j \in Nodes : i # j => f[i] # f[j]
    BY <1>1, <1>3 DEF Nodes
  <1> HIDE DEF f
  <1>6. \A k \in Nodes : \E i \in Nodes : f[i] = k
    BY <1>4, <1>5, OntoNodes
  <1> QED BY <1>3, <1>6 DEF f

(* Nothing below the last number is changed by the modulus.                *)
LEMMA ModuloBelow ==
    ASSUME NEW k \in Nat \ {0}, NEW i \in 0 .. k - 2
    PROVE  (i + 1) % k = i + 1
  BY SMTT(30)

(* The ring visits the nodes in the order of the roster and closes.        *)
LEMMA RingOrder ==
    \A n \in Nodes : NextServer(n) = IF n = N - 1 THEN 0 ELSE n + 1
  <1> SUFFICES ASSUME NEW n \in Nodes
               PROVE  NextServer(n) = IF n = N - 1 THEN 0 ELSE n + 1
    OBVIOUS
  <1>1. /\ N \in Nat \ {0} /\ DOMAIN Roster = 1 .. N /\ Len(Roster) = N
        /\ \A i \in 1 .. N : Roster[i] = i - 1
    BY NAssumption DEF Roster
  <1>2. IndexOf(Roster, n) = n
    <2> DEFINE Place(i) == Roster[i] = n /\ \A j \in 1 .. i - 1 : Roster[j] # n
    <2>1. n + 1 \in DOMAIN Roster /\ Place(n + 1)
      BY <1>1 DEF Nodes
    <2>2. \A i \in DOMAIN Roster : Place(i) => i = n + 1
      BY <1>1 DEF Nodes
    <2>3. (CHOOSE i \in DOMAIN Roster : Place(i)) = n + 1
      BY <2>1, <2>2
    <2> QED BY <1>1, <2>1, <2>3 DEF IndexOf, Nodes
  <1> DEFINE next == IF n = N - 1 THEN 0 ELSE n + 1
  <1>3. (n + 1) % N = next
    <2>1. N % N = 0
      BY <1>1
    <2>2. n \in 0 .. N - 1
      BY DEF Nodes
    <2>3. CASE n # N - 1
      <3>1. n \in 0 .. N - 2
        BY <1>1, <2>2, <2>3
      <3> QED BY <1>1, <2>3, <3>1, ModuloBelow
    <2>4. CASE n = N - 1
      BY <1>1, <2>1, <2>4
    <2> QED BY <2>3, <2>4
  <1>4. next + 1 \in DOMAIN Roster /\ Roster[next + 1] = next
    BY <1>1 DEF Nodes
  <1>5. next \in Range(Roster)
    BY <1>4 DEF Range
  <1> QED BY <1>1, <1>2, <1>3, <1>4, <1>5 DEF NextServer, NextNode
=============================================================================
