--------------------------- MODULE RateLimitProofs ---------------------------
(***************************************************************************)
(* Proofs about RateLimit for any threads, clients, limit and window.      *)
(*                                                                         *)
(*  1. Types, and no deque in the map is empty (Inv).                      *)
(*  2. CountInv: each deque is the end of what was let through; a window   *)
(*     that has begun to leave its deque is over, so that only the threads *)
(*     that hold a stamp of it can still add to it; and a request is       *)
(*     followed by older stamps only from threads that held one when it    *)
(*     was let through.  Each step trades a thread that holds a stamp for  *)
(*     a request let through, or loses it.                                 *)
(***************************************************************************)
EXTENDS RateLimit, SequenceTheorems, FiniteSetTheorems, TLAPS

(* A set of naturals has a least member: of the intervals 1 .. x for x in   *)
(* it, one contains no other.                                              *)
LEMMA LeastMember ==
    ASSUME NEW S \in SUBSET Nat, S # {}
    PROVE  Min(S) \in S /\ \A x \in S : Min(S) <= x
<1> DEFINE T == {1 .. x : x \in S}
           R == StrictSubsetOrdering(Nat)
<1>1. IsWellFoundedOn(R, FiniteSubsetsOf(Nat))
  BY FS_StrictSubsetOrderingWellFounded
<1>2. T \subseteq FiniteSubsetsOf(Nat) /\ T # {}
  <2>1. ASSUME NEW x \in S PROVE IsFiniteSet(1 .. x) /\ (1 .. x) \in SUBSET Nat
    <3>1. x \in Int /\ 1 \in Int
      OBVIOUS
    <3>2. IsFiniteSet(1 .. x)
      BY <3>1, FS_Interval
    <3>3. QED
      BY <3>2
  <2>2. QED
    BY <2>1 DEF FiniteSubsetsOf
<1>3. PICK I \in T : \A J \in T : ~(<<J, I>> \in R)
  <2> HIDE DEF T, R
  <2>1. QED
    BY <1>1, <1>2, WFMin
<1>4. PICK x \in S : I = 1 .. x
  BY <1>3
<1>5. ASSUME NEW y \in S, y < x PROVE FALSE
  <2>1. (1 .. y) \in SUBSET Nat /\ (1 .. x) \in SUBSET Nat
    OBVIOUS
  <2>2. (1 .. y) \subseteq (1 .. x) /\ x \in 1 .. x /\ x \notin 1 .. y
    BY <1>5
  <2>3. <<1 .. y, 1 .. x>> \in R
    BY <2>1, <2>2 DEF StrictSubsetOrdering
  <2>4. QED
    BY <1>3, <1>4, <2>3
<1>6. \A y \in S : x <= y
  BY <1>5
<1>7. QED
  BY <1>6 DEF Min

(* Trimming keeps a suffix, all of it when nothing is old.                 *)
LEMMA TrimType ==
    ASSUME NEW S \in SUBSET Nat, NEW dq \in Seq(S), NEW cutoff \in Int
    PROVE  Trim(dq, cutoff) \in Seq(S) /\ Len(Trim(dq, cutoff)) <= Len(dq)
<1> DEFINE kept == {i \in 1 .. Len(dq) : dq[i] >= cutoff}
<1>1. CASE kept = {}
  BY <1>1 DEF Trim
<1>2. CASE kept # {}
  <2>1. Min(kept) \in 1 .. Len(dq)
    <3>1. kept \in SUBSET Nat /\ \A i \in kept : i \in 1 .. Len(dq)
      OBVIOUS
    <3> HIDE DEF kept
    <3>2. QED
      BY <1>2, <3>1, LeastMember
  <2>2. Trim(dq, cutoff) = SubSeq(dq, Min(kept), Len(dq))
    BY <1>2 DEF Trim
  <2> DEFINE m == Min(kept)
  <2>3. m \in 1 .. Len(dq) + 1 /\ Len(dq) \in m - 1 .. Len(dq)
    BY <2>1
  <2> HIDE DEF m, kept
  <2>4. SubSeq(dq, m, Len(dq)) \in Seq(S) /\ Len(SubSeq(dq, m, Len(dq))) <= Len(dq)
    BY <2>3
  <2>5. QED
    BY <2>2, <2>4 DEF m
<1>3. QED
  BY <1>1, <1>2

Inv == TypeOK /\ NoEmptyDeque

LEMMA InvInit == Init => Inv
BY RateLimitAssumption DEF Init, Inv, TypeOK, NoEmptyDeque, Times

(* What a thread under the mutex finds: its key, its stamp and its deque.  *)
LEMMA WindowType ==
    ASSUME TypeOK, NEW t \in Threads, held[t] # None
    PROVE  /\ held[t].key \in Keys /\ held[t].now \in 0 .. clock /\ clock \in Nat
           /\ Window(t) \in Seq(0 .. clock) /\ Len(Window(t)) <= MaxRequests
<1>1. held[t] \in [key : Keys, now : 0 .. clock] /\ clock \in Nat
  BY RateLimitAssumption DEF TypeOK, Times
<1>2. held[t].now - WindowSeconds \in Int
  BY <1>1, RateLimitAssumption
<1>3. 0 .. clock \in SUBSET Nat
  BY <1>1
<1>4. CASE held[t].key \in DOMAIN windows
  <2>1. /\ windows[held[t].key] \in Seq(0 .. clock) /\ Len(windows[held[t].key]) <= MaxRequests
        /\ Window(t) = Trim(windows[held[t].key], held[t].now - WindowSeconds)
    BY <1>4 DEF TypeOK, Window
  <2>2. /\ Window(t) \in Seq(0 .. clock)
        /\ Len(Window(t)) <= Len(windows[held[t].key])
    BY <1>2, <1>3, <2>1, TrimType
  <2>3. QED
    BY <1>1, <2>1, <2>2, RateLimitAssumption
<1>5. CASE held[t].key \notin DOMAIN windows
  BY <1>1, <1>5, RateLimitAssumption DEF Window
<1>6. QED
  BY <1>4, <1>5

(* A deque stored under the mutex is well typed and not empty.             *)
LEMMA StoreSafe ==
    ASSUME Inv, clock' = clock, NEW k \in Keys, NEW dq \in Seq(0 .. clock),
           Len(dq) <= MaxRequests, dq # <<>>,
           windows' \in {Stored(k, dq), Swept(Stored(k, dq))}
    PROVE  /\ DOMAIN windows' \subseteq Keys
           /\ \A x \in DOMAIN windows' :
                 windows'[x] \in Seq(0 .. clock') /\ Len(windows'[x]) <= MaxRequests
           /\ NoEmptyDeque'
<1> DEFINE w == Stored(k, dq)
<1>1. /\ DOMAIN w \subseteq Keys
      /\ \A x \in DOMAIN w :
            w[x] \in Seq(0 .. clock) /\ Len(w[x]) <= MaxRequests /\ w[x] # <<>>
  BY DEF Inv, TypeOK, NoEmptyDeque, Stored
<1> HIDE DEF w
<1>2. DOMAIN windows' \subseteq DOMAIN w /\ \A x \in DOMAIN windows' : windows'[x] = w[x]
  BY DEF Swept, w
<1>3. QED
  BY <1>1, <1>2 DEF NoEmptyDeque

LEMMA InvNext == Inv /\ [Next]_vars => Inv'
<1> SUFFICES ASSUME Inv, [Next]_vars PROVE Inv'
  OBVIOUS
<1> USE RateLimitAssumption DEF Inv
<1>0. clock \in Nat
  BY DEF TypeOK, Times
<1>1. CASE Tick
  <2>1. 0 .. clock \subseteq 0 .. clock' /\ clock' \in Times
    BY <1>0, <1>1 DEF Tick, Times
  <2>2. \A k \in DOMAIN windows : windows[k] \in Seq(0 .. clock')
    BY <2>1, SeqMonotonic DEF TypeOK
  <2>3. held' \in [Threads -> [key : Keys, now : 0 .. clock'] \union {None}]
    BY <1>1, <2>1 DEF Tick, TypeOK
  <2>4. \A k \in Keys : accepted[k] \in Seq(0 .. clock')
    BY <2>1, SeqMonotonic DEF TypeOK
  <2>5. accepted' \in [Keys -> Seq(0 .. clock')]
    BY <1>1, <2>4 DEF Tick, TypeOK
  <2>6. QED
    BY <1>1, <2>1, <2>2, <2>3, <2>5 DEF Tick, TypeOK, NoEmptyDeque
<1>2. ASSUME NEW t \in Threads, Stamp(t) PROVE Inv'
  BY <1>0, <1>2 DEF Stamp, TypeOK, NoEmptyDeque, Keys
<1>3. ASSUME NEW t \in Threads, Refuse(t) PROVE Inv'
  <2>1. /\ held[t].key \in Keys /\ Window(t) \in Seq(0 .. clock)
        /\ Len(Window(t)) <= MaxRequests /\ Window(t) # <<>>
    BY <1>3, WindowType DEF Refuse
  <2>2. clock' = clock /\ windows' = Stored(held[t].key, Window(t))
    BY <1>3 DEF Refuse
  <2>3. /\ DOMAIN windows' \subseteq Keys
        /\ \A x \in DOMAIN windows' :
              windows'[x] \in Seq(0 .. clock') /\ Len(windows'[x]) <= MaxRequests
        /\ NoEmptyDeque'
    BY <2>1, <2>2, StoreSafe
  <2>4. QED
    BY <1>3, <2>3 DEF Refuse, TypeOK
<1>4. ASSUME NEW t \in Threads, Admit(t) PROVE Inv'
  <2> DEFINE k == held[t].key
             now == held[t].now
             dq == Append(Window(t), now)
  <2>1. /\ k \in Keys /\ now \in 0 .. clock /\ Window(t) \in Seq(0 .. clock)
        /\ Len(Window(t)) < MaxRequests
    BY <1>4, WindowType DEF Admit
  <2>2. dq \in Seq(0 .. clock) /\ Len(dq) <= MaxRequests /\ dq # <<>>
    BY <2>1
  <2>3. clock' = clock /\ windows' \in {Stored(k, dq), Swept(Stored(k, dq))}
    BY <1>4 DEF Admit
  <2>4. /\ DOMAIN windows' \subseteq Keys
        /\ \A x \in DOMAIN windows' :
              windows'[x] \in Seq(0 .. clock') /\ Len(windows'[x]) <= MaxRequests
        /\ NoEmptyDeque'
    <3> HIDE DEF k, dq, now
    <3>1. QED
      BY <2>1, <2>2, <2>3, StoreSafe
  <2>5. calls' \in 0 .. (SweepEvery - 1)
    BY <1>4 DEF Admit, TypeOK
  <2>6. accepted' \in [Keys -> Seq(0 .. clock)]
    <3>1. Append(accepted[k], now) \in Seq(0 .. clock)
      BY <2>1 DEF TypeOK
    <3>2. QED
      BY <1>4, <2>1, <3>1 DEF Admit, TypeOK
  <2>7. QED
    BY <1>4, <2>3, <2>4, <2>5, <2>6 DEF Admit, TypeOK
<1>5. CASE UNCHANGED vars
  BY <1>5 DEF vars, TypeOK, NoEmptyDeque
<1>6. QED
  BY <1>1, <1>2, <1>3, <1>4, <1>5 DEF Next

(* No client's deque ever exceeds the limit, and all types are kept.       *)
THEOREM TypeCorrect == Spec => []TypeOK
<1>1. Inv => TypeOK
  BY DEF Inv
<1>2. QED
  BY <1>1, InvInit, InvNext, PTL DEF Spec

(* The periodic sweep, which removes empty deques, never finds one: what   *)
(* sWindows holds for a client stays for as long as the process runs.      *)
THEOREM NothingToSweep == Spec => []NoEmptyDeque
<1>1. Inv => NoEmptyDeque
  BY DEF Inv
<1>2. QED
  BY <1>1, InvInit, InvNext, PTL DEF Spec

-----------------------------------------------------------------------------
(* What a client is let through, and refused, in a window.                 *)

(* Requests of k that have left its deque.                                 *)
Popped(k) == Len(accepted[k]) - (IF k \in DOMAIN windows THEN Len(windows[k]) ELSE 0)

(* A deque is the end of what was let through.                             *)
DequeIsSuffix ==
    \A k \in Keys :
       /\ k \notin DOMAIN windows => accepted[k] = <<>>
       /\ k \in DOMAIN windows =>
             /\ Popped(k) \in Nat
             /\ \A q \in 1 .. Len(windows[k]) : windows[k][q] = accepted[k][Popped(k) + q]

(* What the window that opens at i has let through, and the threads that   *)
(* hold a stamp of k in T.                                                 *)
In(k, i)      == {n \in DOMAIN accepted[k] : accepted[k][n] \in i .. i + WindowSeconds}
Holding(k, T) == {t \in Threads : held[t] # None /\ held[t].key = k /\ held[t].now \in T}

(* Either nothing of the window has left the deque, or the window is over: *)
(* only threads that hold a stamp of it may still be let through.          *)
Budget(k, i) ==
    \/ \A n \in In(k, i) : n > Popped(k)
    \/ /\ clock > i + WindowSeconds
       /\ Cardinality(In(k, i)) + Cardinality(Holding(k, i .. i + WindowSeconds))
             <= MaxRequests + Others

(* The requests let through after p with an older stamp than p has.        *)
Later(k, p) == {n \in DOMAIN accepted[k] : n > p /\ accepted[k][n] < accepted[k][p]}

(* Whoever is, or will be, let through after p with an older stamp than p's *)
(* held that stamp when p was let through.                                 *)
Latecomers(k, p) ==
    Cardinality(Later(k, p)) + Cardinality(Holding(k, 0 .. accepted[k][p] - 1)) <= Others

CountInv ==
    /\ DequeIsSuffix
    /\ \A k \in Keys, i \in Times : Budget(k, i)
    /\ \A k \in Keys : \A p \in DOMAIN accepted[k] : Latecomers(k, p)

(* Trimming drops the longest prefix of old stamps.                        *)
LEMMA TrimDrops ==
    ASSUME NEW S \in SUBSET Nat, NEW dq \in Seq(S), NEW cutoff \in Int
    PROVE  \E d \in 0 .. Len(dq) :
              /\ Len(Trim(dq, cutoff)) = Len(dq) - d
              /\ \A q \in 1 .. Len(dq) - d : Trim(dq, cutoff)[q] = dq[d + q]
              /\ \A q \in 1 .. d : dq[q] < cutoff
              /\ d < Len(dq) => dq[d + 1] >= cutoff
<1> DEFINE kept == {i \in 1 .. Len(dq) : dq[i] >= cutoff}
<1>0. Len(dq) \in Nat /\ \A q \in 1 .. Len(dq) : dq[q] \in Nat
  <2> HIDE DEF kept
  <2>1. Len(dq) \in Nat /\ \A q \in 1 .. Len(dq) : dq[q] \in S
    OBVIOUS
  <2>2. QED
    BY <2>1
<1>1. CASE kept = {}
  <2>1. Trim(dq, cutoff) = <<>>
    BY <1>1 DEF Trim
  <2>2. \A q \in 1 .. Len(dq) : dq[q] < cutoff
    BY <1>0, <1>1
  <2>3. QED
    BY <1>0, <2>1, <2>2
<1>2. CASE kept # {}
  <2> DEFINE m == Min(kept)
  <2>1. m \in kept /\ \A x \in kept : m <= x
    <3>1. kept \in SUBSET Nat
      OBVIOUS
    <3> HIDE DEF kept
    <3>2. QED
      BY <1>2, <3>1, LeastMember
  <2>2. Trim(dq, cutoff) = SubSeq(dq, m, Len(dq))
    BY <1>2 DEF Trim
  <2> HIDE DEF m
  <2>3. m \in 1 .. Len(dq) /\ dq[m] >= cutoff
    BY <2>1
  <2>4. m - 1 \in 0 .. Len(dq) /\ m - 1 < Len(dq) /\ m - 1 + 1 = m
    BY <1>0, <2>3
  <2>5. ASSUME NEW q \in 1 .. m - 1 PROVE dq[q] < cutoff
    BY <1>0, <2>1, <2>3
  <2>6. /\ Len(SubSeq(dq, m, Len(dq))) = Len(dq) - (m - 1)
        /\ \A q \in 1 .. Len(dq) - (m - 1) : SubSeq(dq, m, Len(dq))[q] = dq[m - 1 + q]
    <3>1. \A i \in m .. Len(dq) : dq[i] \in S
      BY <2>3
    <3>2. /\ Len(SubSeq(dq, m, Len(dq))) = Len(dq) - m + 1
          /\ \A q \in 1 .. Len(dq) - m + 1 : SubSeq(dq, m, Len(dq))[q] = dq[m + q - 1]
      BY <1>0, <2>3, <3>1, SubSeqProperties
    <3>3. QED
      BY <1>0, <2>3, <3>2
  <2>7. QED
    BY <2>2, <2>3, <2>4, <2>5, <2>6
<1>3. QED
  BY <1>1, <1>2

(* The deque a thread finds under the mutex, after its trim: the requests   *)
(* let through after the first `pop`.                                      *)
IsEnd(dq, k, pop) ==
    /\ pop \in 0 .. Len(accepted[k]) /\ Len(dq) = Len(accepted[k]) - pop
    /\ \A q \in 1 .. Len(dq) : dq[q] = accepted[k][pop + q]

LEMMA WindowIsSuffix ==
    ASSUME Inv, DequeIsSuffix, NEW t \in Threads, held[t] # None
    PROVE  \E pop \in Nat :
              /\ IsEnd(Window(t), held[t].key, pop) /\ Popped(held[t].key) <= pop
              /\ \A n \in Popped(held[t].key) + 1 .. pop :
                    accepted[held[t].key][n] < held[t].now - WindowSeconds
              /\ pop < Len(accepted[held[t].key]) =>
                    accepted[held[t].key][pop + 1] >= held[t].now - WindowSeconds
<1> DEFINE k == held[t].key
           cutoff == held[t].now - WindowSeconds
<1>1. /\ k \in Keys /\ held[t].now \in 0 .. clock /\ clock \in Nat
      /\ accepted[k] \in Seq(0 .. clock)
  BY WindowType DEF Inv, TypeOK
<1>2. cutoff \in Int /\ 0 .. clock \in SUBSET Nat
  BY <1>1, RateLimitAssumption
<1>3. CASE k \notin DOMAIN windows
  <2>1. Window(t) = <<>>
    BY <1>3 DEF Window
  <2>2. accepted[k] = <<>>
    BY <1>1, <1>3 DEF DequeIsSuffix
  <2>3. Popped(k) = 0
    BY <1>3, <2>2 DEF Popped
  <2>4. IsEnd(<<>>, k, 0)
    BY <2>2 DEF IsEnd
  <2>5. QED
    BY <2>1, <2>2, <2>3, <2>4
<1>4. CASE k \in DOMAIN windows
  <2> DEFINE dq == windows[k]
  <2>1. dq \in Seq(0 .. clock) /\ Window(t) = Trim(dq, cutoff)
    BY <1>4 DEF Inv, TypeOK, Window
  <2>2. /\ Popped(k) \in Nat /\ Popped(k) = Len(accepted[k]) - Len(dq)
        /\ \A q \in 1 .. Len(dq) : dq[q] = accepted[k][Popped(k) + q]
    BY <1>1, <1>4 DEF DequeIsSuffix, Popped
  <2> HIDE DEF dq, k, cutoff
  <2>3. PICK d \in 0 .. Len(dq) :
              /\ Len(Window(t)) = Len(dq) - d
              /\ \A q \in 1 .. Len(dq) - d : Window(t)[q] = dq[d + q]
              /\ \A q \in 1 .. d : dq[q] < cutoff
              /\ d < Len(dq) => dq[d + 1] >= cutoff
    <3>1. \E d \in 0 .. Len(dq) :
              /\ Len(Trim(dq, cutoff)) = Len(dq) - d
              /\ \A q \in 1 .. Len(dq) - d : Trim(dq, cutoff)[q] = dq[d + q]
              /\ \A q \in 1 .. d : dq[q] < cutoff
              /\ d < Len(dq) => dq[d + 1] >= cutoff
      <4> DEFINE S == 0 .. clock
      <4>1. dq \in Seq(S) /\ S \in SUBSET Nat /\ cutoff \in Int
        BY <1>2, <2>1
      <4> HIDE DEF S
      <4>2. QED
        BY <4>1, TrimDrops
    <3>2. QED
      BY <2>1, <3>1
  <2> DEFINE pop == Popped(k) + d
  <2>4. /\ Len(dq) \in Nat /\ Len(accepted[k]) \in Nat /\ Popped(k) \in Nat
        /\ d \in Nat /\ d <= Len(dq) /\ Len(Window(t)) = Len(dq) - d
        /\ Len(accepted[k]) = Popped(k) + Len(dq)
    BY <1>1, <2>1, <2>2, <2>3
  <2>5. IsEnd(Window(t), k, pop)
    <3>1. ASSUME NEW q \in 1 .. Len(Window(t)) PROVE Window(t)[q] = accepted[k][pop + q]
      <4>1. q \in 1 .. Len(dq) - d /\ d + q \in 1 .. Len(dq) /\ Popped(k) + (d + q) = pop + q
        BY <2>4
      <4>2. QED
        BY <2>2, <2>3, <4>1
    <3>2. QED
      BY <2>4, <3>1 DEF IsEnd
  <2>6. ASSUME NEW n \in Popped(k) + 1 .. pop PROVE accepted[k][n] < cutoff
    <3>1. n - Popped(k) \in 1 .. d /\ n - Popped(k) \in 1 .. Len(dq)
          /\ Popped(k) + (n - Popped(k)) = n
      BY <2>4
    <3>2. accepted[k][n] = dq[n - Popped(k)]
      BY <2>2, <3>1
    <3>3. QED
      BY <2>3, <3>1, <3>2
  <2>7. ASSUME pop < Len(accepted[k]) PROVE accepted[k][pop + 1] >= cutoff
    <3>1. d < Len(dq) /\ d + 1 \in 1 .. Len(dq) /\ Popped(k) + (d + 1) = pop + 1
      BY <2>4, <2>7
    <3>2. QED
      BY <2>2, <2>3, <3>1
  <2>8. pop \in Nat /\ Popped(k) <= pop
    BY <2>4
  <2>9. \A n \in Popped(k) + 1 .. pop : accepted[k][n] < cutoff
    BY <2>6
  <2> HIDE DEF pop
  <2>10. \E to \in Nat :
            /\ IsEnd(Window(t), k, to) /\ Popped(k) <= to
            /\ \A n \in Popped(k) + 1 .. to : accepted[k][n] < cutoff
            /\ to < Len(accepted[k]) => accepted[k][to + 1] >= cutoff
    BY <2>5, <2>7, <2>8, <2>9
  <2>11. QED
    BY <2>10 DEF k, cutoff
<1>5. QED
  BY <1>3, <1>4


(* The sets that are counted are finite.                                   *)
LEMMA CountsAreNumbers ==
    ASSUME TypeOK, NEW k \in Keys
    PROVE  /\ clock \in Nat /\ accepted[k] \in Seq(0 .. clock)
           /\ DOMAIN accepted[k] = 1 .. Len(accepted[k]) /\ Len(accepted[k]) \in Nat
           /\ \A n \in DOMAIN accepted[k] : accepted[k][n] \in 0 .. clock
           /\ \A i : IsFiniteSet(In(k, i)) /\ Cardinality(In(k, i)) \in Nat
           /\ \A p : IsFiniteSet(Later(k, p)) /\ Cardinality(Later(k, p)) \in Nat
           /\ \A T : /\ Holding(k, T) \subseteq Threads
                    /\ IsFiniteSet(Holding(k, T)) /\ Cardinality(Holding(k, T)) \in Nat
<1>1. clock \in Nat /\ accepted[k] \in Seq(0 .. clock)
  BY RateLimitAssumption DEF TypeOK, Times
<1>2. DOMAIN accepted[k] = 1 .. Len(accepted[k]) /\ Len(accepted[k]) \in Nat
  BY <1>1
<1>3. \A n \in DOMAIN accepted[k] : accepted[k][n] \in 0 .. clock
  BY <1>1
<1>4. IsFiniteSet(DOMAIN accepted[k])
  BY <1>2, FS_Interval
<1>5. ASSUME NEW i PROVE IsFiniteSet(In(k, i)) /\ Cardinality(In(k, i)) \in Nat
  <2>1. In(k, i) \in SUBSET DOMAIN accepted[k]
    BY DEF In
  <2>2. QED
    BY <1>4, <2>1, FS_Subset, FS_CardinalityType
<1>6. ASSUME NEW p PROVE IsFiniteSet(Later(k, p)) /\ Cardinality(Later(k, p)) \in Nat
  <2>1. Later(k, p) \in SUBSET DOMAIN accepted[k]
    BY DEF Later
  <2>2. QED
    BY <1>4, <2>1, FS_Subset, FS_CardinalityType
<1>7. ASSUME NEW T
      PROVE  /\ Holding(k, T) \subseteq Threads
             /\ IsFiniteSet(Holding(k, T)) /\ Cardinality(Holding(k, T)) \in Nat
  <2>1. Holding(k, T) \in SUBSET Threads
    BY DEF Holding
  <2>2. QED
    BY <2>1, FS_Subset, FS_CardinalityType, RateLimitAssumption
<1>8. QED
  BY <1>1, <1>2, <1>3, <1>5, <1>6, <1>7

(* Threads without t are at most Others.                                   *)
LEMMA WithoutOne ==
    ASSUME NEW t \in Threads, NEW H \in SUBSET (Threads \ {t})
    PROVE  IsFiniteSet(H) /\ Cardinality(H) <= Others /\ Cardinality(H) \in Nat /\ Others \in Nat
<1>1. IsFiniteSet(Threads \ {t}) /\ Cardinality(Threads \ {t}) = Others
  BY FS_RemoveElement, RateLimitAssumption DEF Others
<1>2. QED
  BY <1>1, FS_Subset, FS_CardinalityType

LEMMA OthersIsNat == Others \in Nat
<1>1. PICK t : t \in Threads
  BY RateLimitAssumption
<1>2. {} \in SUBSET (Threads \ {t})
  OBVIOUS
<1>3. QED
  BY <1>1, <1>2, WithoutOne

(* A thread that is let through hands one over.                            *)
LEMMA HandOver ==
    ASSUME NEW A, IsFiniteSet(A), NEW x, x \notin A,
           NEW H, IsFiniteSet(H), NEW t \in H
    PROVE  Cardinality(A \union {x}) + Cardinality(H \ {t}) = Cardinality(A) + Cardinality(H)
<1>1. Cardinality(A) \in Nat /\ Cardinality(H) \in Nat
  BY FS_CardinalityType
<1>2. Cardinality(A \union {x}) = Cardinality(A) + 1
  BY FS_AddElement
<1>3. Cardinality(H \ {t}) = Cardinality(H) - 1
  BY FS_RemoveElement
<1>4. QED
  BY <1>1, <1>2, <1>3

(* A request under the mutex replaces one deque.                           *)
LEMMA StoreKeepsSuffix ==
    ASSUME DequeIsSuffix, NEW k \in Keys, NEW dq, NEW pop \in Nat,
           windows' = Stored(k, dq),
           \A x \in Keys \ {k} : accepted'[x] = accepted[x],
           Len(accepted'[k]) \in Nat, Len(dq) \in Nat,
           pop = Len(accepted'[k]) - Len(dq),
           \A q \in 1 .. Len(dq) : dq[q] = accepted'[k][pop + q]
    PROVE  /\ DequeIsSuffix' /\ Popped(k)' = pop
           /\ \A x \in Keys \ {k} : Popped(x)' = Popped(x)
<1>1. k \in DOMAIN windows' /\ windows'[k] = dq
  BY DEF Stored
<1>2. \A x \in Keys \ {k} : /\ x \in DOMAIN windows' <=> x \in DOMAIN windows
                            /\ x \in DOMAIN windows => windows'[x] = windows[x]
  BY DEF Stored
<1>3. Popped(k)' = pop
  BY <1>1 DEF Popped
<1>4. \A x \in Keys \ {k} : Popped(x)' = Popped(x)
  BY <1>2 DEF Popped
<1>5. ASSUME NEW x \in Keys, x \notin DOMAIN windows' PROVE accepted'[x] = <<>>
  BY <1>1, <1>2, <1>5 DEF DequeIsSuffix
<1>6. ASSUME NEW x \in Keys, x \in DOMAIN windows'
      PROVE  /\ Popped(x)' \in Nat
             /\ \A q \in 1 .. Len(windows'[x]) : windows'[x][q] = accepted'[x][Popped(x)' + q]
  <2>1. CASE x = k
    BY <1>1, <1>3, <2>1
  <2>2. CASE x # k
    BY <1>2, <1>4, <1>6, <2>2 DEF DequeIsSuffix
  <2>3. QED
    BY <2>1, <2>2
<1>7. QED
  BY <1>3, <1>4, <1>5, <1>6 DEF DequeIsSuffix

(* A window none of whose requests left the deque fits in the deque.       *)
LEMMA KeptWindowFits ==
    ASSUME Inv, DequeIsSuffix, NEW k \in Keys, NEW i \in Times,
           \A n \in In(k, i) : n > Popped(k)
    PROVE  Cardinality(In(k, i)) <= MaxRequests
<1>1. /\ Len(accepted[k]) \in Nat /\ DOMAIN accepted[k] = 1 .. Len(accepted[k])
  BY CountsAreNumbers DEF Inv
<1>2. /\ Popped(k) \in Nat /\ Len(accepted[k]) - Popped(k) <= MaxRequests
      /\ Popped(k) <= Len(accepted[k])
  <2>1. CASE k \in DOMAIN windows
    <3>1. Len(windows[k]) \in Nat /\ Len(windows[k]) <= MaxRequests
      BY <2>1 DEF Inv, TypeOK
    <3>2. Popped(k) = Len(accepted[k]) - Len(windows[k]) /\ Popped(k) \in Nat
      BY <2>1 DEF Popped, DequeIsSuffix
    <3> DEFINE a == Len(accepted[k])
               w == Len(windows[k])
               o == Popped(k)
    <3>3. a \in Nat /\ w \in Nat /\ w <= MaxRequests /\ o = a - w /\ o \in Nat /\ MaxRequests \in Nat
      BY <1>1, <3>1, <3>2, RateLimitAssumption
    <3> HIDE DEF a, w, o
    <3>4. o \in Nat /\ a - o <= MaxRequests /\ o <= a
      BY <3>3
    <3>5. QED
      BY <3>4 DEF a, o
  <2>2. CASE k \notin DOMAIN windows
    <3>1. accepted[k] = <<>>
      BY <2>2 DEF DequeIsSuffix
    <3>2. Popped(k) = 0 /\ Len(accepted[k]) = 0
      BY <2>2, <3>1 DEF Popped
    <3>3. QED
      BY <3>2, RateLimitAssumption
  <2>3. QED
    BY <2>1, <2>2
<1> DEFINE a == Popped(k) + 1
           b == Len(accepted[k])
<1>3. a \in Int /\ b \in Int
  BY <1>1, <1>2
<1>4. In(k, i) \in SUBSET (a .. b)
  BY <1>1, <1>2 DEF In
<1>5. IsFiniteSet(a .. b) /\ Cardinality(a .. b) = IF a > b THEN 0 ELSE b - a + 1
  <2> HIDE DEF a, b
  <2>1. QED
    BY <1>3, FS_Interval
<1>6. Cardinality(a .. b) <= MaxRequests
  BY <1>1, <1>2, <1>5, RateLimitAssumption
<1>7. Cardinality(In(k, i)) <= Cardinality(a .. b)
  <2> HIDE DEF a, b
  <2>1. QED
    BY <1>4, <1>5, FS_Subset
<1>8. Cardinality(In(k, i)) \in Nat /\ Cardinality(a .. b) \in Nat
  <2>1. Cardinality(In(k, i)) \in Nat
    BY CountsAreNumbers DEF Inv
  <2>2. Cardinality(a .. b) \in Nat
    <3> HIDE DEF a, b
    <3>1. QED BY <1>5, FS_CardinalityType
  <2>3. QED
    BY <2>1, <2>2
<1>9. QED
  <2> HIDE DEF a, b
  <2>1. QED BY <1>6, <1>7, <1>8, RateLimitAssumption

(* When a trim pops a request of a window, that window is over, for the    *)
(* thread that trims too.                                                  *)
LEMMA PopEndsWindow ==
    ASSUME Inv, NEW t \in Threads, held[t] # None, NEW i \in Times,
           NEW n \in In(held[t].key, i),
           accepted[held[t].key][n] < held[t].now - WindowSeconds
    PROVE  clock > i + WindowSeconds /\ held[t].now > i + WindowSeconds
<1>1. /\ held[t].key \in Keys /\ held[t].now \in 0 .. clock /\ clock \in Nat
  BY WindowType DEF Inv
<1>2. n \in DOMAIN accepted[held[t].key]
      /\ accepted[held[t].key][n] \in i .. i + WindowSeconds
  BY DEF In
<1>3. accepted[held[t].key][n] \in Int /\ i \in Int /\ accepted[held[t].key][n] >= i
  BY <1>2, RateLimitAssumption DEF Times
<1>4. QED
  BY <1>1, <1>3, RateLimitAssumption

LEMMA TickCounts ==
    ASSUME Inv, CountInv, Tick
    PROVE  CountInv'
<1>1. UNCHANGED <<windows, held, accepted>> /\ clock \in Nat /\ clock' = clock + 1
  BY RateLimitAssumption DEF Tick, Inv, TypeOK, Times
<1>2. \A k \in Keys : Popped(k)' = Popped(k)
  BY <1>1 DEF Popped
<1>3. DequeIsSuffix'
  BY <1>1, <1>2 DEF CountInv, DequeIsSuffix
<1>4. \A k \in Keys, i \in Times : Budget(k, i)'
  <2> SUFFICES ASSUME NEW k \in Keys, NEW i \in Times PROVE Budget(k, i)'
    OBVIOUS
  <2>1. Budget(k, i) /\ In(k, i)' = In(k, i) /\ i \in Int
        /\ Holding(k, i .. i + WindowSeconds)' = Holding(k, i .. i + WindowSeconds)
    BY <1>1 DEF CountInv, In, Holding, Times
  <2>2. clock > i + WindowSeconds => clock' > i + WindowSeconds
    BY <1>1, <2>1, RateLimitAssumption
  <2>3. QED
    BY <1>2, <2>1, <2>2 DEF Budget
<1>5. \A k \in Keys : \A p \in DOMAIN accepted'[k] : Latecomers(k, p)'
  BY <1>1 DEF CountInv, Latecomers, Later, Holding
<1>6. QED
  BY <1>3, <1>4, <1>5 DEF CountInv

(* A new stamp is of no window that is over, and older than none accepted. *)
LEMMA StampCounts ==
    ASSUME Inv, CountInv, NEW t \in Threads, Stamp(t)
    PROVE  CountInv'
<1>1. PICK q \in Requests :
         /\ held[t] = None
         /\ held' = [held EXCEPT ![t] = [key |-> rateKey(q), now |-> clock]]
         /\ UNCHANGED <<clock, windows, calls, accepted>>
  BY DEF Stamp
<1>2. clock \in Nat /\ held \in [Threads -> [key : Keys, now : 0 .. clock] \union {None}]
  BY RateLimitAssumption DEF Inv, TypeOK, Times
<1>3. ASSUME NEW k, NEW T, clock \notin T PROVE Holding(k, T)' = Holding(k, T)
  BY <1>1, <1>2, <1>3 DEF Holding
<1>4. \A k \in Keys : Popped(k)' = Popped(k)
  BY <1>1 DEF Popped
<1>5. DequeIsSuffix'
  BY <1>1, <1>4 DEF CountInv, DequeIsSuffix
<1>6. \A k \in Keys, i \in Times : Budget(k, i)'
  <2> SUFFICES ASSUME NEW k \in Keys, NEW i \in Times PROVE Budget(k, i)'
    OBVIOUS
  <2>1. Budget(k, i) /\ In(k, i)' = In(k, i) /\ i \in Int
    BY <1>1 DEF CountInv, In, Times
  <2>2. CASE \A n \in In(k, i) : n > Popped(k)
    BY <1>4, <2>1, <2>2 DEF Budget
  <2>3. CASE clock > i + WindowSeconds
    <3>1. clock \notin i .. i + WindowSeconds
      BY <1>2, <2>1, <2>3, RateLimitAssumption
    <3>2. Holding(k, i .. i + WindowSeconds)' = Holding(k, i .. i + WindowSeconds)
      BY <1>3, <3>1
    <3>3. QED
      BY <1>1, <1>4, <2>1, <3>2 DEF Budget
  <2>4. QED
    BY <2>1, <2>2, <2>3 DEF Budget
<1>7. \A k \in Keys : \A p \in DOMAIN accepted'[k] : Latecomers(k, p)'
  <2> SUFFICES ASSUME NEW k \in Keys, NEW p \in DOMAIN accepted'[k] PROVE Latecomers(k, p)'
    OBVIOUS
  <2>1. Latecomers(k, p) /\ Later(k, p)' = Later(k, p) /\ accepted[k][p] \in 0 .. clock
    BY <1>1, CountsAreNumbers DEF CountInv, Later, Inv
  <2>2. clock \notin 0 .. accepted[k][p] - 1
    BY <1>2, <2>1
  <2>3. Holding(k, 0 .. accepted[k][p] - 1)' = Holding(k, 0 .. accepted[k][p] - 1)
    <3> DEFINE T == 0 .. accepted[k][p] - 1
    <3>1. T' = T
      BY <1>1
    <3>2. QED
      BY <1>1, <1>2, <2>2 DEF Holding
  <2>4. QED
    BY <2>1, <2>3 DEF Latecomers
<1>8. QED
  BY <1>5, <1>6, <1>7 DEF CountInv


(* A thread refused gives up its stamp.                                    *)
LEMMA RefuseCounts ==
    ASSUME Inv, CountInv, NEW t \in Threads, Refuse(t)
    PROVE  CountInv'
<1>0. PICK k \in Keys : k = held[t].key
  BY WindowType DEF Refuse, Inv
<1>1. /\ held[t] # None /\ windows' = Stored(k, Window(t)) /\ accepted' = accepted
      /\ held' = [held EXCEPT ![t] = None] /\ clock' = clock
  BY <1>0 DEF Refuse
<1>2. k \in Keys /\ clock \in Nat /\ DOMAIN held = Threads
  BY <1>0, <1>1, WindowType DEF Inv, TypeOK
<1>3. PICK pop \in Nat :
         /\ IsEnd(Window(t), k, pop) /\ Popped(k) <= pop
         /\ \A n \in Popped(k) + 1 .. pop : accepted[k][n] < held[t].now - WindowSeconds
  BY <1>0, <1>1, WindowIsSuffix DEF CountInv
<1>4. Len(accepted[k]) \in Nat
  BY <1>2, CountsAreNumbers DEF Inv
<1>5. /\ Len(Window(t)) \in Nat /\ pop = Len(accepted[k]) - Len(Window(t))
      /\ \A q \in 1 .. Len(Window(t)) : Window(t)[q] = accepted[k][pop + q]
  BY <1>3, <1>4 DEF IsEnd
<1>6. /\ DequeIsSuffix' /\ Popped(k)' = pop
      /\ \A x \in Keys \ {k} : Popped(x)' = Popped(x)
  BY <1>1, <1>2, <1>3, <1>4, <1>5, StoreKeepsSuffix DEF CountInv
<1>7. \A x, T : Holding(x, T)' = Holding(x, T) \ {t}
  BY <1>1, <1>2 DEF Holding
<1>8. \A x \in Keys : \A T : Cardinality(Holding(x, T) \ {t}) <= Cardinality(Holding(x, T))
                       /\ Cardinality(Holding(x, T) \ {t}) \in Nat
  <2> SUFFICES ASSUME NEW x \in Keys, NEW T
               PROVE  /\ Cardinality(Holding(x, T) \ {t}) <= Cardinality(Holding(x, T))
                      /\ Cardinality(Holding(x, T) \ {t}) \in Nat
    OBVIOUS
  <2>1. IsFiniteSet(Holding(x, T)) /\ Holding(x, T) \ {t} \in SUBSET Holding(x, T)
    BY CountsAreNumbers DEF Inv
  <2>2. QED
    BY <2>1, FS_Subset, FS_CardinalityType
<1>9. \A x \in Keys, i \in Times : Budget(x, i)'
  <2> SUFFICES ASSUME NEW x \in Keys, NEW i \in Times PROVE Budget(x, i)'
    OBVIOUS
  <2> DEFINE H == Holding(x, i .. i + WindowSeconds)
  <2>1. Budget(x, i) /\ In(x, i)' = In(x, i) /\ Popped(x)' \in {Popped(x), pop}
    <3>1. Budget(x, i) /\ In(x, i)' = In(x, i)
      BY <1>1 DEF CountInv, In
    <3>2. Popped(x)' \in {Popped(x), pop}
      BY <1>6
    <3>3. QED
      BY <3>1, <3>2
  <2>2. H' = H \ {t} /\ Cardinality(H \ {t}) <= Cardinality(H)
        /\ Cardinality(H \ {t}) \in Nat /\ Cardinality(H) \in Nat /\ Cardinality(In(x, i)) \in Nat
    BY <1>7, <1>8, CountsAreNumbers DEF Inv
  <2>3. MaxRequests + Others \in Nat /\ MaxRequests \in Nat
    BY OthersIsNat, RateLimitAssumption
  <2>4. CASE /\ clock > i + WindowSeconds
             /\ Cardinality(In(x, i)) + Cardinality(H) <= MaxRequests + Others
    <3> HIDE DEF H
    <3>1. Cardinality(In(x, i)) + Cardinality(H \ {t}) <= MaxRequests + Others
      BY <2>2, <2>3, <2>4
    <3>2. QED
      BY <1>1, <2>1, <2>2, <2>4, <3>1 DEF Budget, H
  <2>5. CASE \A n \in In(x, i) : n > Popped(x)
    <3>1. CASE \A n \in In(x, i) : n > Popped(x)'
      BY <2>1, <3>1 DEF Budget
    <3>2. CASE \E n \in In(x, i) : ~(n > Popped(x)')
      <4>1. PICK n \in In(x, i) : ~(n > Popped(x)') /\ n > Popped(x)
        BY <2>5, <3>2
      <4>2. x = k
        BY <1>6, <4>1
      <4>3. n \in 1 .. Len(accepted[k]) /\ Popped(k) \in Int
        <5>1. n \in 1 .. Len(accepted[k])
          BY <4>1, <4>2, <1>2, CountsAreNumbers DEF In, Inv
        <5>2. Popped(k) \in Int
          BY <1>2, <1>4 DEF Popped, CountInv, DequeIsSuffix, Inv, TypeOK
        <5>3. QED
          BY <5>1, <5>2
      <4>4. accepted[k][n] < held[t].now - WindowSeconds
        <5>1. n \in Popped(k) + 1 .. pop
          BY <1>6, <4>1, <4>2, <4>3
        <5>2. QED
          BY <1>3, <5>1
      <4>5. clock > i + WindowSeconds
        BY <1>0, <1>1, <4>1, <4>2, <4>4, PopEndsWindow
      <4>6. Cardinality(In(x, i)) <= MaxRequests
        BY <2>5, KeptWindowFits DEF CountInv
      <4>7. Cardinality(H \ {t}) <= Others /\ Others \in Nat
        <5>1. H \ {t} \in SUBSET (Threads \ {t})
          BY DEF Holding
        <5> HIDE DEF H
        <5>2. QED
          BY <5>1, WithoutOne
      <4>8. Cardinality(In(x, i)) + Cardinality(H \ {t}) <= MaxRequests + Others
        <5> HIDE DEF H
        <5>1. QED
          BY <2>2, <2>3, <4>6, <4>7
      <4>9. QED
        BY <1>1, <2>1, <2>2, <4>5, <4>8 DEF Budget
    <3>3. QED
      BY <3>1, <3>2
  <2>6. QED
    BY <2>1, <2>4, <2>5 DEF Budget
<1>10. \A x \in Keys : \A p \in DOMAIN accepted'[x] : Latecomers(x, p)'
  <2> SUFFICES ASSUME NEW x \in Keys, NEW p \in DOMAIN accepted[x] PROVE Latecomers(x, p)'
    BY <1>1
  <2> DEFINE H == Holding(x, 0 .. accepted[x][p] - 1)
  <2>1. Cardinality(Later(x, p)) + Cardinality(H) <= Others /\ Later(x, p)' = Later(x, p)
    BY <1>1 DEF CountInv, Latecomers, Later
  <2>2. /\ Cardinality(H \ {t}) <= Cardinality(H) /\ Cardinality(H \ {t}) \in Nat
        /\ Cardinality(H) \in Nat /\ Cardinality(Later(x, p)) \in Nat
    BY <1>8, CountsAreNumbers DEF Inv
  <2>3. Holding(x, 0 .. accepted[x][p] - 1)' = H \ {t}
    BY <1>1, <1>2 DEF Holding
  <2>4. Others \in Nat
    BY OthersIsNat
  <2> HIDE DEF H
  <2>5. Cardinality(Later(x, p)) + Cardinality(H \ {t}) <= Others
    BY <2>1, <2>2, <2>4
  <2>6. QED
    BY <1>1, <2>1, <2>3, <2>5 DEF Latecomers
<1>11. QED
  BY <1>6, <1>9, <1>10 DEF CountInv


(* A thread let through turns its stamp into one of the deque.             *)
LEMMA AdmitCounts ==
    ASSUME Inv, CountInv, NEW t \in Threads, Admit(t)
    PROVE  CountInv'
<1>0. PICK k \in Keys, now \in 0 .. clock : k = held[t].key /\ now = held[t].now
  BY WindowType DEF Admit, Inv
<1> DEFINE dq == Append(Window(t), now)
           L == Len(accepted[k])
<1>1. /\ held[t] # None /\ windows' \in {Stored(k, dq), Swept(Stored(k, dq))}
      /\ accepted' = [accepted EXCEPT ![k] = Append(@, now)]
      /\ held' = [held EXCEPT ![t] = None] /\ clock' = clock
  BY <1>0 DEF Admit
<1>2. clock \in Nat /\ now \in Nat /\ now <= clock /\ DOMAIN held = Threads /\ DOMAIN accepted = Keys
  BY <1>0, <1>1, WindowType DEF Inv, TypeOK
<1>3. PICK pop \in Nat :
         /\ IsEnd(Window(t), k, pop) /\ Popped(k) <= pop
         /\ \A n \in Popped(k) + 1 .. pop : accepted[k][n] < now - WindowSeconds
  BY <1>0, <1>1, WindowIsSuffix DEF CountInv
<1>4. /\ L \in Nat /\ accepted[k] \in Seq(0 .. clock) /\ DOMAIN accepted[k] = 1 .. L
      /\ Window(t) \in Seq(0 .. clock)
  BY <1>0, <1>1, CountsAreNumbers, WindowType DEF Inv
<1>5. accepted'[k] = Append(accepted[k], now) /\ \A x \in Keys \ {k} : accepted'[x] = accepted[x]
  BY <1>1, <1>2
<1>6. /\ Len(accepted'[k]) = L + 1 /\ DOMAIN accepted'[k] = 1 .. L + 1
      /\ accepted'[k][L + 1] = now /\ \A n \in 1 .. L : accepted'[k][n] = accepted[k][n]
  BY <1>4, <1>5
<1>7. windows' = Stored(k, dq)
  <2>1. dq # <<>>
    BY <1>4
  <2>2. Swept(Stored(k, dq)) = Stored(k, dq)
    <3> HIDE DEF dq
    <3>1. \A x \in DOMAIN Stored(k, dq) : Stored(k, dq)[x] # <<>>
      BY <2>1 DEF Inv, NoEmptyDeque, Stored
    <3>2. {y \in DOMAIN Stored(k, dq) : Stored(k, dq)[y] # <<>>} = DOMAIN windows \union {k}
      BY <3>1 DEF Stored
    <3>3. QED
      BY <3>2 DEF Swept, Stored
  <2>3. QED
    BY <1>1, <2>2
<1>8. /\ Len(dq) \in Nat /\ pop = Len(accepted'[k]) - Len(dq) /\ pop <= L
      /\ \A q \in 1 .. Len(dq) : dq[q] = accepted'[k][pop + q]
  <2>1. pop \in 0 .. L /\ Len(Window(t)) = L - pop /\ Len(dq) = L - pop + 1
        /\ \A q \in 1 .. L - pop : Window(t)[q] = accepted[k][pop + q] /\ dq[q] = Window(t)[q]
    BY <1>3, <1>4 DEF IsEnd
  <2>2. dq[L - pop + 1] = now
    BY <1>4, <2>1
  <2> HIDE DEF dq, L
  <2>3. ASSUME NEW q \in 1 .. Len(dq) PROVE dq[q] = accepted'[k][pop + q]
    <3>1. CASE q = L - pop + 1
      <4>1. pop + q = L + 1
        BY <1>4, <2>1, <3>1
      <4>2. QED
        BY <1>6, <2>2, <3>1, <4>1
    <3>2. CASE q # L - pop + 1
      <4>1. q \in 1 .. L - pop /\ pop + q \in 1 .. L
        BY <1>4, <2>1, <3>2
      <4>2. QED
        BY <1>6, <2>1, <4>1
    <3>3. QED
      BY <3>1, <3>2
  <2>4. QED
    BY <1>4, <1>6, <2>1, <2>3
<1> HIDE DEF dq, L
<1>9. /\ DequeIsSuffix' /\ Popped(k)' = pop
      /\ \A x \in Keys \ {k} : Popped(x)' = Popped(x)
  <2>1. Len(accepted'[k]) \in Nat
    BY <1>4, <1>6
  <2>2. QED
    BY <1>3, <1>5, <1>7, <1>8, <2>1, StoreKeepsSuffix DEF CountInv
<1>10. \A x, T : Holding(x, T)' = Holding(x, T) \ {t}
  BY <1>1, <1>2 DEF Holding
<1>11. ASSUME NEW x \in Keys, NEW T
       PROVE  /\ Cardinality(Holding(x, T) \ {t}) <= Cardinality(Holding(x, T))
              /\ Cardinality(Holding(x, T) \ {t}) <= Others
              /\ Cardinality(Holding(x, T) \ {t}) \in Nat
              /\ Cardinality(Holding(x, T)) \in Nat /\ IsFiniteSet(Holding(x, T))
  <2>1. IsFiniteSet(Holding(x, T)) /\ Holding(x, T) \ {t} \in SUBSET Holding(x, T)
        /\ Cardinality(Holding(x, T)) \in Nat
    BY CountsAreNumbers DEF Inv
  <2>2. Holding(x, T) \ {t} \in SUBSET (Threads \ {t})
    BY DEF Holding
  <2>3. QED
    BY <2>1, <2>2, FS_Subset, WithoutOne
<1>12. Others \in Nat /\ MaxRequests \in Nat /\ MaxRequests + Others \in Nat
  BY OthersIsNat, RateLimitAssumption
<1>13. \A x \in Keys, i \in Times : Budget(x, i)'
  <2> SUFFICES ASSUME NEW x \in Keys, NEW i \in Times PROVE Budget(x, i)'
    OBVIOUS
  <2> DEFINE R == i .. i + WindowSeconds
             H == Holding(x, R)
  <2>1. Budget(x, i) /\ i \in Int
    BY DEF CountInv, Times
  <2>2. H' = H \ {t}
    BY <1>10
  <2>3. Cardinality(In(x, i)) \in Nat /\ IsFiniteSet(In(x, i))
    BY CountsAreNumbers DEF Inv
  <2>4. CASE /\ In(x, i)' = In(x, i)
             /\ (\A n \in In(x, i) : n > Popped(x)) => \A n \in In(x, i) : n > Popped(x)'
    <3>1. CASE \A n \in In(x, i) : n > Popped(x)
      BY <2>4, <3>1 DEF Budget
    <3>2. CASE /\ clock > i + WindowSeconds
               /\ Cardinality(In(x, i)) + Cardinality(H) <= MaxRequests + Others
      <4>1. Cardinality(In(x, i)) + Cardinality(H \ {t}) <= MaxRequests + Others
        <5>1. Cardinality(H \ {t}) <= Cardinality(H) /\ Cardinality(H \ {t}) \in Nat /\ Cardinality(H) \in Nat
          BY <1>11
        <5> HIDE DEF H
        <5>2. QED
          BY <1>12, <2>3, <3>2, <5>1
      <4>2. QED
        BY <1>1, <2>2, <2>4, <3>2, <4>1 DEF Budget
    <3>3. QED
      BY <2>1, <3>1, <3>2 DEF Budget
  <2>5. CASE x # k
    <3>1. In(x, i)' = In(x, i) /\ Popped(x)' = Popped(x)
      BY <1>5, <1>9, <2>5 DEF In
    <3>2. QED
      BY <2>4, <3>1
  <2>6. CASE x = k /\ \E n \in In(k, i) : n > Popped(k) /\ ~(n > pop)
    <3>1. PICK n \in In(k, i) : n > Popped(k) /\ ~(n > pop)
      BY <2>6
    <3>2. n \in 1 .. L /\ Popped(k) \in Int
      <4>1. n \in 1 .. L
        BY <1>4 DEF In
      <4>2. Popped(k) \in Int
        BY <1>4 DEF Popped, CountInv, DequeIsSuffix, Inv, TypeOK, L
      <4>3. QED
        BY <4>1, <4>2
    <3>3. n \in Popped(k) + 1 .. pop
      BY <1>3, <3>1, <3>2
    <3>4. clock > i + WindowSeconds /\ now > i + WindowSeconds
      <4>1. accepted[k][n] < now - WindowSeconds
        BY <1>3, <3>3
      <4>2. QED
        BY <1>0, <1>1, <4>1, PopEndsWindow
    <3>5. In(k, i)' = In(k, i)
      <4>1. now \notin R
        BY <1>2, <2>1, <3>4, RateLimitAssumption
      <4>2. QED
        BY <1>4, <1>6, <4>1 DEF In
    <3>6. CASE \A y \in In(k, i) : y > Popped(k)
      <4>1. Cardinality(In(k, i)) <= MaxRequests
        BY <3>6, KeptWindowFits DEF CountInv
      <4>2. Cardinality(H \ {t}) <= Others /\ Cardinality(H \ {t}) \in Nat
        BY <1>11
      <4> HIDE DEF H
      <4>3. Cardinality(In(k, i)) + Cardinality(H \ {t}) <= MaxRequests + Others
        BY <1>12, <2>3, <2>6, <4>1, <4>2
      <4>4. QED
        BY <1>1, <2>2, <2>6, <3>4, <3>5, <4>3 DEF Budget, H
    <3>7. CASE ~\A y \in In(k, i) : y > Popped(k)
      BY <2>4, <2>6, <3>5, <3>7
    <3>8. QED
      BY <3>6, <3>7
  <2>7. CASE x = k /\ \A n \in In(k, i) : n > Popped(k) => n > pop
    <3>1. CASE now \notin R
      <4>1. In(k, i)' = In(k, i)
        BY <1>4, <1>6, <3>1 DEF In
      <4>2. QED
        BY <1>9, <2>4, <2>7, <4>1
    <3>2. CASE now \in R
      <4>1. In(k, i)' = In(k, i) \union {L + 1} /\ L + 1 \notin In(k, i)
        BY <1>4, <1>6, <3>2 DEF In
      <4>2. CASE \A n \in In(k, i) : n > Popped(k)
        <5>1. \A n \in In(k, i)' : n > Popped(k)'
          BY <1>3, <1>4, <1>8, <1>9, <2>7, <4>1, <4>2
        <5>2. QED
          BY <2>7, <5>1 DEF Budget
      <4>3. CASE /\ clock > i + WindowSeconds
                 /\ Cardinality(In(x, i)) + Cardinality(H) <= MaxRequests + Others
        <5>1. t \in H
          BY <1>0, <1>1, <2>7, <3>2 DEF Holding
        <5>2. IsFiniteSet(H)
          BY <1>11
        <5>3. Cardinality(In(k, i) \union {L + 1}) + Cardinality(H \ {t})
                = Cardinality(In(k, i)) + Cardinality(H)
          <6> HIDE DEF H
          <6>1. QED
            BY <2>3, <2>7, <4>1, <5>1, <5>2, HandOver
        <5>4. QED
          BY <1>1, <2>2, <2>7, <4>1, <4>3, <5>3 DEF Budget
      <4>4. QED
        BY <2>1, <2>7, <4>2, <4>3 DEF Budget
    <3>3. QED
      BY <3>1, <3>2
  <2>8. QED
    BY <2>5, <2>6, <2>7
<1>14. \A x \in Keys : \A p \in DOMAIN accepted'[x] : Latecomers(x, p)'
  <2> SUFFICES ASSUME NEW x \in Keys, NEW p \in DOMAIN accepted'[x] PROVE Latecomers(x, p)'
    OBVIOUS
  <2>1. CASE x = k /\ p = L + 1
    <3>1. Later(x, p)' = {} /\ accepted'[x][p] = now
      BY <1>4, <1>6, <2>1 DEF Later
    <3>2. Holding(x, 0 .. accepted[x][p] - 1)' = Holding(x, 0 .. now - 1) \ {t}
      BY <1>1, <1>2, <3>1 DEF Holding
    <3>3. Cardinality(Holding(x, 0 .. now - 1) \ {t}) <= Others
          /\ Cardinality(Holding(x, 0 .. now - 1) \ {t}) \in Nat
      BY <1>11
    <3>4. Cardinality(Later(x, p)') = 0
      BY <3>1, FS_EmptySet
    <3>5. Cardinality(Later(x, p)') + Cardinality(Holding(x, 0 .. now - 1) \ {t}) <= Others
      BY <1>12, <3>3, <3>4
    <3>6. QED
      BY <3>2, <3>5 DEF Latecomers
  <2>2. CASE ~(x = k /\ p = L + 1)
    <3> DEFINE v == accepted[x][p]
               H == Holding(x, 0 .. v - 1)
    <3>1. p \in DOMAIN accepted[x] /\ accepted'[x][p] = v
      <4>1. CASE x = k
        <5>1. p \in 1 .. L
          BY <1>4, <1>6, <2>2, <4>1
        <5>2. QED
          BY <1>4, <1>6, <4>1, <5>1
      <4>2. CASE x # k
        BY <1>5, <4>2
      <4>3. QED
        BY <4>1, <4>2
    <3>2. Cardinality(Later(x, p)) + Cardinality(H) <= Others
      BY <3>1 DEF CountInv, Latecomers
    <3>3. Holding(x, 0 .. accepted[x][p] - 1)' = H \ {t}
      BY <1>1, <1>2, <3>1 DEF Holding
    <3>4. /\ Cardinality(H \ {t}) <= Cardinality(H) /\ Cardinality(H \ {t}) \in Nat
          /\ Cardinality(H) \in Nat /\ IsFiniteSet(H)
          /\ Cardinality(Later(x, p)) \in Nat /\ IsFiniteSet(Later(x, p))
          /\ v \in Nat
      <4>1. v \in 0 .. clock
        BY <3>1, CountsAreNumbers DEF Inv
      <4>2. QED
        BY <1>2, <1>11, <4>1, CountsAreNumbers DEF Inv
    <3>5. CASE Later(x, p)' = Later(x, p)
      <4> HIDE DEF H
      <4>1. Cardinality(Later(x, p)) + Cardinality(H \ {t}) <= Others
        BY <1>12, <3>2, <3>4
      <4>2. QED
        BY <3>3, <3>5, <4>1 DEF Latecomers
    <3>6. CASE x = k /\ now < v
      <4>1. Later(k, p)' = Later(k, p) \union {L + 1} /\ L + 1 \notin Later(k, p)
        BY <1>4, <1>6, <3>1, <3>6 DEF Later
      <4>2. t \in H
        BY <1>0, <1>1, <1>2, <3>4, <3>6 DEF Holding
      <4> HIDE DEF H
      <4>3. Cardinality(Later(k, p) \union {L + 1}) + Cardinality(H \ {t}) <= Others
        BY <3>2, <3>4, <3>6, <4>1, <4>2, HandOver
      <4>4. QED
        BY <3>3, <3>6, <4>1, <4>3 DEF Latecomers
    <3>7. CASE x # k
      BY <1>5, <3>5, <3>7 DEF Later
    <3>8. CASE x = k /\ ~(now < v)
      <4>1. Later(k, p)' = Later(k, p)
        BY <1>4, <1>6, <3>1, <3>8 DEF Later
      <4>2. QED
        BY <3>5, <3>8, <4>1
    <3>9. QED
      BY <3>6, <3>7, <3>8
  <2>3. QED
    BY <2>1, <2>2
<1>15. QED
  BY <1>9, <1>13, <1>14 DEF CountInv


LEMMA CountInit == Init => CountInv
<1> SUFFICES ASSUME Init PROVE CountInv
  OBVIOUS
<1>1. /\ windows = [k \in {} |-> <<>>] /\ accepted = [k \in Keys |-> <<>>]
      /\ DOMAIN windows = {}
  BY DEF Init
<1>2. DequeIsSuffix
  BY <1>1 DEF DequeIsSuffix
<1>3. \A k \in Keys : DOMAIN accepted[k] = {}
  BY <1>1
<1>4. \A k \in Keys, i \in Times : Budget(k, i)
  BY <1>3 DEF Budget, In
<1>5. QED
  BY <1>2, <1>3, <1>4 DEF CountInv

LEMMA CountNext == Inv /\ CountInv /\ [Next]_vars => CountInv'
<1> SUFFICES ASSUME Inv, CountInv, [Next]_vars PROVE CountInv'
  OBVIOUS
<1>1. CASE UNCHANGED vars
  <2>1. UNCHANGED <<clock, windows, held, accepted>>
    BY <1>1 DEF vars
  <2>2. \A k : Popped(k)' = Popped(k)
    BY <2>1 DEF Popped
  <2>3. DequeIsSuffix'
    BY <2>1, <2>2 DEF CountInv, DequeIsSuffix
  <2>4. \A k \in Keys, i \in Times : Budget(k, i)'
    BY <2>1, <2>2 DEF CountInv, Budget, In, Holding
  <2>5. \A k \in Keys : \A p \in DOMAIN accepted'[k] : Latecomers(k, p)'
    BY <2>1 DEF CountInv, Latecomers, Later, Holding
  <2>6. QED
    BY <2>3, <2>4, <2>5 DEF CountInv
<1>2. QED
  BY <1>1, TickCounts, StampCounts, RefuseCounts, AdmitCounts DEF Next

(* max_requests is exceeded by no more than one request per other thread,   *)
(* in any window, for any number of threads and clients.                   *)
THEOREM AdmissionBound == Spec => []AdmitsAtMost
<1>1. Inv /\ CountInv => AdmitsAtMost
  <2> SUFFICES ASSUME Inv, CountInv, NEW k \in Keys, NEW i \in Times
               PROVE  Through(k, i, i + WindowSeconds) <= MaxRequests + Others
    BY DEF AdmitsAtMost
  <2>1. Through(k, i, i + WindowSeconds) = Cardinality(In(k, i))
    BY DEF Through, In
  <2>2. Cardinality(In(k, i)) \in Nat /\ Others \in Nat /\ MaxRequests \in Nat
    BY CountsAreNumbers, OthersIsNat, RateLimitAssumption DEF Inv
  <2>3. CASE \A n \in In(k, i) : n > Popped(k)
    <3>1. Cardinality(In(k, i)) <= MaxRequests
      BY <2>3, KeptWindowFits DEF CountInv
    <3>2. QED
      BY <2>1, <2>2, <3>1
  <2>4. CASE Cardinality(In(k, i)) + Cardinality(Holding(k, i .. i + WindowSeconds))
                <= MaxRequests + Others
    <3>1. Cardinality(Holding(k, i .. i + WindowSeconds)) \in Nat
      BY CountsAreNumbers DEF Inv
    <3>2. QED
      BY <2>1, <2>2, <2>4, <3>1
  <2>5. QED
    BY <2>3, <2>4 DEF CountInv, Budget
<1>2. QED
  BY <1>1, InvInit, InvNext, CountInit, CountNext, PTL DEF Spec

(* A deque that is full holds, behind a front of the window, no more stale *)
(* stamps than there are other threads.                                    *)
LEMMA RefusedAtLimit ==
    ASSUME Inv, CountInv, NEW t \in Threads, Refuse(t)
    PROVE  Through(held[t].key, held[t].now - WindowSeconds, clock) + Others >= MaxRequests
<1>0. PICK k \in Keys, now \in 0 .. clock : k = held[t].key /\ now = held[t].now
  BY WindowType DEF Refuse, Inv
<1> DEFINE cutoff == now - WindowSeconds
           acc == accepted[k]
<1>1. held[t] # None /\ Len(Window(t)) >= MaxRequests
  BY DEF Refuse
<1>2. PICK pop \in Nat :
         /\ IsEnd(Window(t), k, pop)
         /\ pop < Len(acc) => acc[pop + 1] >= cutoff
  BY <1>0, <1>1, WindowIsSuffix DEF CountInv
<1>3. /\ clock \in Nat /\ Len(acc) \in Nat /\ DOMAIN acc = 1 .. Len(acc)
      /\ \A n \in 1 .. Len(acc) : acc[n] \in 0 .. clock
  BY CountsAreNumbers DEF Inv
<1>4. pop + MaxRequests <= Len(acc) /\ pop < Len(acc) /\ MaxRequests \in Nat /\ cutoff \in Int
  BY <1>1, <1>2, <1>3, RateLimitAssumption DEF IsEnd
<1> HIDE DEF cutoff, acc
<1> DEFINE p     == pop + 1
           rest  == p .. Len(acc)
           fresh == {n \in rest : acc[n] >= cutoff}
           stale == {n \in rest : acc[n] < cutoff}
           all   == {n \in DOMAIN acc : acc[n] \in cutoff .. clock}
<1>5. p \in 1 .. Len(acc) /\ acc[p] >= cutoff /\ acc[p] \in Nat
  BY <1>2, <1>3, <1>4
<1>6. IsFiniteSet(rest) /\ Cardinality(rest) = Len(acc) - pop
  <2>1. p \in Int /\ Len(acc) \in Int /\ ~(p > Len(acc)) /\ Len(acc) - p + 1 = Len(acc) - pop
    BY <1>3, <1>4
  <2>2. IsFiniteSet(p .. Len(acc)) /\ Cardinality(p .. Len(acc)) = Len(acc) - p + 1
    <3> HIDE DEF p
    <3>1. QED BY <2>1, FS_Interval
  <2>3. QED
    BY <2>1, <2>2
<1>7. stale \subseteq Later(k, p)
  <2>1. ASSUME NEW n \in stale PROVE n \in Later(k, p)
    <3>1. n \in 1 .. Len(acc) /\ n >= p /\ acc[n] < cutoff /\ acc[n] \in Nat
      BY <1>3, <1>5
    <3>2. n # p /\ acc[n] < acc[p]
      BY <1>4, <1>5, <3>1
    <3>3. QED
      BY <1>3, <1>5, <3>1, <3>2 DEF Later, acc
  <2>2. QED
    BY <2>1
<1>8. fresh \subseteq all
  BY <1>3, <1>4, <1>5
<1>9. rest = fresh \union stale /\ fresh \intersect stale = {}
  <2>1. \A n \in rest : acc[n] \in Nat
    BY <1>3, <1>5
  <2>2. QED
    BY <1>4, <2>1
<1>10. p \in DOMAIN accepted[k] /\ IsFiniteSet(Later(k, p)) /\ Cardinality(Later(k, p)) \in Nat
       /\ Cardinality(Holding(k, 0 .. accepted[k][p] - 1)) \in Nat
  BY <1>3, <1>5, CountsAreNumbers DEF Inv, acc
<1>11. Cardinality(Later(k, p)) + Cardinality(Holding(k, 0 .. accepted[k][p] - 1)) <= Others
  BY <1>10 DEF CountInv, Latecomers
<1>12. IsFiniteSet(all)
  <2>1. all \in SUBSET (1 .. Len(acc)) /\ IsFiniteSet(1 .. Len(acc))
    BY <1>3, FS_Interval
  <2>2. QED
    BY <2>1, FS_Subset
<1>13. Through(held[t].key, held[t].now - WindowSeconds, clock) = Cardinality(all)
  BY <1>0 DEF Through, acc, cutoff
<1> HIDE DEF rest, fresh, stale, all, p
<1>14. Cardinality(stale) <= Cardinality(Later(k, p)) /\ Cardinality(fresh) <= Cardinality(all)
       /\ IsFiniteSet(stale) /\ IsFiniteSet(fresh)
  BY <1>7, <1>8, <1>10, <1>12, FS_Subset
<1>15. Cardinality(rest) = Cardinality(fresh) + Cardinality(stale)
  <2>1. Cardinality(fresh \union stale)
          = Cardinality(fresh) + Cardinality(stale) - Cardinality(fresh \intersect stale)
    BY <1>14, FS_Union
  <2>2. Cardinality({}) = 0 /\ Cardinality(fresh) \in Nat /\ Cardinality(stale) \in Nat
    BY <1>14, FS_EmptySet, FS_CardinalityType
  <2>3. Cardinality(fresh \intersect stale) = 0
    BY <1>9, <2>2
  <2>4. Cardinality(rest) = Cardinality(fresh \union stale)
    BY <1>9
  <2>5. QED
    BY <2>1, <2>2, <2>3, <2>4
<1>16. Cardinality(fresh) \in Nat /\ Cardinality(stale) \in Nat /\ Cardinality(all) \in Nat /\ Others \in Nat
  BY <1>12, <1>14, FS_CardinalityType, OthersIsNat
<1>17. Cardinality(all) + Others >= MaxRequests
  BY <1>3, <1>4, <1>6, <1>10, <1>11, <1>14, <1>15, <1>16
<1>18. QED
  BY <1>13, <1>17

(* A client is answered 429 only when its own requests have used the limit *)
(* up, but for one stale stamp per other thread.                           *)
THEOREM RefusalBound == Spec => RefusesOnlyAtLimit
<1>1. Inv /\ CountInv /\ [Next]_vars =>
        [\A t \in Threads : Refuse(t) =>
            Through(held[t].key, held[t].now - WindowSeconds, clock) + Others >= MaxRequests]_vars
  BY RefusedAtLimit
<1>2. QED
  BY <1>1, InvInit, InvNext, CountInit, CountNext, PTL DEF Spec, RefusesOnlyAtLimit

=============================================================================
