--------------------------- MODULE Screen_proofs ---------------------------
(***************************************************************************)
(* Theorems about what a client's screen shows: the list that the daemon   *)
(* composes (Rows), for every set of sessions, process rows and events, in *)
(* every order of its maps, and the loop of `biewer tui` that shows it     *)
(* (TUI), for every set of sessions, and any number of keys, signals and   *)
(* refreshes.                                                              *)
(***************************************************************************)
EXTENDS Rows, TUI, FiniteSetTheorems, SequenceTheorems, TLAPS

-----------------------------------------------------------------------------
(* Counting, and loops *)

(* What holds of 0 and, with a number, of the next holds up to any number. *)
LEMMA UpTo ==
    ASSUME NEW L \in Nat, NEW S, 0 \in S, \A n \in 0 .. L - 1 : n \in S => n + 1 \in S
    PROVE  0 .. L \subseteq S
<1> DEFINE bad == (0 .. L) \ S
           T == {0 .. n : n \in bad}
<1> SUFFICES ASSUME bad # {} PROVE FALSE
  OBVIOUS
<1>1. IsFiniteSet(0 .. L)
  BY FS_Interval
<1>2. IsWellFoundedOn(StrictSubsetOrdering(0 .. L), SUBSET (0 .. L))
  BY <1>1, FS_StrictSubsetOrderingWellFounded, FS_FiniteSubsetsOfFinite
<1>3. T \subseteq SUBSET (0 .. L) /\ T # {}
  OBVIOUS
<1>4. PICK least \in T : \A t \in T : ~ (<<t, least>> \in StrictSubsetOrdering(0 .. L))
  <2> HIDE DEF T
  <2> QED
    BY <1>2, <1>3, WFMin
<1>5. PICK n \in bad : least = 0 .. n
  BY <1>4
<1>6. n \in 1 .. L /\ n - 1 \in 0 .. L - 1 /\ (n - 1) + 1 = n
  OBVIOUS
<1>7. n - 1 \in bad
  BY <1>6
<1>8. 0 .. n - 1 \in T /\ 0 .. n - 1 \in SUBSET (0 .. L) /\ 0 .. n \in SUBSET (0 .. L)
  BY <1>6, <1>7
<1>9. 0 .. n - 1 \subseteq 0 .. n /\ n \in 0 .. n /\ n \notin 0 .. n - 1
  BY <1>6
<1> QED
  BY <1>4, <1>5, <1>8, <1>9 DEF StrictSubsetOrdering

(* After each turn of the loop over telemetry sessions it is where the turn *)
(* left what the one before had left.                                       *)
LEMMA TelemetryTurnsAre ==
    ASSUME NEW R, NEW T, NEW probable, NEW order, Len(order) \in Nat
    PROVE  LET c == TelemetryTurns(R, T, probable, order)
           IN  /\ c[0] = Unmerged(R)
               /\ \A n \in 1 .. Len(order) :
                     c[n] = MergeTelemetry(c[n - 1], R, T, probable, order[n])
<1> DEFINE L == Len(order)
           A == Unmerged(R)
           Step(c, n) == MergeTelemetry(c, R, T, probable, order[n])
           Runs(f, n) == f = [m \in 0 .. n |-> IF m = 0 THEN A ELSE Step(f[m - 1], m)]
           S == {n \in 0 .. L : \E f : Runs(f, n)}
<1>1. TelemetryTurns(R, T, probable, order) = CHOOSE c : Runs(c, L)
  BY DEF TelemetryTurns
<1> HIDE DEF A, Step
<1>2. 0 \in S
  <2>1. Runs([m \in 0 .. 0 |-> A], 0)
    OBVIOUS
  <2>2. \E f : Runs(f, 0)
    <3> HIDE DEF Runs
    <3> QED
      BY <2>1
  <2> QED
    BY <2>2
<1>3. ASSUME NEW n \in 0 .. L - 1, n \in S PROVE n + 1 \in S
  <2>1. PICK f : Runs(f, n)
    BY <1>3
  <2> DEFINE g == [m \in 0 .. n + 1 |-> IF m = n + 1 THEN Step(f[n], n + 1) ELSE f[m]]
  <2>2. ASSUME NEW m \in 0 .. n + 1
        PROVE  g[m] = IF m = 0 THEN A ELSE Step(g[m - 1], m)
    <3>1. CASE m = n + 1
      <4>1. m # 0 /\ m - 1 = n /\ n \in 0 .. n + 1 /\ n # n + 1
        BY <3>1
      <4>2. g[m - 1] = f[n]
        BY <4>1
      <4> QED
        BY <3>1, <4>1, <4>2
    <3>2. CASE m # n + 1
      <4>1. m \in 0 .. n /\ g[m] = f[m]
        BY <3>2
      <4>2. f[m] = IF m = 0 THEN A ELSE Step(f[m - 1], m)
        BY <2>1, <4>1
      <4>3. m # 0 => m - 1 \in 0 .. n + 1 /\ m - 1 # n + 1
        BY <4>1
      <4>4. m # 0 => g[m - 1] = f[m - 1]
        BY <4>3
      <4> HIDE DEF g
      <4> QED
        BY <4>1, <4>2, <4>4
    <3> QED
      BY <3>1, <3>2
  <2>3. Runs(g, n + 1)
    <3>1. g = [m \in 0 .. n + 1 |-> g[m]]
      OBVIOUS
    <3> HIDE DEF g
    <3> QED
      BY <2>2, <3>1
  <2>4. \E h : Runs(h, n + 1)
    <3> HIDE DEF Runs, g
    <3> QED
      BY <2>3
  <2>5. n + 1 \in 0 .. L
    OBVIOUS
  <2> HIDE DEF Runs
  <2> QED
    BY <2>4, <2>5
<1>4. L \in S
  <2> HIDE DEF S
  <2>1. 0 .. L \subseteq S
    BY <1>2, <1>3, UpTo
  <2> QED
    BY <2>1
<1>5. PICK c : c = TelemetryTurns(R, T, probable, order) /\ Runs(c, L)
  BY <1>1, <1>4
<1>6. /\ c[0] = A
      /\ \A n \in 1 .. L : c[n] = Step(c[n - 1], n)
  BY <1>5
<1> QED
  BY <1>5, <1>6 DEF A, Step

(* The same of the loop over transcripts. *)
LEMMA TranscriptTurnsAre ==
    ASSUME NEW merged, NEW R, NEW probable, NEW order, Len(order) \in Nat
    PROVE  LET c == TranscriptTurns(merged, R, probable, order)
           IN  /\ c[0] = merged
               /\ \A n \in 1 .. Len(order) :
                     c[n] = MergeTranscript(c[n - 1], R, probable, order[n])
<1> DEFINE L == Len(order)
           Step(c, n) == MergeTranscript(c, R, probable, order[n])
           Runs(f, n) == f = [m \in 0 .. n |-> IF m = 0 THEN merged ELSE Step(f[m - 1], m)]
           S == {n \in 0 .. L : \E f : Runs(f, n)}
<1>1. TranscriptTurns(merged, R, probable, order) = CHOOSE c : Runs(c, L)
  BY DEF TranscriptTurns
<1> HIDE DEF Step
<1>2. 0 \in S
  <2>1. Runs([m \in 0 .. 0 |-> merged], 0)
    OBVIOUS
  <2>2. \E f : Runs(f, 0)
    <3> HIDE DEF Runs
    <3> QED
      BY <2>1
  <2> QED
    BY <2>2
<1>3. ASSUME NEW n \in 0 .. L - 1, n \in S PROVE n + 1 \in S
  <2>1. PICK f : Runs(f, n)
    BY <1>3
  <2> DEFINE g == [m \in 0 .. n + 1 |-> IF m = n + 1 THEN Step(f[n], n + 1) ELSE f[m]]
  <2>2. ASSUME NEW m \in 0 .. n + 1
        PROVE  g[m] = IF m = 0 THEN merged ELSE Step(g[m - 1], m)
    <3>1. CASE m = n + 1
      <4>1. m # 0 /\ m - 1 = n /\ n \in 0 .. n + 1 /\ n # n + 1
        BY <3>1
      <4>2. g[m - 1] = f[n]
        BY <4>1
      <4> QED
        BY <3>1, <4>1, <4>2
    <3>2. CASE m # n + 1
      <4>1. m \in 0 .. n /\ g[m] = f[m]
        BY <3>2
      <4>2. f[m] = IF m = 0 THEN merged ELSE Step(f[m - 1], m)
        BY <2>1, <4>1
      <4>3. m # 0 => m - 1 \in 0 .. n + 1 /\ m - 1 # n + 1
        BY <4>1
      <4>4. m # 0 => g[m - 1] = f[m - 1]
        BY <4>3
      <4> HIDE DEF g
      <4> QED
        BY <4>1, <4>2, <4>4
    <3> QED
      BY <3>1, <3>2
  <2>3. Runs(g, n + 1)
    <3>1. g = [m \in 0 .. n + 1 |-> g[m]]
      OBVIOUS
    <3> HIDE DEF g
    <3> QED
      BY <2>2, <3>1
  <2>4. \E h : Runs(h, n + 1)
    <3> HIDE DEF Runs, g
    <3> QED
      BY <2>3
  <2>5. n + 1 \in 0 .. L
    OBVIOUS
  <2> HIDE DEF Runs
  <2> QED
    BY <2>4, <2>5
<1>4. L \in S
  <2> HIDE DEF S
  <2>1. 0 .. L \subseteq S
    BY <1>2, <1>3, UpTo
  <2> QED
    BY <2>1
<1>5. PICK c : c = TranscriptTurns(merged, R, probable, order) /\ Runs(c, L)
  BY <1>1, <1>4
<1>6. /\ c[0] = merged
      /\ \A n \in 1 .. L : c[n] = Step(c[n - 1], n)
  BY <1>5
<1> QED
  BY <1>5, <1>6 DEF Step

-----------------------------------------------------------------------------
(* Orders *)

(* before says of each of a finite set what comes before it. *)
Linear(S, before) ==
    /\ before \in [S -> SUBSET S]
    /\ \A x \in S : x \notin before[x]
    /\ \A x, y \in S : x \in before[y] => before[x] \subseteq before[y]
    /\ \A x, y \in S : x = y \/ x \in before[y] \/ y \in before[x]

(* InOrder lists each of the set once. *)
LEMMA InOrderIsBijection ==
    ASSUME NEW S, IsFiniteSet(S), NEW before, Linear(S, before)
    PROVE  /\ Cardinality(S) \in Nat
           /\ InOrder(S, before) \in [1 .. Cardinality(S) -> S]
           /\ \A m, n \in 1 .. Cardinality(S) :
                 InOrder(S, before)[m] = InOrder(S, before)[n] => m = n
           /\ \A x \in S : \E n \in 1 .. Cardinality(S) :
                 /\ InOrder(S, before)[n] = x
                 /\ Cardinality(before[x]) = n - 1
<1> DEFINE N == Cardinality(S)
           place == [x \in S |-> Cardinality(before[x]) + 1]
<1>1. N \in Nat
  BY FS_CardinalityType
<1>2. ASSUME NEW x \in S
      PROVE  IsFiniteSet(before[x]) /\ Cardinality(before[x]) \in Nat /\ place[x] \in 1 .. N
  <2>1. before[x] \in SUBSET (S \ {x}) /\ IsFiniteSet(S \ {x}) /\ Cardinality(S \ {x}) = N - 1
    BY FS_RemoveElement DEF Linear
  <2>2. IsFiniteSet(before[x]) /\ Cardinality(before[x]) <= N - 1
    BY <2>1, FS_Subset
  <2> QED
    BY <1>1, <2>2, FS_CardinalityType
<1>3. ASSUME NEW x \in S, NEW y \in S, x \in before[y]
      PROVE  place[x] # place[y]
  <2>1. before[x] \in SUBSET before[y] /\ x \notin before[x]
    BY <1>3 DEF Linear
  <2>2. Cardinality(before[x]) # Cardinality(before[y])
    BY <1>2, <1>3, <2>1, FS_Subset
  <2> QED
    BY <1>2, <2>2
<1>4. \A x, y \in S : place[x] = place[y] => x = y
  BY <1>3 DEF Linear
<1>5. place \in Injection(S, 1 .. N)
  BY <1>2, <1>4 DEF Injection, IsInjective
<1>6. IsFiniteSet(1 .. N) /\ Cardinality(1 .. N) = N
  BY <1>1, FS_Interval
<1>7. place \in Surjection(S, 1 .. N)
  <2> HIDE DEF place
  <2> QED
    BY <1>5, <1>6, FS_Injection
<1>8. \A n \in 1 .. N : \E x \in S : place[x] = n
  BY <1>7 DEF Surjection
<1>9. ASSUME NEW n \in 1 .. N
      PROVE  InOrder(S, before)[n] \in S /\ place[InOrder(S, before)[n]] = n
  <2>1. PICK x \in S : Cardinality(before[x]) = n - 1
    BY <1>2, <1>8
  <2>2. InOrder(S, before)[n] = CHOOSE y \in S : Cardinality(before[y]) = n - 1
    BY DEF InOrder
  <2>3. /\ InOrder(S, before)[n] \in S
        /\ Cardinality(before[InOrder(S, before)[n]]) = n - 1
    BY <2>1, <2>2
  <2> QED
    BY <2>3
<1>10. InOrder(S, before) = [n \in 1 .. N |-> InOrder(S, before)[n]]
  BY DEF InOrder
<1>11. InOrder(S, before) \in [1 .. N -> S]
  BY <1>9, <1>10
<1>12. \A m, n \in 1 .. N : InOrder(S, before)[m] = InOrder(S, before)[n] => m = n
  BY <1>9
<1>13. ASSUME NEW x \in S
       PROVE  \E n \in 1 .. N : /\ InOrder(S, before)[n] = x
                                /\ Cardinality(before[x]) = n - 1
  <2>1. place[x] \in 1 .. N /\ Cardinality(before[x]) = place[x] - 1
    BY <1>2
  <2>2. InOrder(S, before)[place[x]] = x
    BY <1>4, <1>9, <2>1
  <2> QED
    BY <2>1, <2>2
<1> QED
  BY <1>1, <1>11, <1>12, <1>13

(* One of a finite set comes after all others. *)
LEMMA OneIsLast ==
    ASSUME NEW S, IsFiniteSet(S), S # {}, NEW before, Linear(S, before)
    PROVE  \E x \in S : \A y \in S \ {x} : y \in before[x]
<1> DEFINE N == Cardinality(S)
<1>1. N \in Nat /\ N # 0
  BY FS_CardinalityType, FS_EmptySet
<1>2. PICK x \in S : x = InOrder(S, before)[N]
  BY <1>1, InOrderIsBijection
<1>3. PICK n \in 1 .. N : InOrder(S, before)[n] = x /\ Cardinality(before[x]) = n - 1
  BY InOrderIsBijection
<1>4. n = N
  BY <1>1, <1>2, <1>3, InOrderIsBijection
<1>5. before[x] \in SUBSET (S \ {x}) /\ IsFiniteSet(S \ {x}) /\ Cardinality(S \ {x}) = N - 1
  BY FS_RemoveElement DEF Linear
<1>6. before[x] = S \ {x}
  BY <1>3, <1>4, <1>5, FS_Subset
<1> QED
  BY <1>6

(* An order of the daemon's map has each of its keys once. *)
LEMMA AnyOrder ==
    ASSUME NEW S, IsFiniteSet(S), NEW order \in SetToSeqs(S)
    PROVE  /\ Len(order) \in Nat
           /\ \A n \in 1 .. Len(order) : order[n] \in S
           /\ \A m, n \in 1 .. Len(order) : order[m] = order[n] => m = n
           /\ \A x \in S : \E n \in 1 .. Len(order) : order[n] = x
<1> DEFINE N == Cardinality(S)
<1>1. N \in Nat
  BY FS_CardinalityType
<1>2. order \in [1 .. N -> S] /\ \A m, n \in 1 .. N : m # n => order[m] # order[n]
  BY DEF SetToSeqs
<1>3. Len(order) = N
  BY <1>1, <1>2
<1>4. order \in Injection(1 .. N, S)
  BY <1>2 DEF Injection, IsInjective
<1>5. IsFiniteSet(1 .. N) /\ Cardinality(1 .. N) = N
  BY <1>1, FS_Interval
<1>6. order \in Surjection(1 .. N, S)
  BY <1>4, <1>5, FS_Injection
<1> QED
  BY <1>1, <1>2, <1>3, <1>6 DEF Surjection

-----------------------------------------------------------------------------
(* What is composed, and in which order it is listed *)

(* What Tick makes: see RowsAssumption. *)
ProcessRowsOK(R) ==
    /\ DOMAIN R \subseteq RowIds
    /\ \A i \in DOMAIN R :
          /\ R[i] \in Row
          /\ IF i \in Pids
             THEN /\ R[i].agent \in Agents
                  /\ R[i].scope = resourceScopeForAgent(R[i].agent)
                  /\ R[i].attribution =
                        IF R[i].scope = "shared" THEN "shared" ELSE "probable"
             ELSE R[i].scope = "owned" /\ R[i].attribution = "confirmed"

(* Telemetry sessions, or transcripts, of some sessions. *)
OfSessions(T) ==
    /\ DOMAIN T \subseteq Keys
    /\ \A k \in DOMAIN T : T[k].updatedAt \in Nat

Composable(R, T, U, at) ==
    ProcessRowsOK(R) /\ OfSessions(T) /\ OfSessions(U) /\ at \in Nat

(* All ids are finitely many. *)
LEMMA FewIds ==
    /\ IsFiniteSet(RowIds)
    /\ \A S : S \subseteq RowIds \/ S \subseteq Keys => IsFiniteSet(S)
<1>1. IsFiniteSet(Keys \cup Launches)
  BY AttributionAssumption, FS_Union
<1>2. IsFiniteSet(RowIds)
  BY <1>1, ProcessTreeAssumption, FS_Union DEF RowIds
<1> QED
  BY <1>2, AttributionAssumption, FS_Subset

(* stableSessionLess orders the process rows. *)
LEMMA ProcessRowsAreOrdered ==
    ASSUME NEW R, ProcessRowsOK(R), NEW S \in SUBSET DOMAIN R
    PROVE  Linear(S, [i \in S |-> {j \in S : stableSessionLess(R, j, i)}])
<1>1. \A i \in S : R[i].scope = "owned" \/ R[i].scope = "shared"
  BY DEF ProcessRowsOK, Row
<1>2. \A i \in S : Rank[i] \in Nat /\ \A j \in S : Rank[i] = Rank[j] => i = j
  BY AttributionAssumption DEF ProcessRowsOK
<1>3. \A i \in S : ~ stableSessionLess(R, i, i)
  BY <1>2 DEF stableSessionLess
<1>4. \A i, j, l \in S :
         stableSessionLess(R, i, j) /\ stableSessionLess(R, j, l)
            => stableSessionLess(R, i, l)
  <2> SUFFICES ASSUME NEW i \in S, NEW j \in S, NEW l \in S,
                      stableSessionLess(R, i, j), stableSessionLess(R, j, l)
               PROVE  stableSessionLess(R, i, l)
    OBVIOUS
  <2>1. Rank[i] < Rank[j] /\ Rank[j] < Rank[l] => Rank[i] < Rank[l]
    BY <1>2
  <2> QED
    BY <1>1, <2>1 DEF stableSessionLess
<1>5. \A i, j \in S : i = j \/ stableSessionLess(R, i, j) \/ stableSessionLess(R, j, i)
  <2> SUFFICES ASSUME NEW i \in S, NEW j \in S, i # j
               PROVE  stableSessionLess(R, i, j) \/ stableSessionLess(R, j, i)
    OBVIOUS
  <2>1. Rank[i] < Rank[j] \/ Rank[j] < Rank[i]
    BY <1>2
  <2> QED
    BY <1>1, <2>1 DEF stableSessionLess
<1> QED
  BY <1>3, <1>4, <1>5 DEF Linear

(* LastOf picks one of the process rows. *)
LEMMA LastIsOne ==
    ASSUME NEW R, ProcessRowsOK(R), NEW S \in SUBSET DOMAIN R, S # {}
    PROVE  LastOf(R, S) \in S
<1> DEFINE before == [i \in S |-> {j \in S : stableSessionLess(R, j, i)}]
<1>1. IsFiniteSet(S)
  BY FewIds DEF ProcessRowsOK
<1>2. PICK i \in S : \A j \in S \ {i} : j \in before[i]
  <2> HIDE DEF before
  <2>1. Linear(S, before)
    BY ProcessRowsAreOrdered DEF before
  <2> QED
    BY <1>1, <2>1, OneIsLast
<1>3. \A j \in S \ {i} : stableSessionLess(R, j, i)
  BY <1>2
<1> QED
  BY <1>3 DEF LastOf

(* The process rows are listed one by one. *)
LEMMA ProcessOrderIsBijection ==
    ASSUME NEW R, ProcessRowsOK(R)
    PROVE  /\ Cardinality(DOMAIN R) \in Nat
           /\ ProcessOrder(R) \in [1 .. Cardinality(DOMAIN R) -> DOMAIN R]
           /\ \A m, n \in 1 .. Cardinality(DOMAIN R) :
                 ProcessOrder(R)[m] = ProcessOrder(R)[n] => m = n
           /\ \A i \in DOMAIN R : \E n \in 1 .. Cardinality(DOMAIN R) :
                 ProcessOrder(R)[n] = i
<1> DEFINE before == [i \in DOMAIN R |-> {j \in DOMAIN R : stableSessionLess(R, j, i)}]
<1>1. IsFiniteSet(DOMAIN R)
  BY FewIds DEF ProcessRowsOK
<1>2. Linear(DOMAIN R, before)
  BY ProcessRowsAreOrdered
<1>3. ProcessOrder(R) = InOrder(DOMAIN R, before)
  BY DEF ProcessOrder
<1> HIDE DEF before
<1> QED
  BY <1>1, <1>2, <1>3, InOrderIsBijection

(* So are the rows without processes. *)
LEMMA ActivityOrderIsBijection ==
    ASSUME NEW T, NEW U, NEW at, OfSessions(T), OfSessions(U), NEW S \in SUBSET Keys
    PROVE  LET shown == ActivityOrder(S, T, U, at)
           IN  /\ Cardinality(S) \in Nat
               /\ shown \in [1 .. Cardinality(S) -> S]
               /\ \A m, n \in 1 .. Cardinality(S) : shown[m] = shown[n] => m = n
               /\ \A k \in S : \E n \in 1 .. Cardinality(S) : shown[n] = k
<1> DEFINE active == [k \in S |-> LastActivity(T, U, at, k)]
           earlier(k, l) == \/ active[k] > active[l]
                            \/ active[k] = active[l] /\ Rank[k] < Rank[l]
           before == [k \in S |-> {l \in S : earlier(l, k)}]
<1>1. IsFiniteSet(S)
  BY FewIds
<1>2. ASSUME NEW k \in S PROVE active[k] \in Nat
  <2>1. LastActivity(T, U, at, k) \in Nat
    BY DEF LastActivity, OfSessions, Recent
  <2> QED
    BY <2>1
<1>3. \A k \in S : Rank[k] \in Nat /\ \A l \in S : Rank[k] = Rank[l] => k = l
  BY AttributionAssumption DEF RowIds
<1> HIDE DEF active
<1>4. \A k \in S : ~ earlier(k, k)
  BY <1>2, <1>3
<1>5. \A k, l, m \in S : earlier(k, l) /\ earlier(l, m) => earlier(k, m)
  BY <1>2, <1>3
<1>6. \A k, l \in S : k = l \/ earlier(k, l) \/ earlier(l, k)
  <2> SUFFICES ASSUME NEW k \in S, NEW l \in S, k # l
               PROVE  earlier(k, l) \/ earlier(l, k)
    OBVIOUS
  <2>1. Rank[k] < Rank[l] \/ Rank[l] < Rank[k]
    BY <1>3
  <2>2. active[k] > active[l] \/ active[k] = active[l] \/ active[l] > active[k]
    BY <1>2
  <2> QED
    BY <2>1, <2>2
<1>7. Linear(S, before)
  <2> HIDE DEF earlier
  <2> QED
    BY <1>4, <1>5, <1>6 DEF Linear
<1>8. ActivityOrder(S, T, U, at) = InOrder(S, before)
  BY DEF ActivityOrder, active
<1> HIDE DEF before
<1> QED
  BY <1>1, <1>7, <1>8, InOrderIsBijection

(* The list: kept are rows without processes, all of them or Limit many,   *)
(* and all process rows come after them.                                   *)
IsList(list, c, R, kept, processes) ==
    LET K == Len(kept)
        N == Cardinality(DOMAIN R)
    IN  /\ K \in Nat /\ N \in Nat /\ Len(list) = K + N /\ DOMAIN list = 1 .. K + N
        /\ \A n \in 1 .. K : kept[n] \in DOMAIN c.logical /\ list[n] = c.logical[kept[n]]
        /\ \A m, n \in 1 .. K : kept[m] = kept[n] => m = n
        /\ K = Limit \/ \A k \in DOMAIN c.logical : \E n \in 1 .. K : kept[n] = k
        /\ \A n \in 1 .. N : /\ processes[n] \in DOMAIN R
                             /\ list[K + n] = c.combined[processes[n]]
        /\ \A m, n \in 1 .. N : processes[m] = processes[n] => m = n
        /\ \A i \in DOMAIN R : \E n \in 1 .. N : processes[n] = i

(* What Listed makes is such a list. *)
LEMMA ListedIsList ==
    ASSUME NEW R, NEW T, NEW U, NEW at, Composable(R, T, U, at), NEW c,
           DOMAIN c.logical \subseteq Keys
    PROVE  \E kept, processes : IsList(Listed(c, R, T, U, at), c, R, kept, processes)
<1> DEFINE S == DOMAIN c.logical
           M == Cardinality(S)
           N == Cardinality(DOMAIN R)
           shown == ActivityOrder(S, T, U, at)
           kept == IF Len(shown) > Limit THEN SubSeq(shown, 1, Limit) ELSE shown
           processes == ProcessOrder(R)
           top == [n \in DOMAIN kept |-> c.logical[kept[n]]]
           below == [n \in DOMAIN processes |-> c.combined[processes[n]]]
<1>1. /\ M \in Nat /\ shown \in [1 .. M -> S]
      /\ \A m, n \in 1 .. M : shown[m] = shown[n] => m = n
      /\ \A k \in S : \E n \in 1 .. M : shown[n] = k
  BY ActivityOrderIsBijection DEF Composable
<1>2. /\ N \in Nat /\ processes \in [1 .. N -> DOMAIN R]
      /\ \A m, n \in 1 .. N : processes[m] = processes[n] => m = n
      /\ \A i \in DOMAIN R : \E n \in 1 .. N : processes[n] = i
  BY ProcessOrderIsBijection DEF Composable
<1>3. Limit \in Nat
  BY AttributionAssumption
<1> HIDE DEF shown, processes, M, N
<1>4. PICK K \in Nat :
         /\ kept \in [1 .. K -> S] /\ K <= M
         /\ \A n \in 1 .. K : kept[n] = shown[n]
         /\ K = Limit \/ K = M
  <2>1. shown \in Seq(S) /\ Len(shown) = M
    BY <1>1
  <2>2. CASE M > Limit
    <3>1. kept = SubSeq(shown, 1, Limit)
      BY <2>1, <2>2
    <3>2. /\ kept \in [1 .. Limit -> S]
          /\ \A n \in 1 .. Limit : kept[n] = shown[n]
      <4> HIDE DEF kept, S
      <4>1. \A n \in 1 .. Limit : shown[n] \in S
        BY <1>1, <1>3, <2>2
      <4>2. /\ kept \in Seq(S) /\ Len(kept) = Limit
            /\ \A n \in 1 .. Limit - 1 + 1 : kept[n] = shown[1 + n - 1]
        BY <1>3, <3>1, <4>1, SubSeqProperties
      <4>3. \A n \in 1 .. Limit : n \in 1 .. Limit - 1 + 1 /\ 1 + n - 1 = n
        BY <1>3
      <4> QED
        BY <4>2, <4>3
    <3>3. Limit <= M
      BY <1>1, <1>3, <2>2
    <3> HIDE DEF kept, S
    <3> WITNESS Limit \in Nat
    <3> QED
      BY <3>2, <3>3
  <2>3. CASE ~ (M > Limit)
    <3>1. kept = shown
      BY <2>1, <2>3
    <3> HIDE DEF kept
    <3> QED
      BY <1>1, <3>1
  <2> QED
    BY <2>2, <2>3
<1> HIDE DEF kept
<1>5. Len(kept) = K /\ DOMAIN kept = 1 .. K
  BY <1>4
<1>6. /\ top \in Seq({c.logical[k] : k \in S}) /\ Len(top) = K
      /\ \A n \in 1 .. K : top[n] = c.logical[kept[n]]
  <2>1. top \in [1 .. K -> {c.logical[k] : k \in S}]
    BY <1>4, <1>5
  <2>2. \A n \in 1 .. K : top[n] = c.logical[kept[n]]
    BY <1>5
  <2> HIDE DEF top
  <2> QED
    BY <2>1, <2>2
<1>7. /\ below \in Seq({c.combined[i] : i \in DOMAIN R}) /\ Len(below) = N
      /\ \A n \in 1 .. N : below[n] = c.combined[processes[n]]
  <2>1. below \in [1 .. N -> {c.combined[i] : i \in DOMAIN R}]
    BY <1>2
  <2>2. \A n \in 1 .. N : below[n] = c.combined[processes[n]]
    BY <1>2
  <2> HIDE DEF below
  <2> QED
    BY <1>2, <2>1, <2>2
<1>8. Listed(c, R, T, U, at) = top \o below
  BY DEF Listed, shown, kept, processes
<1> HIDE DEF top, below
<1>9. /\ Len(top \o below) = K + N /\ DOMAIN (top \o below) = 1 .. K + N
      /\ \A n \in 1 .. K : (top \o below)[n] = top[n]
      /\ \A n \in 1 .. N : (top \o below)[K + n] = below[n]
  <2> DEFINE A == {c.logical[k] : k \in S} \cup {c.combined[i] : i \in DOMAIN R}
  <2>1. top \in Seq(A) /\ below \in Seq(A)
    BY <1>6, <1>7
  <2> HIDE DEF A
  <2>2. /\ top \o below \in Seq(A) /\ Len(top \o below) = K + N
        /\ \A n \in 1 .. K + N :
              (top \o below)[n] = IF n <= K THEN top[n] ELSE below[n - K]
    BY <1>6, <1>7, <2>1, ConcatProperties
  <2>3. /\ \A n \in 1 .. K : n \in 1 .. K + N /\ n <= K
        /\ \A n \in 1 .. N : K + n \in 1 .. K + N /\ ~ (K + n <= K) /\ K + n - K = n
    BY <1>2
  <2> QED
    BY <2>2, <2>3
<1>10. IsList(top \o below, c, R, kept, processes)
  <2>1. \A m, n \in 1 .. K : kept[m] = kept[n] => m = n
    BY <1>1, <1>4
  <2>2. \A n \in 1 .. K : kept[n] \in S
    BY <1>4
  <2>3. K = Limit \/ \A k \in S : \E n \in 1 .. K : kept[n] = k
    BY <1>1, <1>4
  <2>4. \A n \in 1 .. N : processes[n] \in DOMAIN R
    BY <1>2
  <2> QED
    BY <1>2, <1>4, <1>5, <1>6, <1>7, <1>9, <2>1, <2>2, <2>3, <2>4 DEF IsList, N
<1> QED
  BY <1>8, <1>10

-----------------------------------------------------------------------------
(* The guess *)

(* Fitting, Named and Alone are Fitting, SaidToBe and Uncontested of what  *)
(* is composed: see Rows.                                                  *)
FittingOf(R, T, U, at, k) == {i \in DOMAIN R : Fits(R[i], Hints(T, U, at)[k])}

Named(R, T, U, at, k) ==
    {i \in DOMAIN R :
        \/ i = k /\ R[i].agent = AgentOf[k]
        \/ Fits(R[i], Hints(T, U, at)[k])
        \/ /\ k \in Recent(T, at)
           /\ \/ i \in processByLaunch(R, k, T[k].launch)
              \/ /\ R[i].scope = "owned" /\ R[i].agent = AgentOf[k]
                 /\ \E process \in R[i].tree :
                       process = [pid |-> T[k].pid, start |-> T[k].created]}

Alone(R, T, U, at, k) ==
    /\ Cardinality(Named(R, T, U, at, k)) <= 1
    /\ k \in DOMAIN T => Cardinality(processByPID(R, T[k].pid)) <= 1
    /\ \A other \in RecentKeys(T, U, at) \ {k} :
          Named(R, T, U, at, k) \cap Named(R, T, U, at, other) = {}

(* A set with no more than one in it. *)
LEMMA NoMoreThanOne ==
    ASSUME NEW S, IsFiniteSet(S)
    PROVE  /\ Cardinality(S) <= 1 <=> S = {} \/ \E x : S = {x}
           /\ Cardinality(S) = 1 <=> \E x : S = {x}
<1>1. Cardinality(S) \in Nat
  BY FS_CardinalityType
<1>2. Cardinality(S) = 0 <=> S = {}
  BY FS_EmptySet
<1>3. Cardinality(S) = 1 <=> \E x : S = {x}
  BY FS_Singleton
<1>4. Cardinality(S) <= 1 <=> Cardinality(S) = 0 \/ Cardinality(S) = 1
  BY <1>1
<1> QED
  BY <1>2, <1>3, <1>4

(* A guess is made where a session fits one row, and no other fits only it. *)
LEMMA GuessesAreUnique ==
    ASSUME NEW R, NEW T, NEW U, NEW at, Composable(R, T, U, at)
    PROVE  LET probable == buildProbableProcessMatches(R, T, U, at)
               known == RecentKeys(T, U, at)
           IN  /\ DOMAIN probable \subseteq known
               /\ \A k \in DOMAIN probable :
                     /\ probable[k] \in DOMAIN R
                     /\ FittingOf(R, T, U, at, k) = {probable[k]}
                     /\ \A other \in known \ {k} :
                           FittingOf(R, T, U, at, other) # {probable[k]}
               /\ \A k \in known : \A i \in DOMAIN R :
                     /\ FittingOf(R, T, U, at, k) = {i}
                     /\ \A other \in known \ {k} : FittingOf(R, T, U, at, other) # {i}
                     => k \in DOMAIN probable /\ probable[k] = i
<1> DEFINE probable == buildProbableProcessMatches(R, T, U, at)
           known == RecentKeys(T, U, at)
           hints == Hints(T, U, at)
           proposals == [k \in DOMAIN hints |-> findProbableProcess(R, hints[k])]
           fit(k) == FittingOf(R, T, U, at, k)
           chosen == {k \in DOMAIN hints :
                         /\ proposals[k] # {}
                         /\ \A other \in DOMAIN hints \ {k} :
                               proposals[other] # proposals[k]}
<1>1. DOMAIN hints = known
  BY DEF Hints
<1>2. ASSUME NEW k \in known
      PROVE  /\ \A i : fit(k) = {i} => proposals[k] = {i}
             /\ proposals[k] # {} => proposals[k] = fit(k) /\ \E i : fit(k) = {i}
  <2>1. fit(k) \subseteq RowIds
    BY DEF Composable, ProcessRowsOK, FittingOf
  <2>2. IsFiniteSet(fit(k))
    BY <2>1, FewIds
  <2>3. proposals[k] = IF Cardinality(fit(k)) = 1 THEN fit(k) ELSE {}
    BY <1>1 DEF findProbableProcess, FittingOf
  <2>4. Cardinality(fit(k)) = 1 <=> \E i : fit(k) = {i}
    BY <2>2, NoMoreThanOne
  <2> HIDE DEF proposals, fit
  <2> QED
    BY <2>3, <2>4
<1>3. probable = [k \in chosen |-> CHOOSE i \in proposals[k] : TRUE]
  BY DEF buildProbableProcessMatches
<1>4. \A k : fit(k) \subseteq DOMAIN R
  BY DEF FittingOf
<1>5. DOMAIN probable = chosen /\ chosen \subseteq known
  BY <1>1, <1>3
<1>6. ASSUME NEW k \in chosen
      PROVE  /\ probable[k] \in DOMAIN R
             /\ fit(k) = {probable[k]}
             /\ \A other \in known \ {k} : fit(other) # {probable[k]}
  <2>1. k \in known /\ proposals[k] # {}
    BY <1>5
  <2>2. PICK i : fit(k) = {i} /\ proposals[k] = {i}
    BY <1>2, <2>1
  <2>3. probable[k] = CHOOSE j \in {i} : TRUE
    BY <1>3, <2>2
  <2>4. probable[k] = i
    BY <2>3
  <2>5. ASSUME NEW other \in known \ {k} PROVE fit(other) # {i}
    <3>1. proposals[other] # {i}
      BY <1>1, <2>2
    <3> QED
      BY <1>2, <3>1
  <2>6. i \in DOMAIN R
    BY <1>4, <2>2
  <2> QED
    BY <2>2, <2>4, <2>5, <2>6
<1>7. ASSUME NEW k \in known, NEW i \in DOMAIN R, fit(k) = {i},
             \A other \in known \ {k} : fit(other) # {i}
      PROVE  k \in chosen /\ probable[k] = i
  <2>1. proposals[k] = {i}
    BY <1>2, <1>7
  <2>2. ASSUME NEW other \in DOMAIN hints \ {k} PROVE proposals[other] # proposals[k]
    <3> SUFFICES ASSUME proposals[other] = {i} PROVE FALSE
      BY <2>1
    <3>1. other \in known \ {k} /\ proposals[other] # {}
      BY <1>1
    <3>2. fit(other) = {i}
      BY <1>2, <3>1
    <3> QED
      BY <1>7, <3>1, <3>2
  <2>3. k \in chosen
    BY <1>1, <2>1, <2>2
  <2>4. probable[k] = i
    BY <1>6, <1>7, <2>3
  <2> QED
    BY <2>3, <2>4
<1> HIDE DEF probable, known, fit, chosen
<1>8. /\ DOMAIN probable \subseteq known
      /\ \A k \in DOMAIN probable :
            /\ probable[k] \in DOMAIN R
            /\ fit(k) = {probable[k]}
            /\ \A other \in known \ {k} : fit(other) # {probable[k]}
      /\ \A k \in known : \A i \in DOMAIN R :
            /\ fit(k) = {i}
            /\ \A other \in known \ {k} : fit(other) # {i}
            => k \in DOMAIN probable /\ probable[k] = i
  BY <1>5, <1>6, <1>7
<1> QED
  BY <1>8 DEF probable, known, fit

-----------------------------------------------------------------------------
(* The turns of the two loops *)

Usage == {<<>>} \cup (Keys \X {"telemetry", "transcript"})
Line == [id : RowIds, of : RowIds \cup {NoRow}, usage : Usage,
         attribution : {"confirmed", "probable", "shared", "none"}]

(* What composition works on is of its kind. *)
Composing(c, R) ==
    /\ c = [combined |-> c.combined, byID |-> c.byID,
            matched |-> c.matched, logical |-> c.logical]
    /\ c.combined \in [DOMAIN R -> Line]
    /\ DOMAIN c.byID \subseteq Keys
    /\ \A k \in DOMAIN c.byID : c.byID[k] \in DOMAIN R
    /\ c.matched \subseteq DOMAIN R
    /\ DOMAIN c.logical \subseteq Keys
    /\ \A k \in DOMAIN c.logical : c.logical[k] \in Line

(* The session gets a row of its own, *)
Adds(c, d, key, usage) ==
    /\ key \notin DOMAIN c.byID
    /\ d.combined = c.combined /\ d.byID = c.byID /\ d.matched = c.matched
    /\ DOMAIN d.logical = DOMAIN c.logical \cup {key}
    /\ d.logical[key] = LogicalRow(key, usage)
    /\ \A k \in DOMAIN c.logical \ {key} : d.logical[k] = c.logical[k]

(* or it is merged into row i, *)
Merges(c, d, R, key, i, usage, confidence) ==
    /\ d.combined[i].of = c.combined[i].of
    /\ d.combined[i].id = IF key \in DOMAIN c.byID THEN c.combined[i].id ELSE key
    /\ d.combined[i].usage = usage
    /\ d.combined[i].attribution = IF R[i].scope = "shared" THEN "shared" ELSE confidence
    /\ \A j \in DOMAIN R \ {i} : d.combined[j] = c.combined[j]
    /\ DOMAIN d.byID = DOMAIN c.byID \cup {key}
    /\ d.byID[key] = i
    /\ \A k \in DOMAIN c.byID \ {key} : d.byID[k] = c.byID[k]
    /\ d.matched = c.matched \cup {i}
    /\ DOMAIN d.logical = DOMAIN c.logical \ {key}
    /\ \A k \in DOMAIN d.logical : d.logical[k] = c.logical[k]

(* or the row that is its own gets other tokens. *)
Tells(c, d, R, key, usage) ==
    /\ key \in DOMAIN c.byID
    /\ d.byID = c.byID /\ d.matched = c.matched /\ d.logical = c.logical
    /\ \A j \in DOMAIN R \ {c.byID[key]} : d.combined[j] = c.combined[j]
    /\ d.combined[c.byID[key]] = [c.combined[c.byID[key]] EXCEPT !.usage = usage]

(* Where a session is merged, and how sure that is. *)
Merging(c, d, R, probable, named, key, usage) ==
    \E i \in DOMAIN R : \E confidence \in {"confirmed", "probable"} :
        /\ Merges(c, d, R, key, i, usage, confidence)
        /\ i \in named
        /\ key \in DOMAIN c.byID => i = c.byID[key]
        /\ confidence = "probable" => /\ key \notin DOMAIN c.byID
                                      /\ key \in DOMAIN probable /\ probable[key] = i

Turn(c, d, R, probable, named, key, usage) ==
    \/ Adds(c, d, key, usage)
    \/ Merging(c, d, R, probable, named, key, usage)
    \/ Tells(c, d, R, key, usage)

(* Merge, field by field. *)
LEMMA MergeIs ==
    ASSUME NEW R, NEW c, Composing(c, R), NEW key \in Keys, NEW i \in DOMAIN R,
           NEW usage \in Usage, NEW confidence \in {"confirmed", "probable"}
    PROVE  LET d == Merge(c, R, key, i, usage, confidence)
           IN  /\ d = [combined |-> d.combined, byID |-> d.byID,
                       matched |-> d.matched, logical |-> d.logical]
               /\ d.combined \in [DOMAIN R -> Line]
               /\ d.combined[i].of = c.combined[i].of
               /\ d.combined[i].id = IF key \in DOMAIN c.byID THEN c.combined[i].id ELSE key
               /\ d.combined[i].usage = usage
               /\ d.combined[i].attribution =
                     IF R[i].scope = "shared" THEN "shared" ELSE confidence
               /\ \A j \in DOMAIN R \ {i} : d.combined[j] = c.combined[j]
               /\ DOMAIN d.byID = DOMAIN c.byID \cup {key}
               /\ d.byID[key] = i
               /\ \A k \in DOMAIN c.byID \ {key} : d.byID[k] = c.byID[k]
               /\ d.matched = c.matched \cup {i}
               /\ d.logical = c.logical
<1> DEFINE A == c.combined
           line == setAttributionConfidence(
                       [A[i] EXCEPT !.usage = usage,
                                    !.id = IF key \in DOMAIN c.byID THEN @ ELSE key],
                       R[i].scope, confidence)
           d == Merge(c, R, key, i, usage, confidence)
<1>1. A \in [DOMAIN R -> Line] /\ A[i] \in Line
  BY DEF Composing
<1>2. key \in RowIds
  BY DEF RowIds
<1>3. /\ line \in Line
      /\ line.of = A[i].of /\ line.usage = usage
      /\ line.id = IF key \in DOMAIN c.byID THEN A[i].id ELSE key
      /\ line.attribution = IF R[i].scope = "shared" THEN "shared" ELSE confidence
  BY <1>1, <1>2 DEF Line, setAttributionConfidence
<1>4. d = [c EXCEPT !.combined[i] = line, !.matched = @ \cup {i},
                    !.byID = With(@, key, i)]
  BY DEF Merge
<1>5. c = [combined |-> A, byID |-> c.byID, matched |-> c.matched, logical |-> c.logical]
  BY DEF Composing
<1> HIDE DEF line, A, d
<1>6. /\ DOMAIN d = {"combined", "byID", "matched", "logical"}
      /\ d = [field \in DOMAIN d |-> d[field]]
  BY <1>4, <1>5
<1>7. /\ d.combined = [A EXCEPT ![i] = line] /\ d.byID = With(c.byID, key, i)
      /\ d.matched = c.matched \cup {i} /\ d.logical = c.logical
  BY <1>4, <1>5
<1>8. /\ [A EXCEPT ![i] = line] \in [DOMAIN R -> Line]
      /\ [A EXCEPT ![i] = line][i] = line
      /\ \A j \in DOMAIN R \ {i} : [A EXCEPT ![i] = line][j] = A[j]
  BY <1>1, <1>3
<1>9. /\ DOMAIN With(c.byID, key, i) = DOMAIN c.byID \cup {key}
      /\ With(c.byID, key, i)[key] = i
      /\ \A k \in DOMAIN c.byID \ {key} : With(c.byID, key, i)[k] = c.byID[k]
  BY DEF With
<1>10. d = [combined |-> d.combined, byID |-> d.byID,
           matched |-> d.matched, logical |-> d.logical]
  BY <1>6
<1> QED
  BY <1>3, <1>7, <1>8, <1>9, <1>10 DEF A, d

(* A session without a row of its own gets one. *)
LEMMA AddIs ==
    ASSUME NEW R, NEW c, Composing(c, R), NEW key \in Keys \ DOMAIN c.byID,
           NEW usage \in Usage
    PROVE  LET d == [c EXCEPT !.logical = With(@, key, LogicalRow(key, usage))]
           IN  Adds(c, d, key, usage) /\ Composing(d, R)
<1> DEFINE line == LogicalRow(key, usage)
           d == [c EXCEPT !.logical = With(@, key, line)]
<1>1. line \in Line
  BY AttributionAssumption DEF LogicalRow, Line, RowIds
<1> HIDE DEF line
<1>2. d = [combined |-> c.combined, byID |-> c.byID,
           matched |-> c.matched, logical |-> With(c.logical, key, line)]
  BY DEF Composing
<1> HIDE DEF d
<1>3. /\ d.combined = c.combined /\ d.byID = c.byID /\ d.matched = c.matched
      /\ d.logical = With(c.logical, key, line)
  BY <1>2
<1>4. d = [combined |-> d.combined, byID |-> d.byID,
           matched |-> d.matched, logical |-> d.logical]
  BY <1>2
<1>5. /\ DOMAIN d.logical = DOMAIN c.logical \cup {key}
      /\ d.logical[key] = line
      /\ \A k \in DOMAIN c.logical \ {key} : d.logical[k] = c.logical[k]
  BY <1>3 DEF With
<1>6. \A k \in DOMAIN d.logical : d.logical[k] \in Line
  BY <1>1, <1>5 DEF Composing
<1>7. Composing(d, R)
  BY <1>3, <1>4, <1>5, <1>6 DEF Composing
<1>8. Adds(c, d, key, usage)
  BY <1>3, <1>5 DEF Adds, line
<1> QED
  BY <1>7, <1>8 DEF d, line

(* Whose a row is, is what something says. *)
Owned(c, R, T, U, at) ==
    /\ \A k \in DOMAIN c.byID \cap RecentKeys(T, U, at) :
          c.byID[k] \in Named(R, T, U, at, k)
    /\ Own(R) \subseteq DOMAIN c.byID

(* Nothing says it of a row of another agent. *)
LEMMA SaidOfItsAgent ==
    ASSUME NEW R, NEW T, NEW U, NEW at, NEW key \in RecentKeys(T, U, at),
           NEW i \in Named(R, T, U, at, key)
    PROVE  R[i].agent = AgentOf[key]
<1>1. ASSUME Fits(R[i], Hints(T, U, at)[key]) PROVE R[i].agent = AgentOf[key]
  <2>1. R[i].agent = Hints(T, U, at)[key].agent
    BY <1>1 DEF Fits
  <2>2. Hints(T, U, at)[key].agent = AgentOf[key]
    BY DEF Hints
  <2> QED
    BY <2>1, <2>2
<1>2. i \in processByLaunch(R, key, T[key].launch) => R[i].agent = AgentOf[key]
  BY DEF processByLaunch
<1> QED
  BY <1>1, <1>2 DEF Named

(* What something says of a session. *)
LEMMA SaidOfASession ==
    ASSUME NEW R, NEW T, NEW U, NEW at, Composable(R, T, U, at), NEW key
    PROVE  LET named == Named(R, T, U, at, key)
               probable == buildProbableProcessMatches(R, T, U, at)
           IN  /\ named \subseteq DOMAIN R /\ IsFiniteSet(named)
               /\ FittingOf(R, T, U, at, key) \subseteq named
               /\ key \in DOMAIN probable => probable[key] \in named
<1> DEFINE named == Named(R, T, U, at, key)
           probable == buildProbableProcessMatches(R, T, U, at)
<1>1. named \subseteq DOMAIN R /\ FittingOf(R, T, U, at, key) \subseteq named
  BY DEF Named, FittingOf
<1>2. IsFiniteSet(named)
  BY <1>1, FewIds DEF Composable, ProcessRowsOK
<1>3. key \in DOMAIN probable => FittingOf(R, T, U, at, key) = {probable[key]}
  BY GuessesAreUnique
<1>4. key \in DOMAIN probable => probable[key] \in named
  BY <1>1, <1>3
<1> QED
  BY <1>1, <1>2, <1>4

(* A guess is made for a session of which nothing else says anything, and  *)
(* that fits a row of which nobody else does.                              *)
LEMMA AloneIsGuessed ==
    ASSUME NEW R, NEW T, NEW U, NEW at, Composable(R, T, U, at),
           NEW key \in RecentKeys(T, U, at), Alone(R, T, U, at, key),
           NEW i, i \in FittingOf(R, T, U, at, key)
    PROVE  LET probable == buildProbableProcessMatches(R, T, U, at)
           IN  key \in DOMAIN probable /\ probable[key] = i
<1> DEFINE named(k) == Named(R, T, U, at, k)
           fit(k) == FittingOf(R, T, U, at, k)
<1>1. i \in named(key) /\ fit(key) \subseteq named(key) /\ i \in DOMAIN R
  BY SaidOfASession
<1>2. \E x : named(key) = {x}
  <2>1. IsFiniteSet(named(key)) /\ Cardinality(named(key)) <= 1
    BY SaidOfASession DEF Alone
  <2> HIDE DEF named
  <2> QED
    BY <1>1, <2>1, NoMoreThanOne
<1>3. fit(key) = {i}
  BY <1>1, <1>2
<1>4. ASSUME NEW other \in RecentKeys(T, U, at) \ {key} PROVE fit(other) # {i}
  <2>1. named(key) \cap named(other) = {}
    BY DEF Alone
  <2>2. fit(other) \subseteq named(other)
    BY SaidOfASession
  <2> QED
    BY <1>1, <2>1, <2>2
<1> QED
  BY <1>1, <1>3, <1>4, GuessesAreUnique

(* A telemetry session is given a row that something says is its own, and, *)
(* where no other session competes with it, is given one if there is one.  *)
LEMMA ClaimedIsSaid ==
    ASSUME NEW R, NEW T, NEW U, NEW at, Composable(R, T, U, at),
           NEW c, Composing(c, R), Owned(c, R, T, U, at), NEW key \in Recent(T, at)
    PROVE  LET probable == buildProbableProcessMatches(R, T, U, at)
               named == Named(R, T, U, at, key)
               claim == Claimed(c, R, T, probable, key)
           IN  /\ claim = <<claim[1], claim[2]>>
               /\ \/ claim[1] = NoRow
                  \/ claim[1] \in named /\ claim[2] \in {"confirmed", "probable"}
               /\ key \in DOMAIN c.byID => claim[1] = c.byID[key]
               /\ claim[2] = "probable" => /\ key \notin DOMAIN c.byID
                                           /\ key \in DOMAIN probable
                                           /\ probable[key] = claim[1]
               /\ Alone(R, T, U, at, key) /\ named # {} /\ named \cap c.matched = {}
                     => claim[1] \in named
<1> DEFINE probable == buildProbableProcessMatches(R, T, U, at)
           named == Named(R, T, U, at, key)
           claim == Claimed(c, R, T, probable, key)
           session == T[key]
           launched == processByLaunch(R, key, session.launch)
           owners == processByPID(R, session.pid)
           owner == LastOf(R, owners)
           valid == validTelemetryProcessIdentity(R, key, session)
<1>1. key \in RecentKeys(T, U, at) /\ key \in Keys
  BY DEF RecentKeys, Recent, Composable, OfSessions
<1>2. /\ named \subseteq DOMAIN R /\ IsFiniteSet(named)
      /\ key \in DOMAIN probable => probable[key] \in named
  BY SaidOfASession
<1>3. key \in DOMAIN c.byID => c.byID[key] \in named
  BY <1>1 DEF Owned
<1>4. launched \subseteq named
  BY DEF Named, processByLaunch
<1>5. launched # {} => LastOf(R, launched) \in named
  <2>1. launched \in SUBSET DOMAIN R
    BY <1>2, <1>4
  <2>2. launched # {} => LastOf(R, launched) \in launched
    BY <2>1, LastIsOne DEF Composable
  <2> QED
    BY <1>4, <2>2
<1>6. owners \subseteq DOMAIN R /\ (owners # {} => owner \in owners)
  <2>1. owners \in SUBSET DOMAIN R
    BY DEF processByPID
  <2>2. owners # {} => owner \in owners
    BY <2>1, LastIsOne DEF Composable
  <2> QED
    BY <2>1, <2>2
<1>7. valid <=> /\ owners # {}
                /\ R[owner].scope = "owned" /\ R[owner].agent = AgentOf[key]
                /\ [pid |-> session.pid, start |-> session.created] \in R[owner].tree
  BY DEF validTelemetryProcessIdentity
<1>8. valid => owner \in named
  <2> SUFFICES ASSUME valid PROVE owner \in named
    OBVIOUS
  <2>1. /\ owner \in DOMAIN R
        /\ R[owner].scope = "owned" /\ R[owner].agent = AgentOf[key]
        /\ [pid |-> session.pid, start |-> session.created] \in R[owner].tree
    BY <1>6, <1>7
  <2> HIDE DEF owner, owners, valid
  <2> QED
    BY <2>1 DEF Named
<1>9. claim = IF key \in DOMAIN c.byID THEN <<c.byID[key], "confirmed">>
              ELSE IF launched # {} THEN <<LastOf(R, launched), "confirmed">>
              ELSE IF valid /\ owner \notin c.matched THEN <<owner, "confirmed">>
              ELSE IF key \in DOMAIN probable /\ probable[key] \notin c.matched
                   THEN <<probable[key], "probable">>
              ELSE <<NoRow, "none">>
  BY DEF Claimed
<1>10. ASSUME Alone(R, T, U, at, key), named # {}, named \cap c.matched = {},
              key \notin DOMAIN c.byID, launched = {}
       PROVE  \/ valid /\ owner \notin c.matched
              \/ key \in DOMAIN probable /\ probable[key] \notin c.matched
  <2>1. PICK i : named = {i}
    <3>1. Cardinality(named) <= 1
      BY <1>10 DEF Alone
    <3> HIDE DEF named
    <3> QED
      BY <1>2, <1>10, <3>1, NoMoreThanOne
  <2>2. i \in DOMAIN R /\ i \notin c.matched /\ ~ (i = key /\ R[i].agent = AgentOf[key])
    BY <1>1, <1>2, <1>10, <2>1 DEF Owned, Own
  <2>3. CASE i \in FittingOf(R, T, U, at, key)
    <3>1. key \in DOMAIN probable /\ probable[key] = i
      BY <1>1, <1>10, <2>3, AloneIsGuessed
    <3> QED
      BY <2>2, <3>1
  <2>4. CASE i \notin FittingOf(R, T, U, at, key)
    <3>1. i \in named
      BY <2>1
    <3>2. /\ R[i].scope = "owned" /\ R[i].agent = AgentOf[key]
          /\ \E process \in R[i].tree :
                process = [pid |-> session.pid, start |-> session.created]
      BY <1>10, <2>2, <2>4, <3>1 DEF Named, FittingOf
    <3>3. i \in owners
      BY <2>2, <3>2 DEF processByPID
    <3>4. IsFiniteSet(owners) /\ Cardinality(owners) <= 1
      BY <1>6, <1>10, FewIds DEF Alone, Composable, ProcessRowsOK, Recent
    <3>5. owner = i
      <4> HIDE DEF owners, owner
      <4>1. \E x : owners = {x}
        BY <3>3, <3>4, NoMoreThanOne
      <4> QED
        BY <1>6, <3>3, <4>1
    <3>6. valid
      <4> HIDE DEF owners, owner, valid, session
      <4> QED
        BY <1>7, <3>2, <3>3, <3>5
    <3> QED
      BY <2>2, <3>5, <3>6
  <2> QED
    BY <2>3, <2>4
<1> HIDE DEF probable, named, claim, launched, owners, owner, valid, session
<1>11. /\ claim = <<claim[1], claim[2]>>
       /\ \/ claim[1] = NoRow
          \/ claim[1] \in named /\ claim[2] \in {"confirmed", "probable"}
       /\ key \in DOMAIN c.byID => claim[1] = c.byID[key]
       /\ claim[2] = "probable" => /\ key \notin DOMAIN c.byID
                                   /\ key \in DOMAIN probable
                                   /\ probable[key] = claim[1]
  BY <1>2, <1>3, <1>5, <1>8, <1>9
<1>12. Alone(R, T, U, at, key) /\ named # {} /\ named \cap c.matched = {}
          => claim[1] \in named
  BY <1>2, <1>3, <1>5, <1>8, <1>9, <1>10
<1> QED
  BY <1>11, <1>12 DEF probable, named, claim

(* Merge leaves something to compose from. *)
LEMMA MergeComposes ==
    ASSUME NEW R, NEW c, Composing(c, R), NEW key \in Keys, NEW i \in DOMAIN R,
           NEW usage \in Usage, NEW confidence \in {"confirmed", "probable"}
    PROVE  LET d == [Merge(c, R, key, i, usage, confidence) EXCEPT
                        !.logical = [k \in DOMAIN @ \ {key} |-> @[k]]]
           IN  Merges(c, d, R, key, i, usage, confidence) /\ Composing(d, R)
<1> DEFINE d == [Merge(c, R, key, i, usage, confidence) EXCEPT
                    !.logical = [k \in DOMAIN @ \ {key} |-> @[k]]]
           e == Merge(c, R, key, i, usage, confidence)
           rest == [k \in DOMAIN c.logical \ {key} |-> c.logical[k]]
<1>1. /\ e = [combined |-> e.combined, byID |-> e.byID,
              matched |-> e.matched, logical |-> e.logical]
      /\ e.combined \in [DOMAIN R -> Line]
      /\ e.combined[i].of = c.combined[i].of
      /\ e.combined[i].id = IF key \in DOMAIN c.byID THEN c.combined[i].id ELSE key
      /\ e.combined[i].usage = usage
      /\ e.combined[i].attribution =
            IF R[i].scope = "shared" THEN "shared" ELSE confidence
      /\ \A j \in DOMAIN R \ {i} : e.combined[j] = c.combined[j]
      /\ DOMAIN e.byID = DOMAIN c.byID \cup {key}
      /\ e.byID[key] = i
      /\ \A k \in DOMAIN c.byID \ {key} : e.byID[k] = c.byID[k]
      /\ e.matched = c.matched \cup {i}
      /\ e.logical = c.logical
  BY MergeIs
<1>2. d = [e EXCEPT !.logical = rest]
  BY <1>1
<1> HIDE DEF d, e
<1>3. d = [combined |-> e.combined, byID |-> e.byID,
           matched |-> e.matched, logical |-> rest]
  <2> HIDE DEF rest
  <2> QED
    BY <1>1, <1>2
<1>4. /\ d.combined = e.combined /\ d.byID = e.byID /\ d.matched = e.matched
      /\ d.logical = rest
  BY <1>3
<1>5. d = [combined |-> d.combined, byID |-> d.byID,
           matched |-> d.matched, logical |-> d.logical]
  BY <1>3
<1>6. /\ DOMAIN d.logical = DOMAIN c.logical \ {key}
      /\ \A k \in DOMAIN d.logical : d.logical[k] = c.logical[k]
  BY <1>4
<1>7. Merges(c, d, R, key, i, usage, confidence)
  <2> HIDE DEF rest
  <2> QED
    BY <1>1, <1>4, <1>6 DEF Merges
<1>8. Composing(d, R)
  <2> HIDE DEF rest
  <2>1. \A k \in DOMAIN d.byID : d.byID[k] \in DOMAIN R
    BY <1>1, <1>4 DEF Composing
  <2>2. \A k \in DOMAIN d.logical : d.logical[k] \in Line
    BY <1>6 DEF Composing
  <2>3. /\ DOMAIN d.byID \subseteq Keys /\ d.matched \subseteq DOMAIN R
        /\ DOMAIN d.logical \subseteq Keys
    BY <1>1, <1>4, <1>6 DEF Composing
  <2>4. d.combined \in [DOMAIN R -> Line]
    BY <1>1, <1>4
  <2> QED
    BY <1>5, <2>1, <2>2, <2>3, <2>4 DEF Composing
<1> QED
  BY <1>7, <1>8 DEF d

(* A turn of the loop over telemetry sessions. *)
LEMMA TelemetryTurn ==
    ASSUME NEW R, NEW T, NEW U, NEW at, Composable(R, T, U, at),
           NEW c, Composing(c, R), Owned(c, R, T, U, at),
           NEW key \in Recent(T, at), key \notin DOMAIN c.logical
    PROVE  LET probable == buildProbableProcessMatches(R, T, U, at)
               named == Named(R, T, U, at, key)
               d == MergeTelemetry(c, R, T, probable, key)
           IN  /\ Composing(d, R)
               /\ Turn(c, d, R, probable, named, key, TelemetryOf(key))
               /\ Alone(R, T, U, at, key) /\ named # {} /\ named \cap c.matched = {}
                     => key \in DOMAIN d.byID
<1> DEFINE probable == buildProbableProcessMatches(R, T, U, at)
           named == Named(R, T, U, at, key)
           d == MergeTelemetry(c, R, T, probable, key)
           claim == Claimed(c, R, T, probable, key)
           usage == TelemetryOf(key)
<1>1. key \in Keys /\ usage \in Usage
  BY DEF Recent, Composable, OfSessions, TelemetryOf, Usage
<1>2. /\ \/ claim[1] = NoRow
         \/ claim[1] \in named /\ claim[2] \in {"confirmed", "probable"}
      /\ key \in DOMAIN c.byID => claim[1] = c.byID[key]
      /\ claim[2] = "probable" => /\ key \notin DOMAIN c.byID
                                  /\ key \in DOMAIN probable
                                  /\ probable[key] = claim[1]
      /\ Alone(R, T, U, at, key) /\ named # {} /\ named \cap c.matched = {}
            => claim[1] \in named
  BY ClaimedIsSaid
<1>3. named \subseteq DOMAIN R /\ NoRow \notin DOMAIN R
  BY SaidOfASession, AttributionAssumption DEF Composable, ProcessRowsOK
<1>4. d = IF claim[1] = NoRow
          THEN [c EXCEPT !.logical = With(@, key, LogicalRow(key, usage))]
          ELSE Merge(c, R, key, claim[1], usage, claim[2])
  BY DEF MergeTelemetry
<1> HIDE DEF probable, named, d, claim, usage
<1>5. CASE claim[1] = NoRow
  <2>1. key \notin DOMAIN c.byID
    BY <1>2, <1>3, <1>5 DEF Composing
  <2>2. Adds(c, d, key, usage) /\ Composing(d, R)
    BY <1>1, <1>4, <1>5, <2>1, AddIs
  <2>3. claim[1] \notin named
    BY <1>3, <1>5
  <2> QED
    BY <1>2, <2>2, <2>3 DEF Turn, probable, named, d, usage
<1>6. CASE claim[1] # NoRow
  <2> DEFINE i == claim[1]
             confidence == claim[2]
  <2>1. i \in DOMAIN R /\ i \in named /\ confidence \in {"confirmed", "probable"}
    BY <1>2, <1>3, <1>6
  <2> HIDE DEF i, confidence
  <2>2. d = Merge(c, R, key, i, usage, confidence)
    BY <1>4, <1>6 DEF i, confidence
  <2>3. /\ d = [combined |-> d.combined, byID |-> d.byID,
                matched |-> d.matched, logical |-> d.logical]
        /\ d.combined \in [DOMAIN R -> Line]
        /\ d.combined[i].of = c.combined[i].of
        /\ d.combined[i].id = IF key \in DOMAIN c.byID THEN c.combined[i].id ELSE key
        /\ d.combined[i].usage = usage
        /\ d.combined[i].attribution =
              IF R[i].scope = "shared" THEN "shared" ELSE confidence
        /\ \A j \in DOMAIN R \ {i} : d.combined[j] = c.combined[j]
        /\ DOMAIN d.byID = DOMAIN c.byID \cup {key}
        /\ d.byID[key] = i
        /\ \A k \in DOMAIN c.byID \ {key} : d.byID[k] = c.byID[k]
        /\ d.matched = c.matched \cup {i}
        /\ d.logical = c.logical
    BY <1>1, <2>1, <2>2, MergeIs
  <2>4. Merges(c, d, R, key, i, usage, confidence)
    <3>1. /\ DOMAIN d.logical = DOMAIN c.logical \ {key}
          /\ \A k \in DOMAIN d.logical : d.logical[k] = c.logical[k]
      BY <2>3
    <3> QED
      BY <2>3, <3>1 DEF Merges
  <2>5. Composing(d, R)
    <3>1. \A k \in DOMAIN d.byID : d.byID[k] \in DOMAIN R
      BY <2>1, <2>3 DEF Composing
    <3> QED
      BY <1>1, <2>1, <2>3, <3>1 DEF Composing
  <2>6. Merging(c, d, R, probable, named, key, usage)
    <3>1. /\ key \in DOMAIN c.byID => i = c.byID[key]
          /\ confidence = "probable" => /\ key \notin DOMAIN c.byID
                                        /\ key \in DOMAIN probable /\ probable[key] = i
      BY <1>2 DEF i, confidence
    <3> QED
      BY <2>1, <2>4, <3>1 DEF Merging
  <2> QED
    BY <2>3, <2>5, <2>6 DEF Turn, probable, named, d, usage
<1> QED
  BY <1>5, <1>6

(* A turn of the loop over transcripts. *)
LEMMA TranscriptTurn ==
    ASSUME NEW R, NEW T, NEW U, NEW at, Composable(R, T, U, at),
           NEW c, Composing(c, R), Owned(c, R, T, U, at), NEW key \in Recent(U, at)
    PROVE  LET probable == buildProbableProcessMatches(R, T, U, at)
               named == Named(R, T, U, at, key)
               d == MergeTranscript(c, R, probable, key)
           IN  /\ Composing(d, R)
               /\ Turn(c, d, R, probable, named, key, TranscriptOf(key))
               /\ /\ Alone(R, T, U, at, key) /\ named # {}
                  /\ key \notin DOMAIN c.byID =>
                        key \notin Recent(T, at) /\ named \cap c.matched = {}
                  => key \in DOMAIN d.byID
<1> DEFINE probable == buildProbableProcessMatches(R, T, U, at)
           named == Named(R, T, U, at, key)
           d == MergeTranscript(c, R, probable, key)
           usage == TranscriptOf(key)
<1>1. key \in Keys /\ usage \in Usage /\ key \in RecentKeys(T, U, at)
  BY DEF Recent, RecentKeys, Composable, OfSessions, TranscriptOf, Usage
<1>2. /\ named \subseteq DOMAIN R
      /\ key \in DOMAIN probable => probable[key] \in named
  BY SaidOfASession
<1>3. d = IF key \in DOMAIN c.byID
          THEN [c EXCEPT !.combined[c.byID[key]].usage = usage]
          ELSE IF key \in DOMAIN probable /\ probable[key] \notin c.matched
          THEN [Merge(c, R, key, probable[key], usage, "probable")
                   EXCEPT !.logical = [k \in DOMAIN @ \ {key} |-> @[k]]]
          ELSE [c EXCEPT !.logical = With(@, key, LogicalRow(key, usage))]
  BY DEF MergeTranscript
<1>4. ASSUME Alone(R, T, U, at, key), named # {}, key \notin DOMAIN c.byID,
             key \notin Recent(T, at), named \cap c.matched = {}
      PROVE  key \in DOMAIN probable /\ probable[key] \notin c.matched
  <2>1. PICK i : i \in named
    BY <1>4
  <2>2. ~ (i = key /\ R[i].agent = AgentOf[key])
    BY <1>1, <1>2, <1>4, <2>1 DEF Owned, Own
  <2>3. i \in FittingOf(R, T, U, at, key)
    BY <1>4, <2>1, <2>2 DEF Named, FittingOf
  <2>4. key \in DOMAIN probable /\ probable[key] = i
    BY <1>1, <1>4, <2>3, AloneIsGuessed
  <2> QED
    BY <1>4, <2>1, <2>4
<1> HIDE DEF probable, named, d, usage
<1>5. CASE key \in DOMAIN c.byID
  <2> DEFINE i == c.byID[key]
             line == [c.combined[i] EXCEPT !.usage = usage]
  <2>1. i \in DOMAIN R /\ c.combined \in [DOMAIN R -> Line]
    BY <1>5 DEF Composing
  <2>2. line \in Line
    BY <1>1, <2>1 DEF Line
  <2>3. d = [c EXCEPT !.combined[i].usage = usage]
    BY <1>3, <1>5
  <2> HIDE DEF i
  <2>4. d = [c EXCEPT !.combined = [c.combined EXCEPT ![i] = line]]
    <3> DEFINE A == [c EXCEPT !.combined[i].usage = usage]
    <3>1. /\ DOMAIN A = DOMAIN c /\ A = [field \in DOMAIN A |-> A[field]]
          /\ A.combined = [c.combined EXCEPT ![i] = line]
          /\ A.byID = c.byID /\ A.matched = c.matched /\ A.logical = c.logical
      BY DEF Composing
    <3> HIDE DEF A, line
    <3>2. DOMAIN c = {"combined", "byID", "matched", "logical"}
      BY DEF Composing
    <3>3. A = [c EXCEPT !.combined = [c.combined EXCEPT ![i] = line]]
      BY <3>1, <3>2 DEF Composing
    <3> QED
      BY <2>3, <3>3 DEF A
  <2> HIDE DEF line
  <2>5. d = [combined |-> [c.combined EXCEPT ![i] = line], byID |-> c.byID,
             matched |-> c.matched, logical |-> c.logical]
    BY <2>4 DEF Composing
  <2>6. /\ d.combined = [c.combined EXCEPT ![i] = line] /\ d.byID = c.byID
        /\ d.matched = c.matched /\ d.logical = c.logical
        /\ d = [combined |-> d.combined, byID |-> d.byID,
                matched |-> d.matched, logical |-> d.logical]
    BY <2>5
  <2>7. /\ d.combined \in [DOMAIN R -> Line] /\ d.combined[i] = line
        /\ \A j \in DOMAIN R \ {i} : d.combined[j] = c.combined[j]
    BY <2>1, <2>2, <2>6
  <2>8. Tells(c, d, R, key, usage)
    BY <1>5, <2>6, <2>7 DEF Tells, i, line
  <2>9. Composing(d, R)
    BY <2>6, <2>7 DEF Composing
  <2> QED
    BY <1>5, <2>6, <2>8, <2>9 DEF Turn, probable, named, d, usage
<1>6. CASE key \notin DOMAIN c.byID /\ key \in DOMAIN probable /\ probable[key] \notin c.matched
  <2> DEFINE i == probable[key]
  <2>1. i \in DOMAIN R /\ i \in named
    BY <1>2, <1>6
  <2>2. d = [Merge(c, R, key, i, usage, "probable")
                EXCEPT !.logical = [k \in DOMAIN @ \ {key} |-> @[k]]]
    BY <1>3, <1>6
  <2> HIDE DEF i
  <2>3. Merges(c, d, R, key, i, usage, "probable") /\ Composing(d, R)
    <3>1. "probable" \in {"confirmed", "probable"}
      OBVIOUS
    <3> QED
      BY <1>1, <2>1, <2>2, <3>1, MergeComposes
  <2>4. Merging(c, d, R, probable, named, key, usage)
    BY <1>6, <2>1, <2>3 DEF Merging, i
  <2>5. key \in DOMAIN d.byID
    BY <2>3 DEF Merges
  <2> QED
    BY <2>3, <2>4, <2>5 DEF Turn, probable, named, d, usage
<1>7. CASE /\ key \notin DOMAIN c.byID
           /\ ~ (key \in DOMAIN probable /\ probable[key] \notin c.matched)
  <2>1. Adds(c, d, key, usage) /\ Composing(d, R)
    BY <1>1, <1>3, <1>7, AddIs
  <2> QED
    BY <1>4, <1>7, <2>1 DEF Turn, probable, named, d, usage
<1> QED
  BY <1>5, <1>6, <1>7

-----------------------------------------------------------------------------
(* What holds after each turn *)

(* No two rows have the same id and agent, and a guess names a session and *)
(* its row.                                                                *)
Composed(c, R, T, U, at) ==
    LET probable == buildProbableProcessMatches(R, T, U, at)
    IN  /\ Composing(c, R)
        /\ Owned(c, R, T, U, at)
        /\ \A k \in Own(R) : c.byID[k] = k
        /\ \A k \in DOMAIN c.byID : R[c.byID[k]].agent = AgentOf[k]
        /\ \A i \in DOMAIN R :
              /\ c.combined[i].of = i
              /\ \/ c.combined[i].id = i
                 \/ /\ c.combined[i].id \in DOMAIN c.byID \ Own(R)
                    /\ c.byID[c.combined[i].id] = i
              /\ c.combined[i].attribution = "probable" =>
                    \/ c.combined[i].id = i /\ i \in Pids
                    \/ /\ c.combined[i].id \in DOMAIN probable
                       /\ probable[c.combined[i].id] = i
        /\ DOMAIN c.logical \cap DOMAIN c.byID = {}
        /\ \A k \in DOMAIN c.logical :
              /\ c.logical[k].id = k
              /\ c.logical[k].of = NoRow /\ c.logical[k].attribution = "none"

(* A session with whom no other competes shows usage, if any, on the row   *)
(* that something says is its own, or else on a row of its own.            *)
Shows(c, R, T, U, at, k, usage) ==
    LET named == Named(R, T, U, at, k)
    IN  /\ \A i \in named :
              /\ usage = <<>> => i \notin c.matched
              /\ k \in DOMAIN c.byID => c.combined[i].id = k
              /\ usage # <<>> => k \in DOMAIN c.byID /\ c.combined[i].usage = usage
        /\ named = {} /\ usage # <<>> =>
              k \in DOMAIN c.logical /\ c.logical[k] = LogicalRow(k, usage)

(* Before the first turn. *)
LEMMA UnmergedComposed ==
    ASSUME NEW R, NEW T, NEW U, NEW at, Composable(R, T, U, at)
    PROVE  /\ Composed(Unmerged(R), R, T, U, at)
           /\ DOMAIN Unmerged(R).logical = {}
           /\ \A k \in RecentKeys(T, U, at) :
                 Alone(R, T, U, at, k) => Shows(Unmerged(R), R, T, U, at, k, <<>>)
<1> DEFINE c == Unmerged(R)
<1>1. /\ c = [combined |-> c.combined, byID |-> c.byID,
              matched |-> c.matched, logical |-> c.logical]
      /\ c.combined = [i \in DOMAIN R |-> ProcessRow(R, i)]
      /\ c.byID = [k \in Own(R) |-> k]
      /\ c.matched = {} /\ c.logical = <<>>
  BY DEF Unmerged
<1>2. DOMAIN <<>> = {}
  OBVIOUS
<1> HIDE DEF c
<1>3. ASSUME NEW i \in DOMAIN R
      PROVE  /\ c.combined[i] = ProcessRow(R, i)
             /\ ProcessRow(R, i) \in Line
             /\ c.combined[i].of = i /\ c.combined[i].id = i
             /\ c.combined[i].attribution = "probable" => i \in Pids
  <2>1. c.combined[i] = ProcessRow(R, i)
    BY <1>1
  <2>2. i \in RowIds /\ R[i].attribution \in {"confirmed", "probable", "shared"}
    BY DEF Composable, ProcessRowsOK, Row
  <2>3. R[i].attribution = "probable" => i \in Pids
    BY DEF Composable, ProcessRowsOK
  <2> QED
    BY <2>1, <2>2, <2>3 DEF ProcessRow, Line, Usage
<1>4. c.combined \in [DOMAIN R -> Line]
  BY <1>1, <1>3
<1>5. /\ DOMAIN c.byID = Own(R) /\ \A k \in Own(R) : c.byID[k] = k
      /\ \A k \in Own(R) : k \in Keys \cap DOMAIN R /\ R[k].agent = AgentOf[k]
  BY <1>1 DEF Own
<1>6. c.matched = {} /\ DOMAIN c.logical = {}
  BY <1>1, <1>2
<1>7. Composing(c, R)
  BY <1>1, <1>4, <1>5, <1>6 DEF Composing
<1>8. Owned(c, R, T, U, at)
  BY <1>5 DEF Owned, Named
<1>9. Composed(c, R, T, U, at)
  BY <1>3, <1>5, <1>6, <1>7, <1>8 DEF Composed
<1>10. ASSUME NEW k \in RecentKeys(T, U, at), Alone(R, T, U, at, k)
       PROVE  Shows(c, R, T, U, at, k, <<>>)
  <2> DEFINE named == Named(R, T, U, at, k)
  <2>1. IsFiniteSet(named) /\ Cardinality(named) <= 1 /\ named \subseteq DOMAIN R
    BY <1>10, SaidOfASession DEF Alone
  <2>2. k \in Own(R) => k \in named
    BY DEF Named, Own
  <2>3. \A i \in named : k \in named => i = k
    <3> HIDE DEF named
    <3> QED
      BY <2>1, NoMoreThanOne
  <2>4. \A i \in named : k \in DOMAIN c.byID => c.combined[i].id = k
    <3> HIDE DEF named
    <3> QED
      BY <1>3, <1>5, <2>1, <2>2, <2>3
  <2> QED
    BY <1>6, <2>4 DEF Shows
<1> QED
  BY <1>6, <1>9, <1>10 DEF c

(* A turn keeps ids apart. *)
LEMMA TurnComposes ==
    ASSUME NEW R, NEW T, NEW U, NEW at, Composable(R, T, U, at),
           NEW c, Composed(c, R, T, U, at), NEW d, Composing(d, R),
           NEW key \in RecentKeys(T, U, at), NEW usage,
           Turn(c, d, R, buildProbableProcessMatches(R, T, U, at),
                Named(R, T, U, at, key), key, usage)
    PROVE  Composed(d, R, T, U, at)
<1> DEFINE probable == buildProbableProcessMatches(R, T, U, at)
           named(k) == Named(R, T, U, at, k)
           known == RecentKeys(T, U, at)
           own == Own(R)
           IdOK(e, i) == \/ e.combined[i].id = i
                         \/ /\ e.combined[i].id \in DOMAIN e.byID \ own
                            /\ e.byID[e.combined[i].id] = i
           GuessOK(e, i) == e.combined[i].attribution = "probable" =>
                               \/ e.combined[i].id = i /\ i \in Pids
                               \/ /\ e.combined[i].id \in DOMAIN probable
                                  /\ probable[e.combined[i].id] = i
           AloneOK(e, k) == /\ e.logical[k].id = k
                            /\ e.logical[k].of = NoRow /\ e.logical[k].attribution = "none"
<1> HIDE DEF probable, named, known, own
<1>1. /\ \A k \in DOMAIN c.byID \cap known : c.byID[k] \in named(k)
      /\ own \subseteq DOMAIN c.byID
      /\ \A k \in own : c.byID[k] = k
      /\ \A k \in DOMAIN c.byID : R[c.byID[k]].agent = AgentOf[k]
      /\ \A i \in DOMAIN R : c.combined[i].of = i /\ IdOK(c, i) /\ GuessOK(c, i)
      /\ DOMAIN c.logical \cap DOMAIN c.byID = {}
      /\ \A k \in DOMAIN c.logical : AloneOK(c, k)
      /\ \A k \in DOMAIN c.byID : c.byID[k] \in DOMAIN R
      /\ c.combined \in [DOMAIN R -> Line]
  BY DEF Composed, Composing, Owned, probable, known, named, own
<1>2. key \in Keys
  BY DEF Composable, OfSessions, RecentKeys, Recent
<1>3. ASSUME /\ \A k \in DOMAIN d.byID \cap known : d.byID[k] \in named(k)
             /\ own \subseteq DOMAIN d.byID
             /\ \A k \in own : d.byID[k] = k
             /\ \A k \in DOMAIN d.byID : R[d.byID[k]].agent = AgentOf[k]
             /\ \A i \in DOMAIN R : d.combined[i].of = i /\ IdOK(d, i) /\ GuessOK(d, i)
             /\ DOMAIN d.logical \cap DOMAIN d.byID = {}
             /\ \A k \in DOMAIN d.logical : AloneOK(d, k)
      PROVE  Composed(d, R, T, U, at)
  BY <1>3 DEF Composed, Owned, probable, known, named, own
<1>4. CASE Adds(c, d, key, usage)
  <2>1. /\ key \notin DOMAIN c.byID
        /\ d.combined = c.combined /\ d.byID = c.byID
        /\ DOMAIN d.logical = DOMAIN c.logical \cup {key}
        /\ \A k \in DOMAIN c.logical \ {key} : d.logical[k] = c.logical[k]
    BY <1>4 DEF Adds
  <2>2. AloneOK(d, key)
    BY <1>4 DEF Adds, LogicalRow
  <2> QED
    BY <1>1, <1>3, <2>1, <2>2
<1>5. CASE Merging(c, d, R, probable, named(key), key, usage)
  <2>1. PICK i \in DOMAIN R, confidence \in {"confirmed", "probable"} :
           /\ Merges(c, d, R, key, i, usage, confidence)
           /\ i \in named(key)
           /\ key \in DOMAIN c.byID => i = c.byID[key]
           /\ confidence = "probable" => /\ key \notin DOMAIN c.byID
                                         /\ key \in DOMAIN probable /\ probable[key] = i
    BY <1>5 DEF Merging
  <2>2. /\ d.combined[i].of = i
        /\ d.combined[i].id = IF key \in DOMAIN c.byID THEN c.combined[i].id ELSE key
        /\ d.combined[i].attribution = "probable" => confidence = "probable"
        /\ \A j \in DOMAIN R \ {i} : d.combined[j] = c.combined[j]
    BY <1>1, <2>1 DEF Merges
  <2>3. /\ DOMAIN d.byID = DOMAIN c.byID \cup {key} /\ d.byID[key] = i
        /\ \A k \in DOMAIN c.byID \ {key} : d.byID[k] = c.byID[k]
        /\ DOMAIN d.logical = DOMAIN c.logical \ {key}
        /\ \A k \in DOMAIN d.logical : d.logical[k] = c.logical[k]
    BY <2>1 DEF Merges
  <2>4. \A k \in DOMAIN c.byID : d.byID[k] = c.byID[k]
    BY <2>1, <2>3
  <2>5. key \notin DOMAIN c.byID => key \notin own
    BY <1>1
  <2>6. \A j \in DOMAIN R : d.combined[j].of = j /\ IdOK(d, j) /\ GuessOK(d, j)
    <3>1. IdOK(d, i)
      BY <1>1, <2>2, <2>3, <2>4, <2>5
    <3>2. GuessOK(d, i)
      BY <2>1, <2>2
    <3>3. ASSUME NEW j \in DOMAIN R \ {i} PROVE IdOK(d, j) /\ GuessOK(d, j)
      <4>1. IdOK(c, j) /\ GuessOK(c, j) /\ d.combined[j] = c.combined[j]
        BY <1>1, <2>2
      <4> QED
        BY <2>3, <2>4, <4>1
    <3> HIDE DEF IdOK, GuessOK
    <3> QED
      BY <1>1, <2>2, <3>1, <3>2, <3>3
  <2>7. \A k \in DOMAIN d.byID \cap known : d.byID[k] \in named(k)
    BY <1>1, <2>1, <2>3, <2>4
  <2>8. /\ \A k \in own : k \in DOMAIN d.byID /\ d.byID[k] = k
        /\ \A k \in DOMAIN d.byID : R[d.byID[k]].agent = AgentOf[k]
    <3>1. R[i].agent = AgentOf[key]
      BY <2>1, SaidOfItsAgent DEF named
    <3> QED
      BY <1>1, <2>3, <2>4, <3>1
  <2>9. /\ DOMAIN d.logical \cap DOMAIN d.byID = {}
        /\ \A k \in DOMAIN d.logical : AloneOK(d, k)
    BY <1>1, <2>3
  <2> HIDE DEF IdOK, GuessOK, AloneOK
  <2> QED
    BY <1>3, <2>6, <2>7, <2>8, <2>9
<1>6. CASE Tells(c, d, R, key, usage)
  <2> DEFINE i == c.byID[key]
  <2>1. /\ key \in DOMAIN c.byID
        /\ d.byID = c.byID /\ d.logical = c.logical
        /\ \A j \in DOMAIN R \ {i} : d.combined[j] = c.combined[j]
        /\ d.combined[i] = [c.combined[i] EXCEPT !.usage = usage]
    BY <1>6 DEF Tells
  <2>2. i \in DOMAIN R /\ c.combined[i] \in Line
    BY <1>1, <2>1
  <2> HIDE DEF i
  <2>3. /\ d.combined[i].of = c.combined[i].of /\ d.combined[i].id = c.combined[i].id
        /\ d.combined[i].attribution = c.combined[i].attribution
    BY <2>1, <2>2 DEF Line
  <2>4. \A j \in DOMAIN R : d.combined[j].of = j /\ IdOK(d, j) /\ GuessOK(d, j)
    <3> SUFFICES ASSUME NEW j \in DOMAIN R
                 PROVE  d.combined[j].of = j /\ IdOK(d, j) /\ GuessOK(d, j)
      OBVIOUS
    <3>1. /\ d.combined[j].of = c.combined[j].of /\ d.combined[j].id = c.combined[j].id
          /\ d.combined[j].attribution = c.combined[j].attribution
      BY <2>1, <2>3
    <3>2. c.combined[j].of = j /\ IdOK(c, j) /\ GuessOK(c, j)
      BY <1>1
    <3> QED
      BY <2>1, <3>1, <3>2
  <2>5. \A k \in DOMAIN d.logical : AloneOK(d, k)
    BY <1>1, <2>1
  <2> HIDE DEF IdOK, GuessOK, AloneOK
  <2> QED
    BY <1>1, <1>3, <2>1, <2>4, <2>5
<1> QED
  BY <1>4, <1>5, <1>6 DEF Turn, probable, named

(* What another session's turn leaves alone. *)
LEMMA TurnOfAnother ==
    ASSUME NEW R, NEW T, NEW U, NEW at, Composable(R, T, U, at),
           NEW c, Composed(c, R, T, U, at), NEW d,
           NEW key \in RecentKeys(T, U, at), NEW usage,
           Turn(c, d, R, buildProbableProcessMatches(R, T, U, at),
                Named(R, T, U, at, key), key, usage),
           NEW k, k # key, Alone(R, T, U, at, k), NEW shown,
           Shows(c, R, T, U, at, k, shown)
    PROVE  Shows(d, R, T, U, at, k, shown)
<1> DEFINE probable == buildProbableProcessMatches(R, T, U, at)
           named == Named(R, T, U, at, k)
           others == Named(R, T, U, at, key)
<1>1. named \cap others = {} /\ named \subseteq DOMAIN R
  BY SaidOfASession DEF Alone
<1>2. key \in DOMAIN c.byID => c.byID[key] \in others
  BY DEF Composed, Owned
<1>3. /\ \A i \in named :
            /\ shown = <<>> => i \notin c.matched
            /\ k \in DOMAIN c.byID => c.combined[i].id = k
            /\ shown # <<>> => k \in DOMAIN c.byID /\ c.combined[i].usage = shown
      /\ named = {} /\ shown # <<>> =>
            k \in DOMAIN c.logical /\ c.logical[k] = LogicalRow(k, shown)
  BY DEF Shows
<1> HIDE DEF probable, named, others
<1>4. ASSUME /\ \A i \in named : /\ d.combined[i] = c.combined[i]
                                 /\ i \in d.matched => i \in c.matched
             /\ k \in DOMAIN d.byID <=> k \in DOMAIN c.byID
             /\ k \in DOMAIN c.logical =>
                   k \in DOMAIN d.logical /\ d.logical[k] = c.logical[k]
      PROVE  Shows(d, R, T, U, at, k, shown)
  BY <1>3, <1>4 DEF Shows, named
<1>5. CASE Adds(c, d, key, usage)
  BY <1>4, <1>5 DEF Adds
<1>6. CASE Merging(c, d, R, probable, others, key, usage)
  <2>1. PICK i \in DOMAIN R, confidence \in {"confirmed", "probable"} :
           Merges(c, d, R, key, i, usage, confidence) /\ i \in others
    BY <1>6 DEF Merging
  <2>2. \A j \in named : /\ d.combined[j] = c.combined[j]
                         /\ j \in d.matched => j \in c.matched
    BY <1>1, <2>1 DEF Merges
  <2>3. /\ k \in DOMAIN d.byID <=> k \in DOMAIN c.byID
        /\ k \in DOMAIN c.logical =>
              k \in DOMAIN d.logical /\ d.logical[k] = c.logical[k]
    BY <2>1 DEF Merges
  <2> QED
    BY <1>4, <2>2, <2>3
<1>7. CASE Tells(c, d, R, key, usage)
  BY <1>1, <1>2, <1>4, <1>7 DEF Tells
<1> QED
  BY <1>5, <1>6, <1>7 DEF Turn, probable, others

(* What its own turn leaves: the tokens of this turn. *)
LEMMA TurnOfItsOwn ==
    ASSUME NEW R, NEW T, NEW U, NEW at, Composable(R, T, U, at),
           NEW c, Composed(c, R, T, U, at), NEW d,
           NEW k \in RecentKeys(T, U, at), NEW usage, usage # <<>>,
           Turn(c, d, R, buildProbableProcessMatches(R, T, U, at),
                Named(R, T, U, at, k), k, usage),
           Alone(R, T, U, at, k), NEW shown, Shows(c, R, T, U, at, k, shown),
           Named(R, T, U, at, k) # {} => k \in DOMAIN d.byID
    PROVE  Shows(d, R, T, U, at, k, usage)
<1> DEFINE probable == buildProbableProcessMatches(R, T, U, at)
           named == Named(R, T, U, at, k)
<1>1. named \subseteq DOMAIN R /\ \A i, j \in named : i = j
  <2>1. named \subseteq DOMAIN R /\ IsFiniteSet(named) /\ Cardinality(named) <= 1
    BY SaidOfASession DEF Alone
  <2> HIDE DEF named
  <2> QED
    BY <2>1, NoMoreThanOne
<1>2. /\ k \in DOMAIN c.byID => c.byID[k] \in named
      /\ c.combined \in [DOMAIN R -> Line]
  BY DEF Composed, Owned, Composing
<1>3. \A i \in named : k \in DOMAIN c.byID => c.combined[i].id = k
  BY DEF Shows
<1> HIDE DEF probable, named
<1>4. ASSUME /\ \A i \in named : /\ k \in DOMAIN d.byID
                                 /\ d.combined[i].id = k /\ d.combined[i].usage = usage
             /\ named = {} => k \in DOMAIN d.logical /\ d.logical[k] = LogicalRow(k, usage)
      PROVE  Shows(d, R, T, U, at, k, usage)
  BY <1>4 DEF Shows, named
<1>5. CASE Adds(c, d, k, usage)
  <2>1. named = {}
    BY <1>5 DEF Adds, named
  <2> QED
    BY <1>4, <1>5, <2>1 DEF Adds
<1>6. CASE Merging(c, d, R, probable, named, k, usage)
  <2>1. PICK i \in DOMAIN R, confidence \in {"confirmed", "probable"} :
           Merges(c, d, R, k, i, usage, confidence) /\ i \in named
    BY <1>6 DEF Merging
  <2>2. d.combined[i].id = k /\ d.combined[i].usage = usage /\ k \in DOMAIN d.byID
    BY <1>3, <2>1 DEF Merges
  <2> QED
    BY <1>1, <1>4, <2>1, <2>2
<1>7. CASE Tells(c, d, R, k, usage)
  <2> DEFINE i == c.byID[k]
  <2>1. i \in named /\ k \in DOMAIN c.byID /\ d.byID = c.byID
    BY <1>2, <1>7 DEF Tells
  <2>2. d.combined[i] = [c.combined[i] EXCEPT !.usage = usage] /\ c.combined[i] \in Line
    BY <1>1, <1>2, <1>7, <2>1 DEF Tells
  <2> HIDE DEF i
  <2>3. d.combined[i].id = k /\ d.combined[i].usage = usage
    BY <1>3, <2>1, <2>2 DEF Line
  <2> QED
    BY <1>1, <1>4, <2>1, <2>3
<1> QED
  BY <1>5, <1>6, <1>7 DEF Turn, probable, named

(* What a session with whom no other competes shows after some turns. *)
Told(order, n, k, usage, before) == IF \E m \in 1 .. n : order[m] = k THEN usage ELSE before

(* After all turns of the first loop. *)
LEMMA TelemetryLoop ==
    ASSUME NEW R, NEW T, NEW U, NEW at, Composable(R, T, U, at),
           NEW order \in SetToSeqs(Recent(T, at))
    PROVE  LET c == TelemetryTurns(R, T, buildProbableProcessMatches(R, T, U, at), order)
                       [Len(order)]
           IN  /\ Composed(c, R, T, U, at)
               /\ \A k \in RecentKeys(T, U, at) : Alone(R, T, U, at, k) =>
                     Shows(c, R, T, U, at, k,
                           IF k \in Recent(T, at) THEN TelemetryOf(k) ELSE <<>>)
<1> DEFINE probable == buildProbableProcessMatches(R, T, U, at)
           c == TelemetryTurns(R, T, probable, order)
           L == Len(order)
           known == RecentKeys(T, U, at)
           Good(n) == /\ Composed(c[n], R, T, U, at)
                      /\ \A k \in DOMAIN c[n].logical : \E m \in 1 .. n : order[m] = k
                      /\ \A k \in known : Alone(R, T, U, at, k) =>
                            Shows(c[n], R, T, U, at, k,
                                  Told(order, n, k, TelemetryOf(k), <<>>))
           S == {n \in 0 .. L : Good(n)}
<1>1. Recent(T, at) \subseteq known /\ IsFiniteSet(Recent(T, at))
  <2>1. Recent(T, at) \subseteq Keys
    BY DEF Recent, Composable, OfSessions
  <2> QED
    BY <2>1, FewIds DEF RecentKeys
<1>2. /\ L \in Nat
      /\ \A n \in 1 .. L : order[n] \in Recent(T, at)
      /\ \A m, n \in 1 .. L : order[m] = order[n] => m = n
      /\ \A k \in Recent(T, at) : \E n \in 1 .. L : order[n] = k
  BY <1>1, AnyOrder
<1>3. /\ c[0] = Unmerged(R)
      /\ \A n \in 1 .. L : c[n] = MergeTelemetry(c[n - 1], R, T, probable, order[n])
  BY <1>2, TelemetryTurnsAre
<1> HIDE DEF c, L, probable, known
<1>4. Good(0)
  <2>1. \A k : Told(order, 0, k, TelemetryOf(k), <<>>) = <<>>
    BY DEF Told
  <2> QED
    BY <1>3, <2>1, UnmergedComposed DEF known
<1>5. ASSUME NEW n \in 0 .. L - 1, Good(n) PROVE Good(n + 1)
  <2> DEFINE key == order[n + 1]
             old == c[n]
             new == c[n + 1]
             named == Named(R, T, U, at, key)
  <2>1. n + 1 \in 1 .. L /\ (n + 1) - 1 = n /\ \A m \in 1 .. n : m \in 1 .. L /\ m # n + 1
    BY <1>2
  <2>2. key \in Recent(T, at) /\ key \in known
    BY <1>1, <1>2, <2>1
  <2>3. new = MergeTelemetry(old, R, T, probable, key)
    BY <1>3, <2>1
  <2>4. \A m \in 1 .. n : order[m] # key
    BY <1>2, <2>1
  <2> HIDE DEF key, old, new
  <2>5. /\ Composed(old, R, T, U, at)
        /\ \A k \in DOMAIN old.logical : \E m \in 1 .. n : order[m] = k
        /\ \A k \in known : Alone(R, T, U, at, k) =>
              Shows(old, R, T, U, at, k, Told(order, n, k, TelemetryOf(k), <<>>))
    BY <1>5 DEF old
  <2>6. key \notin DOMAIN old.logical
    BY <2>4, <2>5
  <2>7. /\ Composing(new, R)
        /\ Turn(old, new, R, probable, named, key, TelemetryOf(key))
        /\ Alone(R, T, U, at, key) /\ named # {} /\ named \cap old.matched = {}
              => key \in DOMAIN new.byID
    BY <2>2, <2>3, <2>5, <2>6, TelemetryTurn DEF Composed, probable
  <2>8. Composed(new, R, T, U, at)
    BY <2>2, <2>5, <2>7, TurnComposes DEF probable, known
  <2>9. ASSUME NEW k \in DOMAIN new.logical PROVE \E m \in 1 .. n + 1 : order[m] = k
    <3>1. k = key \/ k \in DOMAIN old.logical
      BY <2>7 DEF Turn, Adds, Merging, Merges, Tells
    <3>2. \A m \in 1 .. n : m \in 1 .. n + 1
      OBVIOUS
    <3>3. n + 1 \in 1 .. n + 1 /\ order[n + 1] = key
      BY DEF key
    <3> QED
      BY <2>5, <3>1, <3>2, <3>3
  <2>10. ASSUME NEW k \in known, Alone(R, T, U, at, k)
         PROVE  Shows(new, R, T, U, at, k, Told(order, n + 1, k, TelemetryOf(k), <<>>))
    <3>1. Shows(old, R, T, U, at, k, Told(order, n, k, TelemetryOf(k), <<>>))
      BY <2>5, <2>10
    <3>2. CASE k = key
      <4>1. Told(order, n, k, TelemetryOf(k), <<>>) = <<>>
        BY <2>4, <3>2 DEF Told
      <4>2. Told(order, n + 1, k, TelemetryOf(k), <<>>) = TelemetryOf(k)
        <5>1. n + 1 \in 1 .. n + 1 /\ order[n + 1] = k
          BY <3>2 DEF key
        <5> QED
          BY <5>1 DEF Told
      <4>3. named \cap old.matched = {}
        BY <3>1, <3>2, <4>1 DEF Shows
      <4>4. named # {} => key \in DOMAIN new.byID
        BY <2>7, <2>10, <3>2, <4>3
      <4>5. TelemetryOf(k) # <<>>
        BY DEF TelemetryOf
      <4>6. /\ Shows(old, R, T, U, at, k, <<>>)
            /\ k \in RecentKeys(T, U, at)
            /\ Turn(old, new, R, buildProbableProcessMatches(R, T, U, at),
                    Named(R, T, U, at, k), k, TelemetryOf(k))
            /\ Named(R, T, U, at, k) # {} => k \in DOMAIN new.byID
        BY <2>7, <3>1, <3>2, <4>1, <4>4 DEF probable, known
      <4>7. Shows(new, R, T, U, at, k, TelemetryOf(k))
        BY <2>5, <2>10, <4>5, <4>6, TurnOfItsOwn
      <4> QED
        BY <4>2, <4>7
    <3>3. CASE k # key
      <4>1. Told(order, n + 1, k, TelemetryOf(k), <<>>)
               = Told(order, n, k, TelemetryOf(k), <<>>)
        <5>1. \A m \in 1 .. n + 1 : m \in 1 .. n \/ m = n + 1
          OBVIOUS
        <5>2. \A m \in 1 .. n : m \in 1 .. n + 1
          OBVIOUS
        <5>3. order[n + 1] # k
          BY <3>3 DEF key
        <5> QED
          BY <5>1, <5>2, <5>3 DEF Told
      <4> QED
        BY <2>2, <2>5, <2>7, <2>10, <3>1, <3>3, <4>1, TurnOfAnother DEF probable, known
    <3> QED
      BY <3>2, <3>3
  <2> QED
    BY <2>8, <2>9, <2>10 DEF new
<1>6. Good(L)
  <2> HIDE DEF Good
  <2>1. 0 .. L \subseteq S
    <3>1. 0 \in S /\ \A n \in 0 .. L - 1 : n \in S => n + 1 \in S
      BY <1>2, <1>4, <1>5
    <3> HIDE DEF S
    <3> QED
      BY <1>2, <3>1, UpTo
  <2> QED
    BY <1>2, <2>1
<1>7. \A k \in known : Told(order, L, k, TelemetryOf(k), <<>>)
                          = IF k \in Recent(T, at) THEN TelemetryOf(k) ELSE <<>>
  BY <1>2 DEF Told
<1> QED
  BY <1>6, <1>7 DEF c, L, probable, known

(* After all turns of both. *)
LEMMA TranscriptLoop ==
    ASSUME NEW R, NEW T, NEW U, NEW at, Composable(R, T, U, at),
           NEW merged, Composed(merged, R, T, U, at),
           \A k \in RecentKeys(T, U, at) : Alone(R, T, U, at, k) =>
              Shows(merged, R, T, U, at, k,
                    IF k \in Recent(T, at) THEN TelemetryOf(k) ELSE <<>>),
           NEW order \in SetToSeqs(Recent(U, at))
    PROVE  LET c == TranscriptTurns(merged, R,
                                    buildProbableProcessMatches(R, T, U, at), order)
                       [Len(order)]
           IN  /\ Composed(c, R, T, U, at)
               /\ \A k \in RecentKeys(T, U, at) : Alone(R, T, U, at, k) =>
                     Shows(c, R, T, U, at, k,
                           IF k \in Recent(U, at) THEN TranscriptOf(k) ELSE TelemetryOf(k))
<1> DEFINE probable == buildProbableProcessMatches(R, T, U, at)
           c == TranscriptTurns(merged, R, probable, order)
           L == Len(order)
           known == RecentKeys(T, U, at)
           before(k) == IF k \in Recent(T, at) THEN TelemetryOf(k) ELSE <<>>
           Good(n) == /\ Composed(c[n], R, T, U, at)
                      /\ \A k \in known : Alone(R, T, U, at, k) =>
                            Shows(c[n], R, T, U, at, k,
                                  Told(order, n, k, TranscriptOf(k), before(k)))
           S == {n \in 0 .. L : Good(n)}
<1>1. Recent(U, at) \subseteq known /\ IsFiniteSet(Recent(U, at))
  <2>1. Recent(U, at) \subseteq Keys
    BY DEF Recent, Composable, OfSessions
  <2> QED
    BY <2>1, FewIds DEF RecentKeys
<1>2. /\ L \in Nat
      /\ \A n \in 1 .. L : order[n] \in Recent(U, at)
      /\ \A m, n \in 1 .. L : order[m] = order[n] => m = n
      /\ \A k \in Recent(U, at) : \E n \in 1 .. L : order[n] = k
  BY <1>1, AnyOrder
<1>3. /\ c[0] = merged
      /\ \A n \in 1 .. L : c[n] = MergeTranscript(c[n - 1], R, probable, order[n])
  BY <1>2, TranscriptTurnsAre
<1> HIDE DEF c, L, probable, known
<1>4. Good(0)
  <2>1. \A k : Told(order, 0, k, TranscriptOf(k), before(k)) = before(k)
    BY DEF Told
  <2> QED
    BY <1>3, <2>1 DEF known
<1>5. ASSUME NEW n \in 0 .. L - 1, Good(n) PROVE Good(n + 1)
  <2> DEFINE key == order[n + 1]
             old == c[n]
             new == c[n + 1]
             named == Named(R, T, U, at, key)
  <2>1. n + 1 \in 1 .. L /\ (n + 1) - 1 = n /\ \A m \in 1 .. n : m \in 1 .. L /\ m # n + 1
    BY <1>2
  <2>2. key \in Recent(U, at) /\ key \in known
    BY <1>1, <1>2, <2>1
  <2>3. new = MergeTranscript(old, R, probable, key)
    BY <1>3, <2>1
  <2>4. \A m \in 1 .. n : order[m] # key
    BY <1>2, <2>1
  <2> HIDE DEF key, old, new
  <2>5. /\ Composed(old, R, T, U, at)
        /\ \A k \in known : Alone(R, T, U, at, k) =>
              Shows(old, R, T, U, at, k, Told(order, n, k, TranscriptOf(k), before(k)))
    BY <1>5 DEF old
  <2>6. /\ Composing(new, R)
        /\ Turn(old, new, R, probable, named, key, TranscriptOf(key))
        /\ /\ Alone(R, T, U, at, key) /\ named # {}
           /\ key \notin DOMAIN old.byID =>
                 key \notin Recent(T, at) /\ named \cap old.matched = {}
           => key \in DOMAIN new.byID
    BY <2>2, <2>3, <2>5, TranscriptTurn DEF Composed, probable
  <2>7. Composed(new, R, T, U, at)
    BY <2>2, <2>5, <2>6, TurnComposes DEF probable, known
  <2>8. ASSUME NEW k \in known, Alone(R, T, U, at, k)
         PROVE  Shows(new, R, T, U, at, k,
                      Told(order, n + 1, k, TranscriptOf(k), before(k)))
    <3>1. Shows(old, R, T, U, at, k, Told(order, n, k, TranscriptOf(k), before(k)))
      BY <2>5, <2>8
    <3>2. CASE k = key
      <4>1. Told(order, n, k, TranscriptOf(k), before(k)) = before(k)
        BY <2>4, <3>2 DEF Told
      <4>2. Told(order, n + 1, k, TranscriptOf(k), before(k)) = TranscriptOf(k)
        <5>1. n + 1 \in 1 .. n + 1 /\ order[n + 1] = k
          BY <3>2 DEF key
        <5> QED
          BY <5>1 DEF Told
      <4>3. Shows(old, R, T, U, at, key, before(key))
        BY <3>1, <3>2, <4>1
      <4>4. named # {} /\ key \notin DOMAIN old.byID
               => key \notin Recent(T, at) /\ named \cap old.matched = {}
        <5>1. \A i \in named : /\ before(key) = <<>> => i \notin old.matched
                               /\ before(key) # <<>> => key \in DOMAIN old.byID
          BY <4>3 DEF Shows
        <5>2. key \in Recent(T, at) <=> before(key) # <<>>
          BY DEF TelemetryOf
        <5> QED
          BY <5>1, <5>2
      <4>5. named # {} => key \in DOMAIN new.byID
        BY <2>6, <2>8, <3>2, <4>4
      <4>6. TranscriptOf(k) # <<>>
        BY DEF TranscriptOf
      <4>7. /\ Shows(old, R, T, U, at, k, before(k))
            /\ k \in RecentKeys(T, U, at)
            /\ Turn(old, new, R, buildProbableProcessMatches(R, T, U, at),
                    Named(R, T, U, at, k), k, TranscriptOf(k))
            /\ Named(R, T, U, at, k) # {} => k \in DOMAIN new.byID
        BY <2>6, <3>2, <4>3, <4>5 DEF probable, known
      <4>8. Shows(new, R, T, U, at, k, TranscriptOf(k))
        BY <2>5, <2>8, <4>6, <4>7, TurnOfItsOwn
      <4> QED
        BY <4>2, <4>8
    <3>3. CASE k # key
      <4>1. Told(order, n + 1, k, TranscriptOf(k), before(k))
               = Told(order, n, k, TranscriptOf(k), before(k))
        <5>1. \A m \in 1 .. n + 1 : m \in 1 .. n \/ m = n + 1
          OBVIOUS
        <5>2. \A m \in 1 .. n : m \in 1 .. n + 1
          OBVIOUS
        <5>3. order[n + 1] # k
          BY <3>3 DEF key
        <5> QED
          BY <5>1, <5>2, <5>3 DEF Told
      <4> QED
        BY <2>2, <2>5, <2>6, <2>8, <3>1, <3>3, <4>1, TurnOfAnother DEF probable, known
    <3> QED
      BY <3>2, <3>3
  <2> QED
    BY <2>7, <2>8 DEF new
<1>6. Good(L)
  <2> HIDE DEF Good
  <2>1. 0 .. L \subseteq S
    <3>1. 0 \in S /\ \A n \in 0 .. L - 1 : n \in S => n + 1 \in S
      BY <1>2, <1>4, <1>5
    <3> HIDE DEF S
    <3> QED
      BY <1>2, <3>1, UpTo
  <2> QED
    BY <1>2, <2>1
<1>7. \A k \in known : Told(order, L, k, TranscriptOf(k), before(k))
                          = IF k \in Recent(U, at) THEN TranscriptOf(k) ELSE TelemetryOf(k)
  BY <1>2 DEF Told, known, RecentKeys
<1> QED
  BY <1>6, <1>7 DEF c, L, probable, known

-----------------------------------------------------------------------------
(* The list *)

AgentIn(R, line) == IF line.of = NoRow THEN AgentOf[line.id] ELSE R[line.of].agent

(* What such a list says of all sessions. *)
Listing(list, R, T, U, at) ==
    LET probable == buildProbableProcessMatches(R, T, U, at)
    IN  /\ \A n \in DOMAIN list : list[n] \in Line
        /\ \A m, n \in DOMAIN list :
              list[m].id = list[n].id /\ AgentIn(R, list[m]) = AgentIn(R, list[n]) => m = n
        /\ \A n \in DOMAIN list :
              list[n].attribution = "probable" /\ list[n].id \in Keys =>
                 list[n].id \in DOMAIN probable /\ probable[list[n].id] = list[n].of
        /\ \A k \in RecentKeys(T, U, at) : Alone(R, T, U, at, k) =>
              LET named == Named(R, T, U, at, k)
                  usage == IF k \in Recent(U, at) THEN TranscriptOf(k) ELSE TelemetryOf(k)
              IN  \/ \E n \in DOMAIN list :
                        /\ list[n].id = k /\ AgentIn(R, list[n]) = AgentOf[k]
                        /\ list[n].usage = usage
                        /\ IF named = {} THEN list[n].of = NoRow ELSE list[n].of \in named
                  \/ /\ named = {}
                     /\ \A n \in DOMAIN list :
                           ~ (list[n].id = k /\ AgentIn(R, list[n]) = AgentOf[k])
                     /\ Len(list) = Limit + Cardinality(DOMAIN R)

(* Each composition is such a list. *)
LEMMA CompositionListing ==
    ASSUME NEW R, NEW T, NEW U, NEW at, Composable(R, T, U, at),
           NEW list \in Compositions(R, T, U, at)
    PROVE  Listing(list, R, T, U, at)
<1> DEFINE probable == buildProbableProcessMatches(R, T, U, at)
           usage(k) == IF k \in Recent(U, at) THEN TranscriptOf(k) ELSE TelemetryOf(k)
           known == RecentKeys(T, U, at)
           named(k) == Named(R, T, U, at, k)
<1>1. PICK order \in SetToSeqs(Recent(T, at)), sourceOrder \in SetToSeqs(Recent(U, at)) :
         list = composeSessionsLocked(R, T, U, at, order, sourceOrder)
  BY DEF Compositions
<1> DEFINE merged == TelemetryTurns(R, T, probable, order)[Len(order)]
           c == TranscriptTurns(merged, R, probable, sourceOrder)[Len(sourceOrder)]
<1>2. list = Listed(c, R, T, U, at)
  BY <1>1 DEF composeSessionsLocked
<1>3. /\ Composed(merged, R, T, U, at)
      /\ \A k \in known : Alone(R, T, U, at, k) =>
            Shows(merged, R, T, U, at, k,
                  IF k \in Recent(T, at) THEN TelemetryOf(k) ELSE <<>>)
  BY TelemetryLoop
<1>4. /\ Composed(c, R, T, U, at)
      /\ \A k \in known : Alone(R, T, U, at, k) => Shows(c, R, T, U, at, k, usage(k))
  <2> HIDE DEF merged
  <2> QED
    BY <1>3, TranscriptLoop
<1> HIDE DEF merged, c
<1>5. PICK kept, processes : IsList(list, c, R, kept, processes)
  BY <1>2, <1>4, ListedIsList DEF Composed, Composing
<1> DEFINE K == Len(kept)
           N == Cardinality(DOMAIN R)
<1>6. /\ K \in Nat /\ N \in Nat /\ Len(list) = K + N /\ DOMAIN list = 1 .. K + N
      /\ \A n \in 1 .. K : kept[n] \in DOMAIN c.logical /\ list[n] = c.logical[kept[n]]
      /\ \A m, n \in 1 .. K : kept[m] = kept[n] => m = n
      /\ K = Limit \/ \A k \in DOMAIN c.logical : \E n \in 1 .. K : kept[n] = k
      /\ \A n \in 1 .. N : /\ processes[n] \in DOMAIN R
                           /\ list[K + n] = c.combined[processes[n]]
      /\ \A m, n \in 1 .. N : processes[m] = processes[n] => m = n
      /\ \A i \in DOMAIN R : \E n \in 1 .. N : processes[n] = i
  BY <1>5 DEF IsList
<1> HIDE DEF K, N, probable
<1>7. /\ \A k \in Keys \cap DOMAIN R : k \notin DOMAIN c.byID => R[k].agent # AgentOf[k]
      /\ \A k \in DOMAIN c.byID : k \in Keys /\ R[c.byID[k]].agent = AgentOf[k]
      /\ \A i \in DOMAIN R :
            /\ c.combined[i] \in Line /\ c.combined[i].of = i
            /\ \/ c.combined[i].id = i
               \/ /\ c.combined[i].id \in DOMAIN c.byID \ Own(R)
                  /\ c.byID[c.combined[i].id] = i
            /\ c.combined[i].attribution = "probable" =>
                  \/ c.combined[i].id = i /\ i \in Pids
                  \/ /\ c.combined[i].id \in DOMAIN probable
                     /\ probable[c.combined[i].id] = i
      /\ DOMAIN c.logical \cap DOMAIN c.byID = {}
      /\ \A k \in DOMAIN c.logical :
            /\ k \in Keys /\ c.logical[k] \in Line /\ c.logical[k].id = k
            /\ c.logical[k].of = NoRow /\ c.logical[k].attribution = "none"
      /\ \A k \in DOMAIN c.byID \cap known : c.byID[k] \in named(k)
  BY <1>4 DEF Composed, Composing, Owned, Own, probable
(* A line is a row without processes, or one of them. *)
<1>8. ASSUME NEW n \in DOMAIN list, n \in 1 .. K
      PROVE  kept[n] \in DOMAIN c.logical /\ list[n] = c.logical[kept[n]]
  BY <1>6, <1>8
<1>9. ASSUME NEW n \in DOMAIN list, n \notin 1 .. K
      PROVE  /\ n - K \in 1 .. N /\ processes[n - K] \in DOMAIN R
             /\ list[n] = c.combined[processes[n - K]]
  <2>1. n - K \in 1 .. N /\ K + (n - K) = n
    BY <1>6, <1>9
  <2> QED
    BY <1>6, <2>1
<1>10. ASSUME NEW k \in DOMAIN c.logical, NEW i \in DOMAIN R
       PROVE  /\ AgentIn(R, c.logical[k]) = AgentOf[k]
              /\ AgentIn(R, c.combined[i]) = R[i].agent
              /\ ~ (c.combined[i].id = k /\ R[i].agent = AgentOf[k])
  <2>1. k \notin DOMAIN c.byID /\ k \in Keys
    BY <1>7
  <2>2. i # NoRow
    BY AttributionAssumption DEF Composable, ProcessRowsOK
  <2> QED
    BY <1>7, <2>1, <2>2 DEF AgentIn
<1>11. ASSUME NEW i \in DOMAIN R, NEW j \in DOMAIN R, c.combined[i].id = c.combined[j].id,
              AgentIn(R, c.combined[i]) = AgentIn(R, c.combined[j])
       PROVE  i = j
  <2>1. R[i].agent = R[j].agent
    <3>1. NoRow \notin DOMAIN R
      BY AttributionAssumption DEF Composable, ProcessRowsOK
    <3> QED
      BY <1>7, <1>11, <3>1 DEF AgentIn
  <2>2. ASSUME NEW p \in DOMAIN R, NEW q \in DOMAIN R, R[p].agent = R[q].agent,
               c.combined[p].id = p, c.combined[q].id = p,
               p \in DOMAIN c.byID \ Own(R), c.byID[p] = q
        PROVE  FALSE
    <3>1. p \in Keys /\ R[q].agent = AgentOf[p]
      BY <1>7, <2>2
    <3> QED
      BY <2>2, <3>1 DEF Own
  <2> QED
    BY <1>7, <1>11, <2>1, <2>2
<1>12. ASSUME NEW n \in DOMAIN list PROVE list[n] \in Line
  <2>1. n \in 1 .. K => list[n] \in Line
    BY <1>7, <1>8
  <2>2. n \notin 1 .. K => list[n] \in Line
    BY <1>7, <1>9
  <2> QED
    BY <2>1, <2>2
<1>13. ASSUME NEW m \in DOMAIN list, NEW n \in DOMAIN list, list[m].id = list[n].id,
              AgentIn(R, list[m]) = AgentIn(R, list[n])
       PROVE  m = n
  <2>1. CASE m \in 1 .. K /\ n \in 1 .. K
    <3>1. list[m].id = kept[m] /\ list[n].id = kept[n]
      BY <1>7, <1>8, <2>1
    <3>2. kept[m] = kept[n]
      BY <1>13, <3>1
    <3>3. \A p, q \in 1 .. K : kept[p] = kept[q] => p = q
      BY <1>6
    <3> QED
      BY <2>1, <3>2, <3>3, Zenon
  <2>2. CASE m \in 1 .. K /\ n \notin 1 .. K
    <3>1. /\ list[m].id = kept[m] /\ kept[m] \in DOMAIN c.logical
          /\ list[m] = c.logical[kept[m]]
      BY <1>7, <1>8, <2>2
    <3>2. processes[n - K] \in DOMAIN R /\ list[n] = c.combined[processes[n - K]]
      BY <1>9, <2>2
    <3>3. /\ AgentIn(R, list[m]) = AgentOf[kept[m]]
          /\ AgentIn(R, list[n]) = R[processes[n - K]].agent
          /\ ~ (list[n].id = kept[m] /\ R[processes[n - K]].agent = AgentOf[kept[m]])
      BY <1>10, <3>1, <3>2
    <3> QED
      BY <1>13, <3>1, <3>3
  <2>3. CASE m \notin 1 .. K /\ n \in 1 .. K
    <3>1. /\ list[n].id = kept[n] /\ kept[n] \in DOMAIN c.logical
          /\ list[n] = c.logical[kept[n]]
      BY <1>7, <1>8, <2>3
    <3>2. processes[m - K] \in DOMAIN R /\ list[m] = c.combined[processes[m - K]]
      BY <1>9, <2>3
    <3>3. /\ AgentIn(R, list[n]) = AgentOf[kept[n]]
          /\ AgentIn(R, list[m]) = R[processes[m - K]].agent
          /\ ~ (list[m].id = kept[n] /\ R[processes[m - K]].agent = AgentOf[kept[n]])
      BY <1>10, <3>1, <3>2
    <3> QED
      BY <1>13, <3>1, <3>3
  <2>4. CASE m \notin 1 .. K /\ n \notin 1 .. K
    <3>1. /\ m - K \in 1 .. N /\ processes[m - K] \in DOMAIN R
          /\ list[m] = c.combined[processes[m - K]]
      BY <1>9, <2>4
    <3>2. /\ n - K \in 1 .. N /\ processes[n - K] \in DOMAIN R
          /\ list[n] = c.combined[processes[n - K]]
      BY <1>9, <2>4
    <3>3. processes[m - K] = processes[n - K]
      BY <1>11, <1>13, <3>1, <3>2
    <3>4. m - K = n - K
      BY <1>6, <3>1, <3>2, <3>3
    <3> QED
      BY <1>6, <3>4
  <2> QED
    BY <2>1, <2>2, <2>3, <2>4
<1>14. ASSUME NEW n \in DOMAIN list,
              list[n].attribution = "probable", list[n].id \in Keys
       PROVE  list[n].id \in DOMAIN probable /\ probable[list[n].id] = list[n].of
  <2>1. n \notin 1 .. K
    BY <1>7, <1>8, <1>14
  <2>2. processes[n - K] \in DOMAIN R /\ list[n] = c.combined[processes[n - K]]
    BY <1>9, <2>1
  <2> QED
    BY <1>7, <1>14, <2>2, AttributionAssumption
<1>15. ASSUME NEW k \in known, Alone(R, T, U, at, k)
       PROVE  \/ \E n \in DOMAIN list :
                    /\ list[n].id = k /\ AgentIn(R, list[n]) = AgentOf[k]
                    /\ list[n].usage = usage(k)
                    /\ IF named(k) = {} THEN list[n].of = NoRow ELSE list[n].of \in named(k)
              \/ /\ named(k) = {}
                 /\ \A n \in DOMAIN list :
                       ~ (list[n].id = k /\ AgentIn(R, list[n]) = AgentOf[k])
                 /\ Len(list) = Limit + N
  <2>1. Shows(c, R, T, U, at, k, usage(k)) /\ usage(k) # <<>>
    BY <1>4, <1>15 DEF TelemetryOf, TranscriptOf
  <2>2. named(k) \subseteq DOMAIN R
    BY SaidOfASession
  <2>3. CASE named(k) # {}
    <3>1. PICK i : i \in named(k)
      BY <2>3
    <3>2. c.combined[i].id = k /\ c.combined[i].usage = usage(k)
      BY <2>1, <3>1 DEF Shows
    <3>3. PICK p \in 1 .. N : processes[p] = i
      BY <1>6, <2>2, <3>1
    <3>4. K + p \in DOMAIN list /\ list[K + p] = c.combined[i]
      BY <1>6, <3>3
    <3>5. list[K + p].of = i /\ i # NoRow
      BY <1>7, <2>2, <3>1, <3>4, AttributionAssumption DEF Composable, ProcessRowsOK
    <3>6. AgentIn(R, list[K + p]) = AgentOf[k]
      <4>1. R[i].agent = AgentOf[k]
        BY <3>1, SaidOfItsAgent
      <4> QED
        BY <3>5, <4>1 DEF AgentIn
    <3> QED
      BY <3>1, <3>2, <3>4, <3>5, <3>6
  <2>4. CASE named(k) = {}
    <3>1. k \in DOMAIN c.logical /\ c.logical[k] = LogicalRow(k, usage(k))
      BY <2>1, <2>4 DEF Shows
    <3>2. c.logical[k].id = k /\ c.logical[k].usage = usage(k) /\ c.logical[k].of = NoRow
      BY <3>1 DEF LogicalRow
    <3>3. CASE \E n \in 1 .. K : kept[n] = k
      <4>1. PICK n \in 1 .. K : kept[n] = k
        BY <3>3
      <4>2. n \in DOMAIN list /\ list[n] = c.logical[k]
        BY <1>6, <4>1
      <4>3. AgentIn(R, list[n]) = AgentOf[k]
        BY <3>2, <4>2 DEF AgentIn
      <4> QED
        BY <2>4, <3>2, <4>2, <4>3
    <3>4. CASE ~ \E n \in 1 .. K : kept[n] = k
      <4>1. K = Limit
        BY <1>6, <3>1, <3>4
      <4>2. ASSUME NEW n \in DOMAIN list
            PROVE  ~ (list[n].id = k /\ AgentIn(R, list[n]) = AgentOf[k])
        <5>1. CASE n \in 1 .. K
          BY <1>7, <1>8, <3>4, <5>1
        <5>2. CASE n \notin 1 .. K
          BY <1>9, <1>10, <3>1, <5>2
        <5> QED
          BY <5>1, <5>2
      <4> QED
        BY <1>6, <2>4, <4>1, <4>2
    <3> QED
      BY <3>3, <3>4
  <2> QED
    BY <2>3, <2>4
<1> QED
  BY <1>12, <1>13, <1>14, <1>15 DEF Listing, probable, N

-----------------------------------------------------------------------------
(* The steps of Rows *)

(* Every variable but the list holds a value of its kind. *)
HeldOK ==
    /\ now \in Times
    /\ rows = <<>> \/ rows \in ProcessRows
    /\ DOMAIN telemetry \subseteq Keys
    /\ \A k \in DOMAIN telemetry : telemetry[k] \in TelemetrySession
    /\ DOMAIN sources \subseteq Keys
    /\ \A k \in DOMAIN sources : sources[k] \in UsageSource
    /\ snapshot.at \in Times
    /\ ticks \in 0 .. MaxTicks
    /\ reports \in 0 .. MaxReports
    /\ writes \in 0 .. MaxWrites

(* The inductive invariant: the list says what it should of what is held.  *)
RowsInv == HeldOK /\ Listing(snapshot.sessions, rows, telemetry, sources, snapshot.at)

(* What is held can be composed. *)
LEMMA HeldIsComposable ==
    ASSUME NEW R, R = <<>> \/ R \in ProcessRows,
           NEW T, DOMAIN T \subseteq Keys, \A k \in DOMAIN T : T[k] \in TelemetrySession,
           NEW U, DOMAIN U \subseteq Keys, \A k \in DOMAIN U : U[k] \in UsageSource,
           NEW at \in Times
    PROVE  Composable(R, T, U, at)
<1>1. Times \subseteq Nat
  BY RowsAssumption DEF Times
<1>2. ProcessRowsOK(R)
  <2>1. CASE R = <<>>
    <3>1. DOMAIN R = {}
      BY <2>1
    <3> QED
      BY <3>1 DEF ProcessRowsOK
  <2>2. CASE R \in ProcessRows
    BY <2>2, RowsAssumption DEF ProcessRowsOK
  <2> QED
    BY <2>1, <2>2
<1>3. OfSessions(T) /\ OfSessions(U)
  BY <1>1 DEF OfSessions, TelemetrySession, UsageSource
<1> QED
  BY <1>1, <1>2, <1>3 DEF Composable

(* With holds what the function held, and the new value. *)
LEMMA WithHolds ==
    ASSUME NEW f, NEW S, NEW V, DOMAIN f \subseteq S, \A x \in DOMAIN f : f[x] \in V,
           NEW k \in S, NEW value \in V
    PROVE  /\ DOMAIN With(f, k, value) \subseteq S
           /\ \A x \in DOMAIN With(f, k, value) : With(f, k, value)[x] \in V
BY DEF With

(* At first nothing is held, and nothing is listed. *)
LEMMA InitRowsInv == Init => RowsInv
<1> SUFFICES ASSUME Init PROVE RowsInv
  OBVIOUS
<1>1. DOMAIN <<>> = {}
  OBVIOUS
<1>2. HeldOK
  BY <1>1, RowsAssumption DEF Init, HeldOK, Times
<1>3. RecentKeys(telemetry, sources, snapshot.at) = {}
  BY <1>1 DEF Init, RecentKeys, Recent
<1>4. DOMAIN snapshot.sessions = {}
  BY <1>1 DEF Init
<1> QED
  BY <1>2, <1>3, <1>4 DEF RowsInv, Listing

(* Whoever composes the list anew makes one that says what it should. *)
LEMMA ComposeKeepsInv ==
    ASSUME now \in Times, now' = now,
           (rows = <<>> \/ rows \in ProcessRows)',
           (DOMAIN telemetry \subseteq Keys)',
           (\A k \in DOMAIN telemetry : telemetry[k] \in TelemetrySession)',
           (DOMAIN sources \subseteq Keys)',
           (\A k \in DOMAIN sources : sources[k] \in UsageSource)',
           (ticks \in 0 .. MaxTicks)', (reports \in 0 .. MaxReports)',
           (writes \in 0 .. MaxWrites)',
           Compose
    PROVE  RowsInv'
<1>1. PICK list \in Compositions(rows', telemetry', sources', now) :
         snapshot' = [at |-> now, sessions |-> list]
  BY DEF Compose
<1>2. snapshot'.at = now /\ snapshot'.sessions = list
  BY <1>1
<1>3. Composable(rows', telemetry', sources', now)
  BY HeldIsComposable
<1>4. Listing(list, rows', telemetry', sources', now)
  BY <1>3, CompositionListing
<1>5. HeldOK'
  BY <1>2 DEF HeldOK
<1>6. Listing(snapshot.sessions, rows, telemetry, sources, snapshot.at)'
  BY <1>2, <1>4
<1> QED
  BY <1>5, <1>6 DEF RowsInv

(* So does every step. *)
LEMMA NextRowsInv == ASSUME RowsInv, [Next]_vars PROVE RowsInv'
<1>1. HeldOK /\ Listing(snapshot.sessions, rows, telemetry, sources, snapshot.at)
  BY DEF RowsInv
<1>2. {MaxTime, MaxTicks, MaxReports, MaxWrites} \subseteq Nat
  BY RowsAssumption
<1>3. CASE UNCHANGED vars
  BY <1>1, <1>3 DEF vars, RowsInv, HeldOK, TelemetrySession, UsageSource, Times
<1>4. CASE Pass
  <2>1. now' \in Times
    BY <1>1, <1>2, <1>4 DEF Pass, HeldOK, Times
  <2>2. UNCHANGED <<rows, telemetry, sources, snapshot, ticks, reports, writes>>
    BY <1>4 DEF Pass
  <2>3. HeldOK'
    BY <1>1, <2>1, <2>2 DEF HeldOK
  <2> QED
    BY <1>1, <2>2, <2>3 DEF RowsInv
<1>5. CASE Tick
  <2>1. ticks' \in 0 .. MaxTicks
    BY <1>1, <1>2, <1>5 DEF Tick, HeldOK
  <2>2. /\ rows' \in ProcessRows /\ Compose
        /\ UNCHANGED <<now, telemetry, sources, reports, writes>>
    BY <1>5 DEF Tick
  <2> QED
    BY <1>1, <2>1, <2>2, ComposeKeepsInv DEF HeldOK
<1>6. ASSUME NEW k \in Keys, IngestTelemetry(k) PROVE RowsInv'
  <2> DEFINE old == IF k \in DOMAIN telemetry THEN telemetry[k] ELSE NewSession
  <2>1. PICK event \in TelemetryEvent : telemetry' = With(telemetry, k, Ingested(old, event))
    BY <1>6 DEF IngestTelemetry
  <2>2. /\ Compose /\ UNCHANGED <<now, rows, sources, ticks, writes>>
        /\ reports < MaxReports /\ reports' = reports + 1
    BY <1>6 DEF IngestTelemetry
  <2>3. /\ now \in Times /\ reports' \in 0 .. MaxReports
        /\ DOMAIN telemetry \subseteq Keys
        /\ \A l \in DOMAIN telemetry : telemetry[l] \in TelemetrySession
    BY <1>1, <1>2, <2>2 DEF HeldOK
  <2>4. 0 \in Times
    BY <1>2 DEF Times
  <2>5. old \in TelemetrySession
    <3>1. NewSession \in TelemetrySession
      BY <2>3, <2>4 DEF NewSession, TelemetrySession
    <3> QED
      BY <2>3, <3>1
  <2> HIDE DEF old
  <2>6. /\ event.cwd \in Dirs \cup {0} /\ event.launch \in Launches \cup {NoLaunch}
        /\ event.process.pid # 0 =>
              event.process.pid \in Pids /\ event.process.start \in Times
    BY RowsAssumption DEF TelemetryEvent, Identity
  <2>7. Ingested(old, event) \in TelemetrySession
    <3> DEFINE cwd == IF event.cwd # 0 THEN event.cwd ELSE old.cwd
               launch == IF event.launch # NoLaunch THEN event.launch ELSE old.launch
               pid == IF event.process.pid # 0 THEN event.process.pid ELSE old.pid
               created == IF event.process.pid # 0 THEN event.process.start
                          ELSE old.created
    <3>1. /\ old.cwd \in Dirs \cup {0} /\ old.launch \in Launches \cup {NoLaunch}
          /\ old.pid \in Pids \cup {0} /\ old.created \in Times
      BY <2>5 DEF TelemetrySession
    <3>2. /\ cwd \in Dirs \cup {0} /\ launch \in Launches \cup {NoLaunch}
          /\ pid \in Pids \cup {0} /\ created \in Times
      BY <2>6, <3>1
    <3>3. Ingested(old, event) = [old EXCEPT !.cwd = cwd, !.launch = launch, !.pid = pid,
                                             !.created = created, !.updatedAt = now]
      BY DEF Ingested
    <3>4. now \in Times
      BY <2>3
    <3> HIDE DEF cwd, launch, pid, created
    <3>5. [old EXCEPT !.cwd = cwd, !.launch = launch, !.pid = pid,
                      !.created = created, !.updatedAt = now] \in TelemetrySession
      BY <2>5, <3>2, <3>4 DEF TelemetrySession
    <3> QED
      BY <3>3, <3>5
  <2>8. /\ DOMAIN telemetry' \subseteq Keys
        /\ \A l \in DOMAIN telemetry' : telemetry'[l] \in TelemetrySession
    BY <2>1, <2>3, <2>7, WithHolds
  <2> QED
    BY <1>1, <2>2, <2>3, <2>8, ComposeKeepsInv DEF HeldOK, TelemetrySession, Times
<1>7. ASSUME NEW k \in Keys, refreshUsage(k) PROVE RowsInv'
  <2> DEFINE since == IF k \in DOMAIN sources THEN sources[k].startedAt ELSE now
  <2>1. PICK dir \in Dirs :
           sources' = With(sources, k, [cwd |-> dir, startedAt |-> since, updatedAt |-> now])
    BY <1>7 DEF refreshUsage
  <2>2. /\ Compose /\ UNCHANGED <<now, rows, telemetry, ticks, reports>>
        /\ writes < MaxWrites /\ writes' = writes + 1
    BY <1>7 DEF refreshUsage
  <2>3. /\ now \in Times /\ writes' \in 0 .. MaxWrites
        /\ DOMAIN sources \subseteq Keys
        /\ \A l \in DOMAIN sources : sources[l] \in UsageSource
    BY <1>1, <1>2, <2>2 DEF HeldOK
  <2>4. since \in Times
    BY <2>3 DEF UsageSource
  <2> HIDE DEF since
  <2>5. [cwd |-> dir, startedAt |-> since, updatedAt |-> now] \in UsageSource
    BY <2>3, <2>4 DEF UsageSource
  <2>6. /\ DOMAIN sources' \subseteq Keys
        /\ \A l \in DOMAIN sources' : sources'[l] \in UsageSource
    BY <2>1, <2>3, <2>5, WithHolds
  <2> QED
    BY <1>1, <2>2, <2>3, <2>6, ComposeKeepsInv DEF HeldOK, UsageSource, Times
<1> QED
  BY <1>3, <1>4, <1>5, <1>6, <1>7 DEF Next

(* It holds in every state. *)
LEMMA RowsInvariant == Spec => []RowsInv
<1>1. RowsInv /\ [Next]_vars => RowsInv'
  BY NextRowsInv
<1> QED
  BY <1>1, InitRowsInv, PTL DEF Spec

-----------------------------------------------------------------------------
(* The theorems about the list *)

(* Every variable of Rows holds a value of its kind. *)
THEOREM RowsTypeCorrect == Spec => []TypeOK
<1>1. RowsInv => TypeOK
  BY DEF RowsInv, HeldOK, Listing, Line, Usage, TypeOK
<1> QED
  BY <1>1, RowsInvariant, PTL

(* No two lines have the same id and agent, whatever the order of the maps *)
(* and whatever rows hooks left without an agent.                          *)
THEOREM NoIdIsListedTwice == Spec => []NoSessionListedTwice
<1>1. RowsInv => NoSessionListedTwice
  BY DEF RowsInv, Listing, NoSessionListedTwice, AgentOfLine, AgentIn
<1> QED
  BY <1>1, RowsInvariant, PTL

(* A row that is marked probable was guessed for the one session that fits *)
(* nothing else, of those of which that can be said.                       *)
THEOREM GuessedRowsAreUnique == Spec => []ProbableRowsAreUnique
<1>1. ASSUME RowsInv, NEW n \in DOMAIN snapshot.sessions,
             snapshot.sessions[n].attribution = "probable",
             snapshot.sessions[n].id \in Keys
      PROVE  {k \in Known : Fitting(k) = {snapshot.sessions[n].of}}
                = {snapshot.sessions[n].id}
  <2> DEFINE probable == buildProbableProcessMatches(rows, telemetry, sources, snapshot.at)
             id == snapshot.sessions[n].id
             of == snapshot.sessions[n].of
  <2>1. id \in DOMAIN probable /\ probable[id] = of
    BY <1>1 DEF RowsInv, Listing
  <2>2. Composable(rows, telemetry, sources, snapshot.at)
    BY <1>1, HeldIsComposable DEF RowsInv, HeldOK
  <2>3. \A k : Fitting(k) = FittingOf(rows, telemetry, sources, snapshot.at, k)
    BY DEF Fitting, FittingOf, Hint
  <2>4. id \in Known /\ Fitting(id) = {of} /\ \A k \in Known \ {id} : Fitting(k) # {of}
    BY <2>1, <2>2, <2>3, GuessesAreUnique DEF Known
  <2> QED
    BY <2>4
<1>2. RowsInv => ProbableRowsAreUnique
  BY <1>1 DEF ProbableRowsAreUnique
<1> QED
  BY <1>2, RowsInvariant, PTL

(* A session with whom no other competes is listed once for its agent, on  *)
(* the row that is said to be its own if there is one, with its transcript's tokens if  *)
(* it has one; it is left out only where it has no row, and Limit others   *)
(* without one are listed.                                                 *)
THEOREM SessionsAreShown == Spec => []UncontestedSessionsAreShown
<1>1. ASSUME RowsInv, NEW k \in Known, Uncontested(k)
      PROVE  LET lines == LinesOf(k)
                 of == IF SaidToBe(k) = {} THEN NoRow ELSE CHOOSE i \in SaidToBe(k) : TRUE
                 usage == IF k \in Recent(sources, snapshot.at) THEN TranscriptOf(k)
                          ELSE TelemetryOf(k)
             IN  \/ /\ Cardinality(lines) = 1
                    /\ \A n \in lines : /\ snapshot.sessions[n].of = of
                                        /\ snapshot.sessions[n].usage = usage
                 \/ /\ of = NoRow /\ lines = {}
                    /\ Len(snapshot.sessions) = Limit + Cardinality(DOMAIN rows)
  <2> DEFINE at == snapshot.at
             list == snapshot.sessions
             named == Named(rows, telemetry, sources, at, k)
             lines == {n \in DOMAIN list : /\ list[n].id = k
                                            /\ AgentIn(rows, list[n]) = AgentOf[k]}
             of == IF SaidToBe(k) = {} THEN NoRow ELSE CHOOSE i \in SaidToBe(k) : TRUE
             usage == IF k \in Recent(sources, at) THEN TranscriptOf(k) ELSE TelemetryOf(k)
  <2>1. Composable(rows, telemetry, sources, at)
    BY <1>1, HeldIsComposable DEF RowsInv, HeldOK
  <2>2. \A l : SaidToBe(l) = Named(rows, telemetry, sources, at, l)
    BY DEF SaidToBe, Named, Hint
  <2>3. Alone(rows, telemetry, sources, at, k)
    BY <1>1, <2>2 DEF Uncontested, Alone, Known
  <2>4. \/ \E n \in DOMAIN list :
              /\ list[n].id = k /\ AgentIn(rows, list[n]) = AgentOf[k]
              /\ list[n].usage = usage
              /\ IF named = {} THEN list[n].of = NoRow ELSE list[n].of \in named
        \/ /\ named = {}
           /\ \A n \in DOMAIN list :
                 ~ (list[n].id = k /\ AgentIn(rows, list[n]) = AgentOf[k])
           /\ Len(list) = Limit + Cardinality(DOMAIN rows)
    BY <1>1, <2>3 DEF RowsInv, Listing, Known
  <2>5. \A m, n \in DOMAIN list :
           /\ list[m].id = list[n].id /\ AgentIn(rows, list[m]) = AgentIn(rows, list[n])
           => m = n
    BY <1>1 DEF RowsInv, Listing
  <2>6. \A i \in named : i = of
    <3>1. IsFiniteSet(named) /\ Cardinality(named) <= 1 /\ named = SaidToBe(k)
      BY <2>1, <2>2, <2>3, SaidOfASession DEF Alone
    <3> HIDE DEF named
    <3>2. named = {} \/ \E i : named = {i}
      BY <3>1, NoMoreThanOne
    <3> QED
      BY <3>1, <3>2
  <2>7. /\ named = {} => of = NoRow
        /\ lines = LinesOf(k)
    BY <2>2 DEF LinesOf, AgentOfLine, AgentIn
  <2> HIDE DEF named, of, usage, at, list
  <2>8. CASE \E n \in DOMAIN list :
                /\ list[n].id = k /\ AgentIn(rows, list[n]) = AgentOf[k]
                /\ list[n].usage = usage
                /\ IF named = {} THEN list[n].of = NoRow ELSE list[n].of \in named
    <3>1. PICK n \in DOMAIN list :
             /\ list[n].id = k /\ AgentIn(rows, list[n]) = AgentOf[k]
             /\ list[n].usage = usage
             /\ IF named = {} THEN list[n].of = NoRow ELSE list[n].of \in named
      BY <2>8
    <3>2. lines = {n}
      BY <2>5, <3>1
    <3>3. Cardinality(lines) = 1
      BY <3>2, FS_Singleton
    <3>4. list[n].of = of
      BY <2>6, <2>7, <3>1
    <3> QED
      BY <2>7, <3>1, <3>2, <3>3, <3>4 DEF of, usage, at, list
  <2>9. CASE /\ named = {}
             /\ \A n \in DOMAIN list :
                   ~ (list[n].id = k /\ AgentIn(rows, list[n]) = AgentOf[k])
             /\ Len(list) = Limit + Cardinality(DOMAIN rows)
    BY <2>7, <2>9 DEF of, usage, at, list
  <2> QED
    BY <2>4, <2>8, <2>9
<1>2. RowsInv => UncontestedSessionsAreShown
  BY <1>1 DEF UncontestedSessionsAreShown
<1> QED
  BY <1>2, RowsInvariant, PTL

-----------------------------------------------------------------------------
(* The loop of `biewer tui` *)

Chars == {"ESC", "[", "A", "5", "~", "O", "P", "1", "q", "j", "G", "r", "closed"}
Item == [byte : Chars, key : KeyNames]

(* No byte of an arrow ends the program, and an arrow's ESC has two after  *)
(* it.                                                                     *)
WholeKeys(items) ==
    \A n \in 1 .. Len(items) : items[n].key \in ArrowKeys =>
        /\ items[n].byte \notin {"q", "closed"}
        /\ items[n].byte = "ESC" => n + 2 <= Len(items) /\ items[n + 1].byte = "["

Items(bytes, key) == [n \in DOMAIN bytes |-> [byte |-> bytes[n], key |-> key]]

(* Bytes become items one by one. *)
LEMMA ItemsOfBytes ==
    ASSUME NEW bytes \in Seq(Chars), NEW key \in KeyNames
    PROVE  /\ Items(bytes, key) \in Seq(Item)
           /\ Len(Items(bytes, key)) = Len(bytes)
           /\ \A n \in 1 .. Len(bytes) : /\ Items(bytes, key)[n].byte = bytes[n]
                                        /\ Items(bytes, key)[n].key = key
<1>1. DOMAIN bytes = 1 .. Len(bytes) /\ Len(bytes) \in Nat
  OBVIOUS
<1>2. \A n \in 1 .. Len(bytes) : bytes[n] \in Chars
  OBVIOUS
<1>3. \A n \in 1 .. Len(bytes) : [byte |-> bytes[n], key |-> key] \in Item
  BY <1>2 DEF Item
<1>4. Items(bytes, key) \in [1 .. Len(bytes) -> Item]
  BY <1>1, <1>3 DEF Items
<1>5. Items(bytes, key) \in Seq(Item) /\ Len(Items(bytes, key)) = Len(bytes)
  BY <1>1, <1>4
<1> QED
  BY <1>1, <1>5 DEF Items

(* Tuples as sequences. *)
LEMMA Tuples ==
    \A S : \A a, b, c, d \in S :
        /\ <<a>> \in Seq(S) /\ Len(<<a>>) = 1 /\ <<a>>[1] = a
        /\ <<a, b, c>> \in Seq(S) /\ Len(<<a, b, c>>) = 3
        /\ <<a, b, c>>[1] = a /\ <<a, b, c>>[2] = b /\ <<a, b, c>>[3] = c
        /\ <<a, b, c, d>> \in Seq(S) /\ Len(<<a, b, c, d>>) = 4
        /\ <<a, b, c, d>>[1] = a /\ <<a, b, c, d>>[2] = b
        /\ <<a, b, c, d>>[3] = c /\ <<a, b, c, d>>[4] = d
OBVIOUS

BytesInOrder(bytes, key) ==
    \A n \in 1 .. Len(bytes) : key \in ArrowKeys =>
        /\ bytes[n] \notin {"q", "closed"}
        /\ bytes[n] = "ESC" => n + 2 <= Len(bytes) /\ bytes[n + 1] = "["

(* The bytes of a key are in order. *)
LEMMA KeyBytes ==
    ASSUME NEW key \in KeyNames
    PROVE  Bytes[key] \in Seq(Chars) /\ BytesInOrder(Bytes[key], key)
<1>1. /\ KeyNames = {"Escape", "q", "Up", "PageUp", "F1", "ShiftF2", "j", "G", "r", "HangUp"}
      /\ Bytes["Escape"] = <<"ESC">> /\ Bytes["q"] = <<"q">>
      /\ Bytes["Up"] = <<"ESC", "[", "A">>
      /\ Bytes["PageUp"] = <<"ESC", "[", "5", "~">>
      /\ Bytes["F1"] = <<"ESC", "O", "P">>
      /\ Bytes["ShiftF2"] = <<"ESC", "[", "1", "q">>
      /\ Bytes["j"] = <<"j">> /\ Bytes["G"] = <<"G">>
      /\ Bytes["r"] = <<"r">> /\ Bytes["HangUp"] = <<"closed">>
  BY DEF KeyNames, Bytes
<1>2. /\ "ESC" \in Chars /\ "q" \in Chars /\ "[" \in Chars /\ "A" \in Chars
      /\ "5" \in Chars /\ "~" \in Chars /\ "j" \in Chars /\ "G" \in Chars
      /\ "r" \in Chars /\ "closed" \in Chars
      /\ "O" \in Chars /\ "P" \in Chars /\ "1" \in Chars
  BY DEF Chars
<1>3. ASSUME NEW b \in Chars, NEW bytes, bytes = <<b>> PROVE bytes \in Seq(Chars)
  BY <1>3, Tuples, Zenon
<1>4. ASSUME NEW b \in Chars, NEW c \in Chars, NEW d \in Chars,
             NEW bytes, bytes = <<b, c, d>>
      PROVE  /\ bytes \in Seq(Chars) /\ Len(bytes) = 3
             /\ bytes[1] = b /\ bytes[2] = c /\ bytes[3] = d
  BY <1>4, Tuples, Zenon
<1>5. ASSUME NEW b \in Chars, NEW c \in Chars, NEW d \in Chars, NEW e \in Chars,
             NEW bytes, bytes = <<b, c, d, e>>
      PROVE  /\ bytes \in Seq(Chars) /\ Len(bytes) = 4
             /\ bytes[1] = b /\ bytes[2] = c /\ bytes[3] = d /\ bytes[4] = e
  BY <1>5, Tuples, Zenon
<1>6. /\ \A n \in 1 .. 3 : n = 1 \/ n = 2 \/ n = 3
      /\ \A n \in 1 .. 4 : n = 1 \/ n = 2 \/ n = 3 \/ n = 4
      /\ 1 + 2 <= 3 /\ 1 + 2 <= 4 /\ 1 + 1 = 2
  OBVIOUS
<1>7. CASE key = "Up"
  <2> DEFINE bytes == Bytes[key]
  <2>1. bytes = <<"ESC", "[", "A">>
    BY <1>1, <1>7
  <2> HIDE DEF bytes
  <2>2. /\ bytes \in Seq(Chars) /\ Len(bytes) = 3
        /\ bytes[1] = "ESC" /\ bytes[2] = "[" /\ bytes[3] = "A"
    BY <1>2, <1>4, <2>1
  <2>3. BytesInOrder(bytes, key)
    BY <1>6, <2>2 DEF BytesInOrder
  <2> QED
    BY <2>2, <2>3 DEF bytes
<1>8. CASE key = "PageUp"
  <2> DEFINE bytes == Bytes[key]
  <2>1. bytes = <<"ESC", "[", "5", "~">>
    BY <1>1, <1>8
  <2> HIDE DEF bytes
  <2>2. /\ bytes \in Seq(Chars) /\ Len(bytes) = 4
        /\ bytes[1] = "ESC" /\ bytes[2] = "[" /\ bytes[3] = "5" /\ bytes[4] = "~"
    BY <1>2, <1>5, <2>1
  <2>3. BytesInOrder(bytes, key)
    BY <1>6, <2>2 DEF BytesInOrder
  <2> QED
    BY <2>2, <2>3 DEF bytes
<1>9. CASE key \notin ArrowKeys
  <2> DEFINE bytes == Bytes[key]
  <2>1. BytesInOrder(bytes, key)
    BY <1>9 DEF BytesInOrder
  <2>2. \/ bytes = <<"ESC">> \/ bytes = <<"q">> \/ bytes = <<"j">> \/ bytes = <<"G">>
        \/ bytes = <<"r">> \/ bytes = <<"closed">>
        \/ bytes = <<"ESC", "O", "P">> \/ bytes = <<"ESC", "[", "1", "q">>
    BY <1>1, <1>9 DEF ArrowKeys
  <2> HIDE DEF bytes
  <2>3. bytes = <<"ESC", "O", "P">> => bytes \in Seq(Chars)
    BY <1>2, <1>4
  <2>4. bytes = <<"ESC", "[", "1", "q">> => bytes \in Seq(Chars)
    BY <1>2, <1>5
  <2>5. bytes \in Seq(Chars)
    BY <1>2, <1>3, <2>2, <2>3, <2>4
  <2> QED
    BY <2>1, <2>5 DEF bytes
<1> QED
  BY <1>7, <1>8, <1>9 DEF ArrowKeys

(* Keys follow one another. *)
LEMMA KeysStayWhole ==
    ASSUME NEW items \in Seq(Item), WholeKeys(items), NEW more \in Seq(Item), WholeKeys(more)
    PROVE  /\ items \o more \in Seq(Item) /\ WholeKeys(items \o more)
           /\ Len(items \o more) >= Len(items)
           /\ Len(items) >= 1 => (items \o more)[1] = items[1]
<1> DEFINE all == items \o more
<1>1. /\ all \in Seq(Item) /\ Len(all) = Len(items) + Len(more)
      /\ Len(items) \in Nat /\ Len(more) \in Nat
      /\ \A n \in 1 .. Len(items) : all[n] = items[n]
      /\ \A n \in 1 .. Len(more) : all[Len(items) + n] = more[n]
  OBVIOUS
<1> HIDE DEF all
<1>2. ASSUME NEW n \in 1 .. Len(all)
      PROVE  all[n].key \in ArrowKeys =>
                /\ all[n].byte \notin {"q", "closed"}
                /\ all[n].byte = "ESC" => n + 2 <= Len(all) /\ all[n + 1].byte = "["
  <2>1. CASE n \in 1 .. Len(items)
    <3>1. all[n] = items[n]
      BY <1>1, <2>1
    <3>2. n + 2 <= Len(items) => n + 2 <= Len(all) /\ all[n + 1] = items[n + 1]
      BY <1>1, <2>1
    <3> QED
      BY <2>1, <3>1, <3>2 DEF WholeKeys
  <2>2. CASE n \notin 1 .. Len(items)
    <3> DEFINE m == n - Len(items)
    <3>1. m \in 1 .. Len(more) /\ n = Len(items) + m
      BY <1>1, <2>2
    <3> HIDE DEF m
    <3>2. all[n] = more[m]
      BY <1>1, <3>1
    <3>3. m + 2 <= Len(more) => n + 2 <= Len(all) /\ all[n + 1] = more[m + 1]
      <4> SUFFICES ASSUME m + 2 <= Len(more)
                   PROVE  n + 2 <= Len(all) /\ all[n + 1] = more[m + 1]
        OBVIOUS
      <4>1. m + 1 \in 1 .. Len(more) /\ n + 1 = Len(items) + (m + 1)
        BY <1>1, <3>1
      <4> QED
        BY <1>1, <3>1, <4>1
    <3> QED
      BY <3>1, <3>2, <3>3 DEF WholeKeys
  <2> QED
    BY <2>1, <2>2
<1>3. WholeKeys(all)
  BY <1>2 DEF WholeKeys
<1> QED
  BY <1>1, <1>3 DEF all

(* What is left of them when a byte is read. *)
LEMMA TailIsWhole ==
    ASSUME NEW items \in Seq(Item), WholeKeys(items), items # <<>>
    PROVE  /\ Tail(items) \in Seq(Item) /\ WholeKeys(Tail(items))
           /\ Len(Tail(items)) = Len(items) - 1 /\ Len(items) >= 1
           /\ Len(items) >= 2 => Tail(items)[1] = items[2]
           /\ Head(items) = items[1]
           /\ Tail(items) # items
<1> DEFINE rest == Tail(items)
<1>1. /\ rest \in Seq(Item) /\ Len(rest) = Len(items) - 1
      /\ Len(items) \in Nat /\ Len(items) >= 1
      /\ \A n \in 1 .. Len(rest) : rest[n] = items[n + 1]
      /\ Head(items) = items[1]
  BY EmptySeq
<1> HIDE DEF rest
<1>2. ASSUME NEW n \in 1 .. Len(rest)
      PROVE  rest[n].key \in ArrowKeys =>
                /\ rest[n].byte \notin {"q", "closed"}
                /\ rest[n].byte = "ESC" => n + 2 <= Len(rest) /\ rest[n + 1].byte = "["
  <2> DEFINE m == n + 1
  <2>1. m \in 1 .. Len(items) /\ rest[n] = items[m]
    BY <1>1
  <2>2. m + 2 <= Len(items) => n + 2 <= Len(rest) /\ rest[n + 1] = items[m + 1]
    BY <1>1
  <2> HIDE DEF m
  <2> QED
    BY <2>1, <2>2 DEF WholeKeys
<1>3. WholeKeys(rest)
  BY <1>2 DEF WholeKeys
<1>4. Len(items) >= 2 => rest[1] = items[2]
  <2>1. Len(items) >= 2 => 1 \in 1 .. Len(rest) /\ 1 + 1 = 2
    BY <1>1
  <2> QED
    BY <1>1, <2>1
<1>5. rest # items
  BY <1>1
<1> QED
  BY <1>1, <1>3, <1>4, <1>5 DEF rest

TuiTypes ==
    /\ daemon \in [up : BOOLEAN, list : Dashboards]
    /\ typed \in Seq(Item)
    /\ escape \in [key : KeyNames \cup {"none"}, slow : BOOLEAN]

(* An arrow whose ESC was read has its other bytes to come, and they are   *)
(* there: its timeout ends only behind a fetch or a render.                *)
OfArrow == escape.key \in ArrowKeys
ArrowsInv ==
    /\ WholeKeys(typed)
    /\ escapeState \in 0 .. 2
    /\ deadline # "none" => escapeState \in {1, 2}
    /\ OfArrow /\ escapeState = 1 /\ loop # "done"
          => Len(typed) >= 2 /\ typed[1].byte = "["
    /\ OfArrow /\ escapeState = 2 /\ loop # "done" => Len(typed) >= 1
    /\ loop \in {"select", "fetch", "render", "done"}
    /\ loop \in {"fetch", "render"} /\ escapeState # 0 => escape.slow
    /\ OfArrow /\ deadline = "expired" => escape.slow
    /\ ended # "none" => loop = "done"
    /\ ended \in ArrowKeys => escape.slow

TuiInv == TuiTypes /\ ArrowsInv

(* At first nothing is typed. *)
LEMMA InitTuiInv == TUIInit => TuiInv
<1> SUFFICES ASSUME TUIInit PROVE TuiInv
  OBVIOUS
<1>1. /\ daemon \in [up : BOOLEAN, list : Dashboards]
      /\ typed = <<>> /\ loop = "select" /\ escapeState = 0 /\ deadline = "none"
      /\ escape = [key |-> "none", slow |-> FALSE] /\ ended = "none"
  BY DEF TUIInit
<1>2. <<>> \in Seq(Item) /\ Len(<<>>) = 0
  OBVIOUS
<1>3. WholeKeys(typed)
  BY <1>1, <1>2 DEF WholeKeys
<1>4. "none" \notin ArrowKeys
  BY DEF ArrowKeys
<1>5. TuiTypes
  BY <1>1, <1>2 DEF TuiTypes
<1>6. ArrowsInv
  BY <1>1, <1>3, <1>4 DEF ArrowsInv
<1> QED
  BY <1>5, <1>6 DEF TuiInv

(* What the daemon, the terminal, the system and the clock do. *)
LEMMA OutsideKeepsInv ==
    ASSUME TuiInv,
           \/ DaemonChanges \/ \E key \in KeyNames : Press(key)
           \/ \E sig \in {"SIGTERM", "SIGWINCH"} : Signal(sig)
           \/ PassDeadline
    PROVE  TuiInv'
<1> USE DEF TuiInv
<1>1. ASSUME UNCHANGED <<typed, loop, escapeState, deadline, escape, ended>>
      PROVE  ArrowsInv'
  BY <1>1 DEF ArrowsInv, OfArrow, WholeKeys
<1>2. CASE DaemonChanges
  <2>1. /\ daemon' \in [up : BOOLEAN, list : Dashboards]
        /\ UNCHANGED <<typed, loop, escapeState, deadline, escape, ended>>
    BY <1>2 DEF DaemonChanges, keys
  <2> QED
    BY <1>1, <2>1 DEF TuiTypes
<1>3. ASSUME NEW key \in KeyNames, Press(key) PROVE TuiInv'
  <2>1. /\ typed' = typed \o Items(Bytes[key], key)
        /\ UNCHANGED <<daemon, loop, escapeState, deadline, escape, ended>>
    BY <1>3 DEF Press, keys, Items
  <2> DEFINE more == Items(Bytes[key], key)
  <2>2. more \in Seq(Item) /\ WholeKeys(more)
    <3> DEFINE bytes == Bytes[key]
    <3>1. bytes \in Seq(Chars) /\ BytesInOrder(bytes, key)
      BY KeyBytes
    <3> HIDE DEF bytes
    <3>2. /\ Items(bytes, key) \in Seq(Item)
          /\ Len(Items(bytes, key)) = Len(bytes)
          /\ \A n \in 1 .. Len(bytes) : /\ Items(bytes, key)[n].byte = bytes[n]
                                        /\ Items(bytes, key)[n].key = key
      BY <3>1, ItemsOfBytes
    <3>3. Len(bytes) \in Nat
      BY <3>1
    <3>4. WholeKeys(Items(bytes, key))
      BY <3>1, <3>2, <3>3 DEF WholeKeys, BytesInOrder
    <3> QED
      BY <3>2, <3>4 DEF bytes
  <2> HIDE DEF more
  <2>3. /\ typed \o more \in Seq(Item) /\ WholeKeys(typed \o more)
        /\ Len(typed \o more) >= Len(typed)
        /\ Len(typed) >= 1 => (typed \o more)[1] = typed[1]
    BY <2>2, KeysStayWhole DEF TuiTypes, ArrowsInv
  <2>4. typed' = typed \o more
    BY <2>1 DEF more
  <2>5. /\ typed' \in Seq(Item) /\ WholeKeys(typed') /\ Len(typed') >= Len(typed)
        /\ Len(typed) >= 1 => typed'[1] = typed[1]
        /\ Len(typed) \in Nat /\ Len(typed') \in Nat
    BY <2>3, <2>4 DEF TuiTypes
  <2>6. TuiTypes'
    BY <2>1, <2>5 DEF TuiTypes
  <2>7. WholeKeys(typed)'
    BY <2>5 DEF WholeKeys
  <2>8. ArrowsInv'
    BY <2>1, <2>5, <2>7 DEF ArrowsInv, OfArrow
  <2> QED
    BY <2>6, <2>8
<1>4. ASSUME NEW sig, Signal(sig) PROVE TuiInv'
  <2>1. UNCHANGED <<daemon, typed, loop, escapeState, deadline, escape, ended>>
    BY <1>4 DEF Signal, keys
  <2> QED
    BY <1>1, <2>1 DEF TuiTypes
<1>5. CASE PassDeadline
  <2>1. /\ deadline = "armed" /\ deadline' = "expired" /\ loop # "done"
        /\ loop # "select" \/ typed = <<>>
        /\ UNCHANGED <<daemon, typed, loop, escapeState, escape, ended>>
    BY <1>5 DEF PassDeadline, outside
  <2>2. OfArrow => loop \in {"fetch", "render"} /\ escapeState # 0
    <3>1. Len(<<>>) = 0
      OBVIOUS
    <3> QED
      BY <2>1, <3>1 DEF ArrowsInv
  <2>3. ArrowsInv'
    BY <2>1, <2>2 DEF ArrowsInv, OfArrow, WholeKeys
  <2> QED
    BY <2>1, <2>3 DEF TuiTypes
<1> QED
  BY <1>2, <1>3, <1>4, <1>5

(* What the loop does with the next byte. *)
LEMMA ReadByteKeepsInv ==
    ASSUME TuiInv, ReadByte
    PROVE  TuiInv' /\ typed' # typed
<1> USE DEF TuiInv
<1>1. /\ loop = "select" /\ typed # <<>> /\ typed' = Tail(typed) /\ UNCHANGED daemon
      /\ typed \in Seq(Item) /\ WholeKeys(typed)
  BY DEF ReadByte, TuiTypes, ArrowsInv
<1> DEFINE byte == typed[1].byte
           key == typed[1].key
<1>2. /\ typed' \in Seq(Item) /\ WholeKeys(typed') /\ typed' # typed
      /\ Len(typed') = Len(typed) - 1 /\ Len(typed) >= 1
      /\ Len(typed) >= 2 => typed'[1] = typed[2]
      /\ Head(typed) = typed[1] /\ Len(typed) \in Nat
  BY <1>1, TailIsWhole
<1>3. /\ key \in KeyNames
      /\ key \in ArrowKeys =>
            /\ byte # "q"
            /\ byte = "ESC" => Len(typed) >= 3 /\ typed[2].byte = "["
  <2>1. 1 \in 1 .. Len(typed) /\ 1 + 2 = 3 /\ 1 + 1 = 2
    BY <1>2
  <2>2. typed[1] \in Item
    BY <1>1, <2>1
  <2> QED
    BY <1>1, <1>2, <2>1, <2>2 DEF WholeKeys, Item
<1>4. \/ End("HangUp") /\ UNCHANGED <<escapeState, deadline, escape>>
      \/ ReadAfterEscape(byte) \/ ReadArrow(byte) \/ ReadKey(byte, key)
  BY <1>2 DEF ReadByte, keys
<1>5. "none" \notin ArrowKeys /\ "HangUp" \notin ArrowKeys
  BY DEF ArrowKeys
<1> HIDE DEF byte, key
<1>6. WholeKeys(typed)'
  BY <1>2 DEF WholeKeys
<1>7. ASSUME UNCHANGED escape PROVE TuiTypes'
  BY <1>1, <1>2, <1>7 DEF TuiTypes
<1>12. ASSUME NEW what, Start(what), escapeState' = 0 PROVE UNCHANGED escape
  <2>1. escape' = [escape EXCEPT !.slow = escape.slow]
    <3>1. escape' = [escape EXCEPT !.slow = escape.slow \/ escapeState' # 0]
      BY <1>12 DEF Start
    <3>2. (escape.slow \/ escapeState' # 0) = escape.slow
      <4>1. escape.slow \in BOOLEAN
        BY DEF TuiTypes
      <4>2. ~ (escapeState' # 0)
        BY <1>12
      <4> QED
        BY <4>1, <4>2, Zenon
    <3> QED
      BY <3>1, <3>2, Zenon
  <2> QED
    BY <2>1 DEF TuiTypes
<1>8. CASE End("HangUp") /\ UNCHANGED <<escapeState, deadline, escape>>
  <2>1. ArrowsInv'
    BY <1>5, <1>6, <1>8 DEF End, ArrowsInv, OfArrow
  <2> QED
    BY <1>2, <1>7, <1>8, <2>1
<1>9. CASE ReadAfterEscape(byte)
  <2>1. escapeState = 1 /\ UNCHANGED escape
    BY <1>9 DEF ReadAfterEscape
  <2>2. OfArrow => Len(typed) >= 2 /\ byte = "["
    BY <1>1, <2>1 DEF ArrowsInv, byte
  <2>3. CASE byte = "["
    <3>1. escapeState' = 2 /\ deadline' = "armed" /\ UNCHANGED <<loop, ended>>
      BY <1>9, <2>3 DEF ReadAfterEscape
    <3>2. OfArrow => Len(typed') >= 1
      BY <1>2, <2>2
    <3>3. ArrowsInv'
      BY <1>6, <2>1, <3>1, <3>2 DEF ArrowsInv, OfArrow
    <3> QED
      BY <1>2, <1>7, <2>1, <3>3
  <2>4. CASE byte # "["
    <3>1. loop' = "done" /\ ended' = escape.key /\ UNCHANGED <<escapeState, deadline>>
      BY <1>9, <2>4 DEF ReadAfterEscape, End
    <3>2. ArrowsInv'
      BY <1>6, <2>1, <2>2, <2>4, <3>1 DEF ArrowsInv, OfArrow
    <3> QED
      BY <1>2, <1>7, <2>1, <3>2
  <2> QED
    BY <2>3, <2>4
<1>10. CASE ReadArrow(byte)
  <2>1. /\ escapeState' = 0 /\ deadline' = "none" /\ Start("render") /\ UNCHANGED ended
    BY <1>10 DEF ReadArrow
  <2>2. loop' = "render" /\ UNCHANGED escape
    BY <1>12, <2>1 DEF Start
  <2>3. ArrowsInv'
    BY <1>1, <1>6, <2>1, <2>2 DEF ArrowsInv, OfArrow
  <2> QED
    BY <1>2, <1>7, <2>2, <2>3
<1>11. CASE ReadKey(byte, key)
  <2>1. escapeState = 0 /\ ended = "none" /\ deadline = "none"
    BY <1>1, <1>11 DEF ReadKey, ArrowsInv
  <2>2. CASE byte = "q" /\ End(key) /\ UNCHANGED <<escapeState, deadline, escape>>
    <3>1. ArrowsInv'
      BY <1>3, <1>5, <1>6, <2>1, <2>2 DEF End, ArrowsInv, OfArrow
    <3> QED
      BY <1>2, <1>7, <2>2, <3>1
  <2>3. CASE /\ byte = "ESC" /\ escapeState' = 1 /\ deadline' = "armed"
             /\ escape' = [key |-> key, slow |-> FALSE]
             /\ UNCHANGED <<loop, ended>>
    <3>1. TuiTypes'
      BY <1>1, <1>2, <1>3, <2>3 DEF TuiTypes
    <3>2. escape'.key = key /\ ~ escape'.slow
      BY <2>3
    <3>3. key \in ArrowKeys => Len(typed') >= 2 /\ typed'[1].byte = "["
      BY <1>2, <1>3, <2>3
    <3>4. ArrowsInv'
      BY <1>1, <1>5, <1>6, <2>1, <2>3, <3>2, <3>3 DEF ArrowsInv, OfArrow
    <3> QED
      BY <1>2, <3>1, <3>4
  <2>4. CASE UNCHANGED <<escapeState, deadline, escape, loop, ended>>
    <3>1. ArrowsInv'
      BY <1>1, <1>6, <2>1, <2>4 DEF ArrowsInv, OfArrow
    <3> QED
      BY <1>2, <1>7, <2>4, <3>1
  <2>5. ASSUME NEW what \in {"fetch", "render"}, Start(what),
               UNCHANGED <<escapeState, deadline, ended>>
        PROVE  TuiInv'
    <3>1. loop' = what /\ UNCHANGED escape
      BY <1>12, <2>1, <2>5 DEF Start
    <3>2. ArrowsInv'
      BY <1>6, <2>1, <2>5, <3>1 DEF ArrowsInv, OfArrow
    <3> QED
      BY <1>7, <3>1, <3>2
  <2>6. \/ byte = "q" /\ End(key) /\ UNCHANGED <<escapeState, deadline, escape>>
        \/ /\ byte = "ESC" /\ escapeState' = 1 /\ deadline' = "armed"
           /\ escape' = [key |-> key, slow |-> FALSE]
           /\ UNCHANGED <<loop, ended>>
        \/ UNCHANGED <<escapeState, deadline, escape, loop, ended>>
        \/ \E what \in {"fetch", "render"} :
              Start(what) /\ UNCHANGED <<escapeState, deadline, ended>>
    BY <1>11 DEF ReadKey, keys
  <2> QED
    BY <1>2, <2>2, <2>3, <2>4, <2>5, <2>6
<1> QED
  BY <1>4, <1>8, <1>9, <1>10, <1>11

(* Every step of the program keeps its keys in order. *)
LEMMA NextTuiInv == ASSUME TuiInv, [TUINext]_TUIVars PROVE TuiInv'
<1> USE DEF TuiInv
<1>1. ASSUME UNCHANGED <<daemon, typed, escapeState, deadline, escape>>,
             \/ UNCHANGED <<loop, ended>>
             \/ loop' = "render" /\ loop = "fetch" /\ UNCHANGED ended
             \/ loop' = "select" /\ loop = "render" /\ UNCHANGED ended
             \/ loop' = "done" /\ ended' = "SIGTERM"
             \/ loop' = "done" /\ ended' = escape.key /\ deadline = "expired"
      PROVE  TuiInv'
  <2>1. TuiTypes'
    BY <1>1 DEF TuiTypes
  <2>2. "SIGTERM" \notin ArrowKeys
    BY DEF ArrowKeys
  <2>3. ArrowsInv'
    BY <1>1, <2>2 DEF ArrowsInv, OfArrow, WholeKeys
  <2> QED
    BY <2>1, <2>3
<1>2. ASSUME NEW what \in {"fetch", "render"}, Start(what),
             loop = "select", UNCHANGED <<daemon, escapeState, deadline, ended>>,
             UNCHANGED typed
      PROVE  TuiInv'
  <2> DEFINE slow == escape.slow \/ escapeState # 0
  <2>1. slow \in BOOLEAN /\ (escape.slow => slow) /\ (escapeState # 0 => slow)
    OBVIOUS
  <2>2. (escapeState' # 0) = (escapeState # 0)
    BY <1>2
  <2>3. loop' = what /\ escape' = [escape EXCEPT !.slow = slow]
    BY <1>2, <2>2, Zenon DEF Start
  <2> HIDE DEF slow
  <2>4. /\ escape' \in [key : KeyNames \cup {"none"}, slow : BOOLEAN]
        /\ escape'.key = escape.key /\ escape'.slow = slow
    BY <2>1, <2>3 DEF TuiTypes
  <2>5. TuiTypes'
    BY <1>2, <2>4 DEF TuiTypes
  <2>6. ArrowsInv'
    BY <1>2, <2>1, <2>3, <2>4 DEF ArrowsInv, OfArrow, WholeKeys
  <2> QED
    BY <2>5, <2>6
<1>9. CASE TickerFires
  BY <1>2, <1>9 DEF TickerFires, outside
<1>3. CASE DeadlineFires
  BY <1>1, <1>3 DEF DeadlineFires, End, outside, keys
<1>4. CASE TakeSignal
  <2>1. /\ loop = "select" /\ UNCHANGED <<daemon, typed, escapeState, deadline>>
        /\ \/ loop' = "done" /\ ended' = "SIGTERM" /\ UNCHANGED escape
           \/ Start("render") /\ UNCHANGED ended
    BY <1>4 DEF TakeSignal, End
  <2>2. CASE Start("render") /\ UNCHANGED ended
    BY <1>2, <2>1, <2>2
  <2> QED
    BY <1>1, <2>1, <2>2
<1>5. CASE EndFetch
  BY <1>1, <1>5 DEF EndFetch, outside, keys
<1>10. CASE EndRender
  BY <1>1, <1>10 DEF EndRender, outside, keys
<1>6. CASE UNCHANGED TUIVars
  BY <1>1, <1>6 DEF TUIVars, outside, keys
<1>7. CASE \/ DaemonChanges \/ \E key \in KeyNames : Press(key)
           \/ \E sig \in {"SIGTERM", "SIGWINCH"} : Signal(sig)
           \/ PassDeadline
  BY <1>7, OutsideKeepsInv
<1>8. CASE ReadByte
  BY <1>8, ReadByteKeepsInv
<1> QED
  BY <1>3, <1>4, <1>5, <1>6, <1>7, <1>8, <1>9, <1>10 DEF TUINext, Loop

(* Where the selection goes in a list. *)
LEMMA Reselected ==
    ASSUME NEW list, NEW key, key = NoKey \/ list \in Dashboards, NEW row
    PROVE  LET to == reconcileTUISelection(list, key, row)
           IN  /\ list # <<>> => list[to.row + 1] = to.key
               /\ key # NoKey /\ Contains(list, key) => to.key = key
<1> DEFINE to == reconcileTUISelection(list, key, row)
<1>1. CASE list = <<>>
  BY <1>1 DEF Contains
<1>2. CASE list # <<>> /\ key # NoKey /\ Contains(list, key)
  <2>1. to = [row |-> RowOf(list, key), key |-> key]
    BY <1>2 DEF reconcileTUISelection
  <2> DEFINE n == CHOOSE m \in DOMAIN list : list[m] = key
  <2>2. n \in DOMAIN list /\ list[n] = key
    BY <1>2 DEF Contains
  <2>3. DOMAIN list \subseteq Int
    BY <1>2 DEF Dashboards
  <2>4. RowOf(list, key) = n - 1
    BY DEF RowOf
  <2> HIDE DEF n, to
  <2>5. (n - 1) + 1 = n
    BY <2>2, <2>3
  <2>6. to.row + 1 = n /\ to.key = key
    BY <2>1, <2>4, <2>5
  <2> QED
    BY <2>2, <2>6 DEF to
<1>3. CASE list # <<>> /\ ~ (key # NoKey /\ Contains(list, key))
  <2>1. to = [row |-> Clamp(row, list), key |-> list[Clamp(row, list) + 1]]
    BY <1>3 DEF reconcileTUISelection
  <2> HIDE DEF to
  <2>2. to.row + 1 = Clamp(row, list) + 1 /\ to.key = list[Clamp(row, list) + 1]
    BY <2>1
  <2> QED
    BY <1>3, <2>2 DEF to
<1> QED
  BY <1>1, <1>2, <1>3

-----------------------------------------------------------------------------
(* The theorems about `biewer tui` *)

(* Every reachable state has the keys in order. *)
LEMMA TuiInvariant == TUISpec => []TuiInv
<1>1. TuiInv /\ [TUINext]_TUIVars => TuiInv'
  BY NextTuiInv
<1> QED
  BY <1>1, InitTuiInv, PTL DEF TUISpec, TUINext, TUIVars

(* An arrow key, or another that sends ESC [ and no letter that ends the   *)
(* program, ends it only where the loop began to fetch or to draw between  *)
(* its bytes, for any keys, signals and refreshes, and whichever branches  *)
(* the select takes: otherwise the loop is never at the end of a timeout   *)
(* with an arrow's bytes unread.                                           *)
THEOREM ArrowsAreNoEscape == TUISpec => []ArrowsDoNotQuit
<1>1. TuiInv => ArrowsDoNotQuit
  BY DEF TuiInv, ArrowsInv, ArrowsDoNotQuit
<1> QED
  BY <1>1, TuiInvariant, PTL

(* The selection stays with its session, wherever refreshes move its row,  *)
(* until a key moves it or the session is listed no more; and the selected *)
(* row is always the selected session's.                                   *)
THEOREM SelectionIsKept == TUISpec => SelectionFollowsItsSession
<1> DEFINE Follows ==
      /\ snap' # <<>> => snap'[selected'.row + 1] = selected'.key
      /\ selected'.key # selected.key => \/ typed' # typed
                                         \/ selected.key = NoKey
                                         \/ ~ Contains(snap', selected.key)
<1>1. ASSUME TuiInv, [TUINext]_TUIVars PROVE [Follows]_(selection)
  <2>1. CASE UNCHANGED <<snap, selected>>
    BY <2>1 DEF selection
  <2>2. CASE EndFetch /\ daemon.up
    <3>1. /\ snap' = daemon.list
          /\ selected' = reconcileTUISelection(snap', selected.key, selected.row)
      BY <2>2 DEF EndFetch
    <3>2. snap' \in Dashboards
      BY <1>1, <3>1 DEF TuiInv, TuiTypes
    <3>3. /\ snap' # <<>> => snap'[selected'.row + 1] = selected'.key
          /\ selected.key # NoKey /\ Contains(snap', selected.key)
                => selected'.key = selected.key
      <4> DEFINE list == snap'
                 key == selected.key
                 row == selected.row
                 to == reconcileTUISelection(list, key, row)
      <4>1. list \in Dashboards
        BY <3>2
      <4>2. selected' = to
        BY <3>1
      <4> HIDE DEF list, key, row
      <4>3. /\ list # <<>> => list[to.row + 1] = to.key
            /\ key # NoKey /\ Contains(list, key) => to.key = key
        BY <4>1, Reselected
      <4> QED
        BY <4>2, <4>3 DEF list, key
    <3> QED
      BY <3>3
  <2>3. CASE ReadByte
    <3>1. typed' # typed
      BY <1>1, <2>3, ReadByteKeepsInv
    <3>2. \/ UNCHANGED <<snap, selected>>
          \/ UNCHANGED snap /\ \E row : selectAt(row)
      BY <2>3 DEF ReadByte, ReadAfterEscape, ReadArrow, ReadKey, selection
    <3>3. CASE UNCHANGED snap /\ \E row : selectAt(row)
      <4>1. PICK row : selected' = reconcileTUISelection(snap, NoKey, row)
        BY <3>3 DEF selectAt
      <4>2. snap # <<>> => snap[selected'.row + 1] = selected'.key
        BY <4>1, Reselected
      <4> QED
        BY <3>1, <3>3, <4>2
    <3> QED
      BY <2>1, <3>2, <3>3
  <2>4. \/ UNCHANGED <<snap, selected>>
        \/ EndFetch /\ daemon.up
        \/ ReadByte
    BY <1>1 DEF TUINext, Loop, DaemonChanges, Press, Signal,
                PassDeadline, TickerFires, DeadlineFires, TakeSignal,
                EndFetch, EndRender, selection, TUIVars
  <2> QED
    BY <2>1, <2>2, <2>3, <2>4
<1> QED
  BY <1>1, TuiInvariant, PTL
     DEF TUISpec, TUINext, TUIVars, SelectionFollowsItsSession
=============================================================================
