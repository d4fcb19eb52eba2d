------------------------- MODULE WarnControlProofs -------------------------
(***************************************************************************)
(* warn.c keeps no command line and no scopes: one setting and priority    *)
(* for each warning, one setting for each group, and a snapshot with each  *)
(* #pragma pop.  For any table of warnings, any options and any pragmas    *)
(* that is enough to give every warning the class the options and pragmas, *)
(* read from the beginning, say it has.                                    *)
(***************************************************************************)
EXTENDS WarnControl, FiniteSetTheorems, TLAPS

Class == Pragma \cup {None}
ClassMap == [Id -> Class]
EventType == [seq : Nat, kind : {"push", "pop", "set"}, id : Id \cup {None},
              class : Class, snapshot : ClassMap]
FlagType == [pedantic : 0 .. 2, error : BOOLEAN, inhibit : BOOLEAN, system : BOOLEAN,
             fsafe : BOOLEAN]

-----------------------------------------------------------------------------
(* The inductive invariant. *)
SettingsOK ==
  /\ opts \in Seq(OptionType)
  /\ enabled \in [Id -> Setting] /\ enabled_priority \in [Id -> 0 .. 3]
  /\ promoted \in [Id -> Setting] /\ promoted_priority \in [Id -> 0 .. 3]
  /\ group_enabled \in [Group -> Setting]
  /\ flags \in FlagType
  /\ parsing \in BOOLEAN
  /\ \A i \in Id : /\ (enabled[i] = "unset") <=> (enabled_priority[i] = 0)
                   /\ (promoted[i] = "unset") <=> (promoted_priority[i] = 0)

(* The stamps are the odd numbers: one token of text follows each pragma.  *)
EventsOK ==
  /\ events \in Seq(EventType)
  /\ seq = 2 * Len(events)
  /\ pragma_state \in ClassMap /\ pragma_stack \in Seq(ClassMap)
  /\ \A k \in DOMAIN events :
       /\ events[k].seq = 2 * k - 1
       /\ events[k].kind = "set" => events[k].id \in Id /\ events[k].class \in Pragma

(* -w is remembered for ever, and -fsafe came last and without it.         *)
FlagsKept ==
  /\ (\E k \in DOMAIN opts : opts[k].what = "w") => flags.inhibit
  /\ flags.fsafe => parsing /\ ~flags.inhibit

(* The setting of a warning and its priority are the word of the option    *)
(* that decides.                                                           *)
WordKept(i) ==
  \/ /\ enabled[i] = "unset" /\ enabled_priority[i] = 0
     /\ \A k \in DOMAIN opts : EnableWord(opts[k], i) = {}
  \/ \E k \in DOMAIN opts : \E w \in EnableWord(opts[k], i) :
       /\ enabled_priority[i] = w[1] /\ enabled[i] = OnOff(w[2])
       /\ \A j \in DOMAIN opts : \A v \in EnableWord(opts[j], i) :
            v[1] < w[1] \/ (v[1] = w[1] /\ j <= k)

GroupKept(g) ==
  \/ group_enabled[g] = "unset" /\ \A k \in DOMAIN opts : ~SetsGroup(opts[k], g)
  \/ \E k \in DOMAIN opts :
       /\ SetsGroup(opts[k], g) /\ group_enabled[g] = OnOff(opts[k].on)
       /\ \A j \in DOMAIN opts : SetsGroup(opts[j], g) => j <= k

WordsKept ==
  ~flags.fsafe => /\ \A i \in Id : WordKept(i)
                  /\ \A g \in {"all", "extra", "unused"} : GroupKept(g)

(* The settings of i after n events that are in a block still open, at     *)
(* most d deep, and the class the last of them gives.                      *)
OpenAfter(evs, j, n) ==
  \A k \in j + 1 .. n : evs[k].kind = "pop" => Depth(evs)[k - 1] - 1 >= Depth(evs)[j]
SetsAfter(evs, i, n, d) ==
  {j \in 1 .. n : /\ evs[j].kind = "set" /\ evs[j].id = i
                  /\ OpenAfter(evs, j, n) /\ Depth(evs)[j] <= d}
LastClass(evs, js, c) ==
  \/ c = None /\ js = {}
  \/ \E j \in js : c = evs[j].class /\ \A m \in js : m <= j
IsClass(evs, i, n, d, c) == LastClass(evs, SetsAfter(evs, i, n, d), c)

(* The stack has one entry for each open block, what the settings outside  *)
(* that block left; the state is that of all open blocks; and a snapshot   *)
(* is the state behind its pop.                                            *)
BlocksKept ==
  /\ Len(pragma_stack) = Depth(events)[Len(events)]
  /\ \A i \in Id : IsClass(events, i, Len(events), Len(pragma_stack), pragma_state[i])
  /\ \A d \in DOMAIN pragma_stack, i \in Id :
       IsClass(events, i, Len(events), d - 1, pragma_stack[d][i])
  /\ \A k \in DOMAIN events : events[k].kind = "pop" =>
       \A i \in Id : IsClass(events, i, k, Depth(events)[k], events[k].snapshot[i])

IInv == SettingsOK /\ EventsOK /\ FlagsKept /\ WordsKept /\ BlocksKept
-----------------------------------------------------------------------------
(* Induction over the natural numbers, as a fact about sets: a set without *)
(* a least element is empty, since the intervals from 0 are finite sets    *)
(* and those are well founded under inclusion.                             *)
LEMMA LeastNumber ==
  ASSUME NEW T \in SUBSET Nat, T # {}
  PROVE  \E x \in T : \A y \in T : x <= y
<1> DEFINE R == StrictSubsetOrdering(Nat)
           F == FiniteSubsetsOf(Nat)
           U == {0 .. n : n \in T}
<1>1. IsWellFoundedOn(R, F) BY FS_StrictSubsetOrderingWellFounded
<1>2. U \subseteq F
  <2> SUFFICES ASSUME NEW n \in T PROVE 0 .. n \in F OBVIOUS
  <2>1. IsFiniteSet(0 .. n) BY FS_Interval
  <2>2. 0 .. n \in SUBSET Nat OBVIOUS
  <2> QED BY <2>1, <2>2 DEF FiniteSubsetsOf
<1>3. U # {} OBVIOUS
<1>4. PICK u \in U : \A y \in U : ~ (<<y, u>> \in R)
  <2> HIDE DEF U, R, F
  <2> QED BY <1>1, <1>2, <1>3, WFMin, Zenon
<1>5. PICK x \in T : u = 0 .. x OBVIOUS
<1>6. \A y \in T : x <= y
  <2> SUFFICES ASSUME NEW y \in T, ~(x <= y) PROVE FALSE OBVIOUS
  <2>1. 0 .. y \in SUBSET Nat /\ 0 .. x \in SUBSET Nat OBVIOUS
  <2>2. 0 .. y \subseteq 0 .. x OBVIOUS
  <2>3. x \in 0 .. x /\ x \notin 0 .. y OBVIOUS
  <2>4. <<0 .. y, 0 .. x>> \in R BY <2>1, <2>2, <2>3 DEF StrictSubsetOrdering
  <2> QED BY <1>4, <1>5, <2>4
<1> QED BY <1>6

LEMMA SetInduction ==
  ASSUME NEW T, 0 \in T, \A n \in Nat : n \in T => n + 1 \in T
  PROVE  \A n \in Nat : n \in T
<1> SUFFICES ASSUME Nat \ T # {} PROVE FALSE OBVIOUS
<1>1. PICK x \in Nat \ T : \A y \in Nat \ T : x <= y
  <2>1. Nat \ T \in SUBSET Nat OBVIOUS
  <2> QED BY <2>1, LeastNumber
<1>2. x # 0 OBVIOUS
<1>3. x - 1 \in Nat /\ x - 1 \in T BY <1>1, <1>2
<1> QED BY <1>1, <1>3

-----------------------------------------------------------------------------
(* The two recursive functions of the events exist and obey their          *)
(* equations.                                                              *)
DepthStep(e, d) ==
  CASE e.kind = "push" -> d + 1
    [] e.kind = "pop" -> IF d = 0 THEN 0 ELSE d - 1
    [] OTHER -> d
IsDepth(f, evs, n) ==
  f = [k \in 0 .. n |-> IF k = 0 THEN 0 ELSE DepthStep(evs[k], f[k - 1])]

LEMMA DepthExists ==
  ASSUME NEW evs
  PROVE  \A n \in Nat : \E f : IsDepth(f, evs, n)
<1> DEFINE T == {n \in Nat : \E f : IsDepth(f, evs, n)}
<1>1. 0 \in T
  <2> DEFINE g == [k \in 0 .. 0 |-> 0]
  <2>1. IsDepth(g, evs, 0) BY DEF IsDepth
  <2> QED BY <2>1
<1>2. ASSUME NEW n \in Nat, n \in T PROVE n + 1 \in T
  <2>1. PICK f : IsDepth(f, evs, n) BY <1>2
  <2> DEFINE g == [k \in 0 .. n + 1 |-> IF k = n + 1 THEN DepthStep(evs[k], f[n]) ELSE f[k]]
  <2>2. \A k \in 0 .. n : f[k] = IF k = 0 THEN 0 ELSE DepthStep(evs[k], f[k - 1])
    BY <2>1, Zenon DEF IsDepth
  <2>3. \A k \in 0 .. n + 1 : g[k] = IF k = 0 THEN 0 ELSE DepthStep(evs[k], g[k - 1])
    BY <2>2
  <2>4. IsDepth(g, evs, n + 1)
    <3> HIDE DEF g
    <3>1. g = [k \in 0 .. n + 1 |-> g[k]] BY DEF g
    <3> QED BY <2>3, <3>1, Zenon DEF IsDepth
  <2> QED BY <2>4
<1> HIDE DEF T
<1>3. \A n \in Nat : n \in T BY <1>1, <1>2, SetInduction
<1> QED BY <1>3 DEF T

LEMMA DepthFacts ==
  ASSUME NEW evs \in Seq(EventType)
  PROVE  /\ Depth(evs)[0] = 0
         /\ \A k \in 1 .. Len(evs) : Depth(evs)[k] = DepthStep(evs[k], Depth(evs)[k - 1])
         /\ \A k \in 0 .. Len(evs) : Depth(evs)[k] \in Nat
<1> DEFINE d == Depth(evs)
<1>1. Len(evs) \in Nat OBVIOUS
<1>2. IsDepth(d, evs, Len(evs))
  <2>1. \E f : IsDepth(f, evs, Len(evs)) BY <1>1, DepthExists
  <2> QED BY <2>1, Zenon DEF IsDepth, Depth, DepthStep
<1>3. /\ d[0] = 0
      /\ \A k \in 1 .. Len(evs) : d[k] = DepthStep(evs[k], d[k - 1])
  <2> HIDE DEF d
  <2>1. \A k \in 0 .. Len(evs) : d[k] = IF k = 0 THEN 0 ELSE DepthStep(evs[k], d[k - 1])
    BY <1>2, Zenon DEF IsDepth
  <2> QED BY <1>1, <2>1
<1> DEFINE T == {k \in Nat : k <= Len(evs) => d[k] \in Nat}
<1> HIDE DEF d
<1>4. 0 \in T BY <1>3
<1>5. ASSUME NEW k \in Nat, k \in T PROVE k + 1 \in T
  <2> SUFFICES ASSUME k + 1 <= Len(evs) PROVE d[k + 1] \in Nat OBVIOUS
  <2>1. d[k] \in Nat BY <1>1, <1>5
  <2>2. d[k + 1] = DepthStep(evs[k + 1], d[k]) BY <1>1, <1>3
  <2> QED BY <2>1, <2>2 DEF DepthStep
<1> HIDE DEF T
<1>6. \A k \in Nat : k \in T BY <1>4, <1>5, SetInduction
<1>7. \A k \in 0 .. Len(evs) : d[k] \in Nat BY <1>1, <1>6 DEF T
<1> QED BY <1>3, <1>7 DEF d

ReplayStep(e, st) ==
  CASE e.kind = "set" -> [st EXCEPT ![e.id] = e.class]
    [] e.kind = "pop" -> e.snapshot
    [] OTHER -> st
IsReplay(f, evs, n) ==
  f = [k \in 0 .. n |-> IF k = 0 THEN Baseline ELSE ReplayStep(evs[k], f[k - 1])]

LEMMA ReplayExists ==
  ASSUME NEW evs
  PROVE  \A n \in Nat : \E f : IsReplay(f, evs, n)
<1> DEFINE T == {n \in Nat : \E f : IsReplay(f, evs, n)}
<1>1. 0 \in T
  <2> DEFINE g == [k \in 0 .. 0 |-> Baseline]
  <2>1. IsReplay(g, evs, 0) BY DEF IsReplay
  <2> QED BY <2>1
<1>2. ASSUME NEW n \in Nat, n \in T PROVE n + 1 \in T
  <2>1. PICK f : IsReplay(f, evs, n) BY <1>2
  <2> DEFINE g == [k \in 0 .. n + 1 |-> IF k = n + 1 THEN ReplayStep(evs[k], f[n]) ELSE f[k]]
  <2>2. \A k \in 0 .. n : f[k] = IF k = 0 THEN Baseline ELSE ReplayStep(evs[k], f[k - 1])
    BY <2>1, Zenon DEF IsReplay
  <2>3. \A k \in 0 .. n + 1 : g[k] = IF k = 0 THEN Baseline ELSE ReplayStep(evs[k], g[k - 1])
    BY <2>2
  <2>4. IsReplay(g, evs, n + 1)
    <3> HIDE DEF g
    <3>1. g = [k \in 0 .. n + 1 |-> g[k]] BY DEF g
    <3> QED BY <2>3, <3>1, Zenon DEF IsReplay
  <2> QED BY <2>4
<1> HIDE DEF T
<1>3. \A n \in Nat : n \in T BY <1>1, <1>2, SetInduction
<1> QED BY <1>3 DEF T

LEMMA ReplayFacts ==
  ASSUME NEW evs \in Seq(EventType)
  PROVE  /\ Replay(evs)[0] = Baseline
         /\ \A k \in 1 .. Len(evs) : Replay(evs)[k] = ReplayStep(evs[k], Replay(evs)[k - 1])
<1> DEFINE r == Replay(evs)
<1>1. Len(evs) \in Nat OBVIOUS
<1>2. IsReplay(r, evs, Len(evs))
  <2>1. \E f : IsReplay(f, evs, Len(evs)) BY <1>1, ReplayExists
  <2> QED BY <2>1, Zenon DEF IsReplay, Replay, ReplayStep
<1> HIDE DEF r
<1>3. \A k \in 0 .. Len(evs) : r[k] = IF k = 0 THEN Baseline ELSE ReplayStep(evs[k], r[k - 1])
  BY <1>2, Zenon DEF IsReplay
<1>4. r[0] = Baseline /\ \A k \in 1 .. Len(evs) : r[k] = ReplayStep(evs[k], r[k - 1])
  BY <1>1, <1>3
<1> QED BY <1>4 DEF r

(* An event behind the others changes no depth before it. *)
LEMMA DepthOfPrefix ==
  ASSUME NEW evs \in Seq(EventType), NEW e \in EventType
  PROVE  \A k \in 0 .. Len(evs) : Depth(Append(evs, e))[k] = Depth(evs)[k]
<1> DEFINE more == Append(evs, e)
           T == {k \in Nat : k <= Len(evs) => Depth(more)[k] = Depth(evs)[k]}
<1>1. /\ more \in Seq(EventType) /\ Len(more) = Len(evs) + 1 /\ Len(evs) \in Nat
      /\ \A k \in 1 .. Len(evs) : more[k] = evs[k]
  OBVIOUS
<1> HIDE DEF more
<1>2. 0 \in T BY <1>1, DepthFacts
<1>3. ASSUME NEW k \in Nat, k \in T PROVE k + 1 \in T
  <2> SUFFICES ASSUME k + 1 <= Len(evs) PROVE Depth(more)[k + 1] = Depth(evs)[k + 1] OBVIOUS
  <2>1. Depth(more)[k] = Depth(evs)[k] BY <1>1, <1>3
  <2>2. k + 1 \in 1 .. Len(evs) /\ k + 1 \in 1 .. Len(more) /\ (k + 1) - 1 = k BY <1>1
  <2>3. more[k + 1] = evs[k + 1] BY <1>1, <2>2
  <2>4. Depth(more)[k + 1] = DepthStep(more[k + 1], Depth(more)[(k + 1) - 1])
    BY <1>1, <2>2, DepthFacts, Zenon
  <2>5. Depth(evs)[k + 1] = DepthStep(evs[k + 1], Depth(evs)[(k + 1) - 1])
    BY <2>2, DepthFacts, Zenon
  <2> QED BY <2>1, <2>2, <2>3, <2>4, <2>5
<1> HIDE DEF T
<1>4. \A k \in Nat : k \in T BY <1>2, <1>3, SetInduction
<1> QED BY <1>1, <1>4 DEF T, more

(* What is still open is no deeper than the place it is looked at from.    *)
LEMMA OpenIsBelow ==
  ASSUME NEW evs \in Seq(EventType), NEW j \in 1 .. Len(evs), evs[j].kind = "set"
  PROVE  \A n \in j .. Len(evs) : OpenAfter(evs, j, n) => Depth(evs)[j] <= Depth(evs)[n]
<1> DEFINE d == Depth(evs)
           T == {m \in Nat : j + m <= Len(evs) /\ OpenAfter(evs, j, j + m) => d[j] <= d[j + m]}
<1>1. Len(evs) \in Nat /\ j \in Nat OBVIOUS
<1>2. \A k \in 0 .. Len(evs) : d[k] \in Nat BY DepthFacts
<1>3. \A k \in 1 .. Len(evs) : d[k] = DepthStep(evs[k], d[k - 1]) BY DepthFacts
<1>4. 0 \in T
  <2>1. j + 0 = j /\ d[j] \in Nat BY <1>1, <1>2
  <2> QED BY <2>1
<1>5. ASSUME NEW m \in Nat, m \in T PROVE m + 1 \in T
  <2> SUFFICES ASSUME j + (m + 1) <= Len(evs), OpenAfter(evs, j, j + (m + 1))
               PROVE  d[j] <= d[j + (m + 1)]
    OBVIOUS
  <2> DEFINE k == j + (m + 1)
  <2>1. k \in 1 .. Len(evs) /\ k - 1 = j + m /\ k \in j + 1 .. k BY <1>1
  <2>2. OpenAfter(evs, j, j + m) BY <1>1 DEF OpenAfter
  <2>3. d[j] <= d[k - 1] BY <1>1, <1>5, <2>1, <2>2
  <2>4. evs[k].kind = "pop" => d[k - 1] - 1 >= d[j] BY <2>1 DEF OpenAfter
  <2>5. d[k] = DepthStep(evs[k], d[k - 1]) BY <1>3, <2>1
  <2>6. d[j] \in Nat /\ d[k - 1] \in Nat BY <1>1, <1>2, <2>1
  <2> HIDE DEF d, k
  <2>7. d[j] <= d[k] BY <2>3, <2>4, <2>5, <2>6 DEF DepthStep
  <2> QED BY <2>7 DEF k
<1> HIDE DEF T
<1>6. \A m \in Nat : m \in T BY <1>4, <1>5, SetInduction
<1> SUFFICES ASSUME NEW n \in j .. Len(evs), OpenAfter(evs, j, n) PROVE d[j] <= d[n]
  OBVIOUS
<1>7. n - j \in Nat /\ j + (n - j) = n BY <1>1
<1>8. n - j \in T BY <1>6, <1>7
<1> QED BY <1>1, <1>7, <1>8 DEF T

(* The settings that count, event by event. *)
LEMMA SetsAfterPush ==
  ASSUME NEW evs \in Seq(EventType), NEW n \in Nat, n + 1 <= Len(evs),
         evs[n + 1].kind = "push", NEW i, NEW b
  PROVE  SetsAfter(evs, i, n + 1, b) = SetsAfter(evs, i, n, b)
<1>1. \A j \in 1 .. n : OpenAfter(evs, j, n + 1) <=> OpenAfter(evs, j, n)
  BY DEF OpenAfter
<1>2. \A j \in 1 .. n + 1 : j = n + 1 \/ j \in 1 .. n OBVIOUS
<1> QED BY <1>1, <1>2 DEF SetsAfter

LEMMA SetsAfterSet ==
  ASSUME NEW evs \in Seq(EventType), NEW n \in Nat, n + 1 <= Len(evs),
         evs[n + 1].kind = "set", NEW i, NEW b \in Int
  PROVE  SetsAfter(evs, i, n + 1, b) =
           SetsAfter(evs, i, n, b)
             \cup {j \in {n + 1} : evs[j].id = i /\ Depth(evs)[n] <= b}
<1>1. \A j \in 1 .. n : OpenAfter(evs, j, n + 1) <=> OpenAfter(evs, j, n)
  BY DEF OpenAfter
<1>2. \A j \in 1 .. n + 1 : j = n + 1 \/ j \in 1 .. n OBVIOUS
<1>3. OpenAfter(evs, n + 1, n + 1) BY DEF OpenAfter
<1>4. Depth(evs)[n + 1] = Depth(evs)[n]
  <2>1. n + 1 \in 1 .. Len(evs) /\ (n + 1) - 1 = n OBVIOUS
  <2>2. Depth(evs)[n + 1] = DepthStep(evs[n + 1], Depth(evs)[n]) BY <2>1, DepthFacts
  <2> QED BY <2>2 DEF DepthStep
<1> QED BY <1>1, <1>2, <1>3, <1>4 DEF SetsAfter

LEMMA SetsAfterPop ==
  ASSUME NEW evs \in Seq(EventType), NEW n \in Nat, n + 1 <= Len(evs),
         evs[n + 1].kind = "pop", NEW i, NEW b \in Int
  PROVE  SetsAfter(evs, i, n + 1, b) =
           {j \in SetsAfter(evs, i, n, b) : Depth(evs)[j] <= Depth(evs)[n] - 1}
<1>1. \A j \in 0 .. Len(evs) : Depth(evs)[j] \in Nat BY DepthFacts
<1>2. \A j \in 1 .. n : OpenAfter(evs, j, n + 1)
                          <=> OpenAfter(evs, j, n) /\ Depth(evs)[j] <= Depth(evs)[n] - 1
  <2> SUFFICES ASSUME NEW j \in 1 .. n
               PROVE  OpenAfter(evs, j, n + 1)
                        <=> OpenAfter(evs, j, n) /\ Depth(evs)[j] <= Depth(evs)[n] - 1
    OBVIOUS
  <2>1. Depth(evs)[j] \in Nat /\ Depth(evs)[n] \in Nat BY <1>1
  <2>2. (n + 1) - 1 = n /\ n + 1 \in j + 1 .. n + 1 OBVIOUS
  <2>3. \A k \in j + 1 .. n + 1 : k = n + 1 \/ k \in j + 1 .. n OBVIOUS
  <2>4. \A k \in j + 1 .. n : k \in j + 1 .. n + 1 OBVIOUS
  <2> QED BY <2>1, <2>2, <2>3, <2>4 DEF OpenAfter
<1>3. \A j \in 1 .. n + 1 : j = n + 1 \/ j \in 1 .. n OBVIOUS
<1>4. \A j \in 1 .. n : j \in 1 .. n + 1 OBVIOUS
<1> QED BY <1>2, <1>3, <1>4 DEF SetsAfter

(* A class as seen from n is the same whatever bound on the depth is at    *)
(* least the depth there.                                                  *)
LEMMA DeepEnough ==
  ASSUME NEW evs \in Seq(EventType), NEW n \in 0 .. Len(evs), NEW i,
         NEW b \in Int, b >= Depth(evs)[n]
  PROVE  SetsAfter(evs, i, n, b) =
           {j \in 1 .. n : evs[j].kind = "set" /\ evs[j].id = i /\ OpenAfter(evs, j, n)}
<1>1. \A j \in 0 .. Len(evs) : Depth(evs)[j] \in Nat BY DepthFacts
<1>2. ASSUME NEW j \in 1 .. n, evs[j].kind = "set", OpenAfter(evs, j, n)
      PROVE  Depth(evs)[j] <= b
  <2>1. j \in 1 .. Len(evs) /\ n \in j .. Len(evs) OBVIOUS
  <2>2. Depth(evs)[j] <= Depth(evs)[n] BY <1>2, <2>1, OpenIsBelow
  <2>3. Depth(evs)[j] \in Nat /\ Depth(evs)[n] \in Nat BY <1>1, <2>1
  <2> QED BY <2>2, <2>3
<1> QED BY <1>2 DEF SetsAfter

LEMMA ClassOfPrefix ==
  ASSUME NEW evs \in Seq(EventType), NEW e \in EventType, NEW n \in 0 .. Len(evs),
         NEW i, NEW b, NEW c
  PROVE  /\ SetsAfter(Append(evs, e), i, n, b) = SetsAfter(evs, i, n, b)
         /\ IsClass(Append(evs, e), i, n, b, c) <=> IsClass(evs, i, n, b, c)
<1> DEFINE more == Append(evs, e)
<1>1. Len(evs) \in Nat /\ \A k \in 1 .. Len(evs) : more[k] = evs[k] OBVIOUS
<1>2. \A k \in 0 .. Len(evs) : Depth(more)[k] = Depth(evs)[k] BY DepthOfPrefix
<1> HIDE DEF more
<1>3. ASSUME NEW j \in 1 .. n PROVE OpenAfter(more, j, n) <=> OpenAfter(evs, j, n)
  <2>1. \A k \in j + 1 .. n : more[k] = evs[k] /\ Depth(more)[k - 1] = Depth(evs)[k - 1]
    <3> SUFFICES ASSUME NEW k \in j + 1 .. n
                 PROVE  more[k] = evs[k] /\ Depth(more)[k - 1] = Depth(evs)[k - 1]
      OBVIOUS
    <3>1. k \in 1 .. Len(evs) /\ k - 1 \in 0 .. Len(evs) BY <1>1
    <3> QED BY <1>1, <1>2, <3>1
  <2>2. Depth(more)[j] = Depth(evs)[j] BY <1>1, <1>2
  <2> QED BY <2>1, <2>2 DEF OpenAfter
<1>4. \A j \in 1 .. n : more[j] = evs[j] /\ Depth(more)[j] = Depth(evs)[j]
  BY <1>1, <1>2
<1>5. SetsAfter(more, i, n, b) = SetsAfter(evs, i, n, b) BY <1>3, <1>4 DEF SetsAfter
<1>6. \A j \in SetsAfter(evs, i, n, b) : more[j] = evs[j] BY <1>4 DEF SetsAfter
<1>7. IsClass(more, i, n, b, c) <=> IsClass(evs, i, n, b, c)
  BY <1>5, <1>6, Zenon DEF IsClass, LastClass
<1> QED BY <1>5, <1>7 DEF more

(* The class behind an event, from the class before it. *)
LEMMA ClassAfterPush ==
  ASSUME NEW evs \in Seq(EventType), NEW n \in Nat, n + 1 <= Len(evs),
         evs[n + 1].kind = "push", NEW i, NEW b, NEW c, IsClass(evs, i, n, b, c)
  PROVE  IsClass(evs, i, n + 1, b, c)
<1>1. SetsAfter(evs, i, n + 1, b) = SetsAfter(evs, i, n, b) BY SetsAfterPush
<1> QED BY <1>1 DEF IsClass

LEMMA ClassAfterSet ==
  ASSUME NEW evs \in Seq(EventType), NEW n \in Nat, n + 1 <= Len(evs),
         evs[n + 1].kind = "set", NEW i, NEW b \in Int, NEW c, IsClass(evs, i, n, b, c)
  PROVE  IsClass(evs, i, n + 1, b,
                 IF evs[n + 1].id = i /\ Depth(evs)[n] <= b THEN evs[n + 1].class ELSE c)
<1> DEFINE new == evs[n + 1].id = i /\ Depth(evs)[n] <= b
           js == SetsAfter(evs, i, n, b)
           ks == SetsAfter(evs, i, n + 1, b)
<1>1. ks = js \cup {j \in {n + 1} : evs[j].id = i /\ Depth(evs)[n] <= b} BY SetsAfterSet
<1>2. \A j \in js : j \in 1 .. n BY DEF SetsAfter
<1>3. LastClass(evs, js, c) BY DEF IsClass
<1> HIDE DEF js, ks
<1>4. CASE new
  <2>1. ks = js \cup {n + 1} BY <1>1, <1>4
  <2>2. n + 1 \in ks /\ \A m \in ks : m <= n + 1 BY <1>2, <2>1
  <2>3. LastClass(evs, ks, evs[n + 1].class) BY <2>2, Zenon DEF LastClass
  <2> QED BY <1>4, <2>3 DEF IsClass, ks
<1>5. CASE ~new
  <2>1. ks = js BY <1>1, <1>5
  <2> QED BY <1>3, <1>5, <2>1 DEF IsClass, ks
<1> QED BY <1>4, <1>5

LEMMA ClassAfterPop ==
  ASSUME NEW evs \in Seq(EventType), NEW n \in Nat, n + 1 <= Len(evs),
         evs[n + 1].kind = "pop", NEW i, NEW b \in Int, b < Depth(evs)[n],
         NEW c, IsClass(evs, i, n, b, c)
  PROVE  IsClass(evs, i, n + 1, b, c)
<1>1. \A j \in 0 .. Len(evs) : Depth(evs)[j] \in Nat BY DepthFacts
<1>2. SetsAfter(evs, i, n + 1, b) =
        {j \in SetsAfter(evs, i, n, b) : Depth(evs)[j] <= Depth(evs)[n] - 1}
  BY SetsAfterPop
<1>3. ASSUME NEW j \in SetsAfter(evs, i, n, b) PROVE Depth(evs)[j] <= Depth(evs)[n] - 1
  <2>1. j \in 1 .. n /\ Depth(evs)[j] <= b BY DEF SetsAfter
  <2>2. Depth(evs)[j] \in Nat /\ Depth(evs)[n] \in Nat BY <1>1, <2>1
  <2> QED BY <2>1, <2>2
<1>4. SetsAfter(evs, i, n + 1, b) = SetsAfter(evs, i, n, b) BY <1>2, <1>3
<1> QED BY <1>4 DEF IsClass

LEMMA ClassAfterLastPop ==
  ASSUME NEW evs \in Seq(EventType), NEW n \in Nat, n + 1 <= Len(evs),
         evs[n + 1].kind = "pop", NEW i, NEW b \in Int
  PROVE  Depth(evs)[n] = 0 => IsClass(evs, i, n + 1, b, None)
<1>1. \A j \in 0 .. Len(evs) : Depth(evs)[j] \in Nat BY DepthFacts
<1>2. SetsAfter(evs, i, n + 1, b) =
        {j \in SetsAfter(evs, i, n, b) : Depth(evs)[j] <= Depth(evs)[n] - 1}
  BY SetsAfterPop
<1> SUFFICES ASSUME Depth(evs)[n] = 0 PROVE IsClass(evs, i, n + 1, b, None) OBVIOUS
<1>3. ASSUME NEW j \in SetsAfter(evs, i, n, b) PROVE ~(Depth(evs)[j] <= Depth(evs)[n] - 1)
  <2>1. j \in 1 .. n BY DEF SetsAfter
  <2>2. Depth(evs)[j] \in Nat BY <1>1, <2>1
  <2> QED BY <2>2
<1>4. SetsAfter(evs, i, n + 1, b) = {} BY <1>2, <1>3
<1> QED BY <1>4 DEF IsClass, LastClass

LEMMA ClassDeeper ==
  ASSUME NEW evs \in Seq(EventType), NEW n \in 0 .. Len(evs), NEW i, NEW c,
         NEW b \in Int, b >= Depth(evs)[n], IsClass(evs, i, n, Depth(evs)[n], c)
  PROVE  IsClass(evs, i, n, b, c)
<1>1. Depth(evs)[n] \in Nat BY DepthFacts
<1> DEFINE js == {j \in 1 .. n : evs[j].kind = "set" /\ evs[j].id = i /\ OpenAfter(evs, j, n)}
<1>2. SetsAfter(evs, i, n, b) = js BY DeepEnough
<1>3. SetsAfter(evs, i, n, Depth(evs)[n]) = js
  <2>1. Depth(evs)[n] \in Int /\ Depth(evs)[n] >= Depth(evs)[n] BY <1>1
  <2> QED BY <2>1, DeepEnough
<1> QED BY <1>2, <1>3 DEF IsClass

-----------------------------------------------------------------------------
(* The pragmas keep the invariant. *)
LEMMA EventEffect ==
  ASSUME EventsOK, NEW e \in EventType, Event(e),
         e.kind = "set" => e.id \in Id /\ e.class \in Pragma
  PROVE  \E x \in EventType :
           /\ events' = Append(events, x)
           /\ x.kind = e.kind /\ x.id = e.id /\ x.class = e.class /\ x.snapshot = e.snapshot
           /\ events' \in Seq(EventType) /\ seq' = 2 * Len(events')
           /\ \A k \in DOMAIN events' :
                /\ events'[k].seq = 2 * k - 1
                /\ events'[k].kind = "set" => events'[k].id \in Id /\ events'[k].class \in Pragma
<1> DEFINE x == [e EXCEPT !.seq = seq + 1]
           n == Len(events)
<1>1. events \in Seq(EventType) /\ n \in Nat /\ seq = 2 * n BY DEF EventsOK
<1>2. /\ x \in EventType /\ x.seq = 2 * (n + 1) - 1
      /\ x.kind = e.kind /\ x.id = e.id /\ x.class = e.class /\ x.snapshot = e.snapshot
  BY <1>1 DEF EventType
<1>3. events' = Append(events, x) /\ seq' = seq + 2 BY DEF Event
<1> HIDE DEF x
<1>4. /\ events' \in Seq(EventType) /\ Len(events') = n + 1 /\ events'[n + 1] = x
      /\ \A k \in 1 .. n : events'[k] = events[k]
  BY <1>1, <1>2, <1>3
<1>5. ASSUME NEW k \in DOMAIN events'
      PROVE  /\ events'[k].seq = 2 * k - 1
             /\ events'[k].kind = "set" => events'[k].id \in Id /\ events'[k].class \in Pragma
  <2>1. k = n + 1 \/ (k \in 1 .. n /\ k \in DOMAIN events) BY <1>1, <1>4
  <2> QED BY <1>2, <1>4, <2>1 DEF EventsOK
<1>6. seq' = 2 * Len(events') BY <1>1, <1>3, <1>4
<1> QED BY <1>2, <1>3, <1>4, <1>5, <1>6

LEMMA PolicyUnchanged ==
  ASSUME SettingsOK, FlagsKept, WordsKept, UNCHANGED <<policy, parsing>>
  PROVE  SettingsOK' /\ FlagsKept' /\ WordsKept'
<1>1. UNCHANGED <<opts, enabled, enabled_priority, promoted, promoted_priority, group_enabled,
                  flags, parsing>>
  BY DEF policy, settings
<1>2. SettingsOK' BY <1>1 DEF SettingsOK
<1>3. FlagsKept' BY <1>1 DEF FlagsKept
<1>4. WordsKept'
  BY <1>1, Zenon DEF WordsKept, WordKept, GroupKept, Decides
<1> QED BY <1>2, <1>3, <1>4

(* What the new event, the last of n + 1, leaves of the invariant to show. *)
LEMMA EarlierSnapshots ==
  ASSUME EventsOK, BlocksKept, NEW x \in EventType, events' = Append(events, x)
  PROVE  /\ \A k \in 0 .. Len(events) : Depth(events')[k] = Depth(events)[k]
         /\ Depth(events')[Len(events) + 1] = DepthStep(x, Depth(events)[Len(events)])
         /\ \A k \in 1 .. Len(events) : events'[k].kind = "pop" =>
              \A i \in Id : IsClass(events', i, k, Depth(events')[k], events'[k].snapshot[i])
<1> DEFINE n == Len(events)
<1>1. events \in Seq(EventType) /\ n \in Nat BY DEF EventsOK
<1>2. /\ events' \in Seq(EventType) /\ Len(events') = n + 1 /\ events'[n + 1] = x
      /\ \A k \in 1 .. n : events'[k] = events[k]
  BY <1>1
<1>3. \A k \in 0 .. n : Depth(events')[k] = Depth(events)[k] BY <1>1, DepthOfPrefix
<1>4. Depth(events')[n + 1] = DepthStep(x, Depth(events)[n])
  <2>1. n + 1 \in 1 .. Len(events') /\ (n + 1) - 1 = n BY <1>1, <1>2
  <2>2. Depth(events')[n + 1] = DepthStep(events'[n + 1], Depth(events')[(n + 1) - 1])
    BY <1>2, <2>1, DepthFacts, Zenon
  <2> QED BY <1>1, <1>2, <1>3, <2>1, <2>2
<1>5. ASSUME NEW k \in 1 .. n, events'[k].kind = "pop", NEW i \in Id
      PROVE  IsClass(events', i, k, Depth(events')[k], events'[k].snapshot[i])
  <2>1. k \in DOMAIN events /\ events'[k] = events[k] /\ k \in 0 .. n BY <1>1, <1>2
  <2>2. IsClass(events, i, k, Depth(events)[k], events[k].snapshot[i])
    BY <1>5, <2>1 DEF BlocksKept
  <2>3. IsClass(events', i, k, Depth(events)[k], events[k].snapshot[i])
    BY <1>1, <2>1, <2>2, ClassOfPrefix
  <2> QED BY <1>3, <2>1, <2>3
<1> QED BY <1>3, <1>4, <1>5

LEMMA PushKeeps == ASSUME IInv, PragmaPush PROVE IInv'
<1> DEFINE n == Len(events)
           D == Len(pragma_stack)
<1>i. SettingsOK /\ EventsOK /\ FlagsKept /\ WordsKept /\ BlocksKept BY DEF IInv
<1>1. /\ Event(Record("push", None, None, Baseline))
      /\ pragma_stack' = Append(pragma_stack, pragma_state) /\ pragma_state' = pragma_state
  BY DEF PragmaPush
<1>2. Record("push", None, None, Baseline) \in EventType
  BY DEF Record, EventType, Class, ClassMap, Baseline
<1>3. PICK x \in EventType :
        /\ events' = Append(events, x) /\ x.kind = "push"
        /\ events' \in Seq(EventType) /\ seq' = 2 * Len(events')
        /\ \A k \in DOMAIN events' :
             /\ events'[k].seq = 2 * k - 1
             /\ events'[k].kind = "set" => events'[k].id \in Id /\ events'[k].class \in Pragma
  <2>1. Record("push", None, None, Baseline).kind = "push" BY DEF Record
  <2> QED BY <1>i, <1>1, <1>2, <2>1, EventEffect
<1>4. /\ events \in Seq(EventType) /\ n \in Nat /\ pragma_stack \in Seq(ClassMap) /\ D \in Nat
      /\ pragma_state \in ClassMap
  BY <1>i DEF EventsOK
<1>5. /\ Len(events') = n + 1 /\ events'[n + 1] = x
      /\ Len(pragma_stack') = D + 1 /\ pragma_stack'[D + 1] = pragma_state
      /\ \A d \in 1 .. D : pragma_stack'[d] = pragma_stack[d]
      /\ pragma_stack' \in Seq(ClassMap)
  BY <1>1, <1>3, <1>4
<1>6. SettingsOK' /\ FlagsKept' /\ WordsKept'
  BY <1>i, <1>1, PolicyUnchanged DEF Event
<1>7. EventsOK' BY <1>1, <1>3, <1>4, <1>5 DEF EventsOK
<1>8. /\ \A k \in 0 .. n : Depth(events')[k] = Depth(events)[k]
      /\ Depth(events')[n + 1] = D + 1 /\ Depth(events)[n] = D /\ Depth(events')[n] = D
  <2>1. Depth(events)[n] = D BY <1>i DEF BlocksKept
  <2>2. Depth(events')[n + 1] = DepthStep(x, D) BY <1>i, <1>3, <2>1, EarlierSnapshots
  <2>3. \A k \in 0 .. n : Depth(events')[k] = Depth(events)[k]
    BY <1>i, <1>3, EarlierSnapshots
  <2> QED BY <1>3, <1>4, <2>1, <2>2, <2>3 DEF DepthStep
<1>9. ASSUME NEW i, NEW b, NEW c, IsClass(events, i, n, b, c)
      PROVE  IsClass(events', i, n + 1, b, c)
  <2>1. IsClass(events', i, n, b, c) BY <1>3, <1>4, <1>9, ClassOfPrefix
  <2>2. n + 1 <= Len(events') /\ events'[n + 1].kind = "push" BY <1>3, <1>4, <1>5
  <2> QED BY <1>3, <1>4, <2>1, <2>2, ClassAfterPush
<1>10. ASSUME NEW i \in Id PROVE IsClass(events', i, n + 1, D + 1, pragma_state[i])
  <2>1. IsClass(events, i, n, D, pragma_state[i]) BY <1>i DEF BlocksKept
  <2>2. n \in 0 .. Len(events) /\ D + 1 \in Int /\ D + 1 >= Depth(events)[n] BY <1>4, <1>8
  <2>3. IsClass(events, i, n, Depth(events)[n], pragma_state[i]) BY <1>8, <2>1
  <2>4. IsClass(events, i, n, D + 1, pragma_state[i]) BY <1>4, <2>2, <2>3, ClassDeeper
  <2> QED BY <1>9, <2>4
<1>11. ASSUME NEW d \in DOMAIN pragma_stack', NEW i \in Id
       PROVE  IsClass(events', i, n + 1, d - 1, pragma_stack'[d][i])
  <2>1. d = D + 1 \/ d \in 1 .. D BY <1>4, <1>5
  <2>2. CASE d = D + 1
    <3>1. IsClass(events, i, n, D, pragma_state[i]) BY <1>i DEF BlocksKept
    <3>2. d - 1 = D BY <1>4, <2>2
    <3> QED BY <1>5, <1>9, <2>2, <3>1, <3>2
  <2>3. CASE d \in 1 .. D
    <3>1. d \in DOMAIN pragma_stack BY <1>4, <2>3
    <3>2. IsClass(events, i, n, d - 1, pragma_stack[d][i]) BY <1>i, <3>1 DEF BlocksKept
    <3> QED BY <1>5, <1>9, <2>3, <3>2
  <2> QED BY <2>1, <2>2, <2>3
<1>12. ASSUME NEW k \in DOMAIN events', events'[k].kind = "pop", NEW i \in Id
       PROVE  IsClass(events', i, k, Depth(events')[k], events'[k].snapshot[i])
  <2>1. k \in 1 .. n BY <1>3, <1>4, <1>5, <1>12
  <2> QED BY <1>i, <1>3, <1>12, <2>1, EarlierSnapshots
<1>13. BlocksKept' BY <1>1, <1>5, <1>8, <1>10, <1>11, <1>12 DEF BlocksKept
<1> QED BY <1>6, <1>7, <1>13 DEF IInv

LEMMA PragmaSetKeeps ==
  ASSUME IInv, NEW a \in Id, NEW class \in Pragma, PragmaSet(a, class)
  PROVE  IInv'
<1> DEFINE n == Len(events)
           D == Len(pragma_stack)
<1>i. SettingsOK /\ EventsOK /\ FlagsKept /\ WordsKept /\ BlocksKept BY DEF IInv
<1>1. /\ Event(Record("set", a, class, Baseline))
      /\ pragma_state' = [pragma_state EXCEPT ![a] = class] /\ pragma_stack' = pragma_stack
  BY DEF PragmaSet
<1>2. Record("set", a, class, Baseline) \in EventType
  BY DEF Record, EventType, Class, ClassMap, Baseline
<1>3. PICK x \in EventType :
        /\ events' = Append(events, x) /\ x.kind = "set" /\ x.id = a /\ x.class = class
        /\ events' \in Seq(EventType) /\ seq' = 2 * Len(events')
        /\ \A k \in DOMAIN events' :
             /\ events'[k].seq = 2 * k - 1
             /\ events'[k].kind = "set" => events'[k].id \in Id /\ events'[k].class \in Pragma
  <2> DEFINE e == Record("set", a, class, Baseline)
  <2>1. e.kind = "set" /\ e.id = a /\ e.class = class BY DEF Record
  <2> HIDE DEF e
  <2> QED BY <1>i, <1>1, <1>2, <2>1, EventEffect DEF e
<1>4. /\ events \in Seq(EventType) /\ n \in Nat /\ pragma_stack \in Seq(ClassMap) /\ D \in Nat
      /\ pragma_state \in ClassMap
  BY <1>i DEF EventsOK
<1>5. Len(events') = n + 1 /\ events'[n + 1] = x BY <1>3, <1>4
<1>6. SettingsOK' /\ FlagsKept' /\ WordsKept'
  BY <1>i, <1>1, PolicyUnchanged DEF Event
<1>7. EventsOK'
  <2>1. pragma_state' \in ClassMap BY <1>1, <1>4 DEF ClassMap, Class
  <2> QED BY <1>1, <1>3, <1>4, <2>1 DEF EventsOK
<1>8. /\ \A k \in 0 .. n : Depth(events')[k] = Depth(events)[k]
      /\ Depth(events')[n + 1] = D /\ Depth(events)[n] = D /\ Depth(events')[n] = D
  <2>1. Depth(events)[n] = D BY <1>i DEF BlocksKept
  <2>2. Depth(events')[n + 1] = DepthStep(x, D) BY <1>i, <1>3, <2>1, EarlierSnapshots
  <2>3. \A k \in 0 .. n : Depth(events')[k] = Depth(events)[k]
    BY <1>i, <1>3, EarlierSnapshots
  <2> QED BY <1>3, <1>4, <2>1, <2>2, <2>3 DEF DepthStep
<1>9. ASSUME NEW i, NEW b \in Int, NEW c, IsClass(events, i, n, b, c)
      PROVE  IsClass(events', i, n + 1, b, IF a = i /\ D <= b THEN class ELSE c)
  <2>1. IsClass(events', i, n, b, c) BY <1>3, <1>4, <1>9, ClassOfPrefix
  <2>2. n + 1 <= Len(events') /\ events'[n + 1].kind = "set" BY <1>3, <1>4, <1>5
  <2>3. IsClass(events', i, n + 1, b,
                IF events'[n + 1].id = i /\ Depth(events')[n] <= b
                THEN events'[n + 1].class ELSE c)
    BY <1>3, <1>4, <2>1, <2>2, ClassAfterSet
  <2> QED BY <1>3, <1>5, <1>8, <2>3
<1>10. ASSUME NEW i \in Id PROVE IsClass(events', i, n + 1, D, pragma_state'[i])
  <2>1. IsClass(events, i, n, D, pragma_state[i]) BY <1>i DEF BlocksKept
  <2>2. D \in Int /\ D <= D BY <1>4
  <2>3. IsClass(events', i, n + 1, D, IF a = i /\ D <= D THEN class ELSE pragma_state[i])
    BY <1>9, <2>1, <2>2
  <2>4. pragma_state'[i] = IF a = i THEN class ELSE pragma_state[i]
    BY <1>1, <1>4 DEF ClassMap
  <2> QED BY <2>2, <2>3, <2>4
<1>11. ASSUME NEW d \in DOMAIN pragma_stack, NEW i \in Id
       PROVE  IsClass(events', i, n + 1, d - 1, pragma_stack[d][i])
  <2>1. IsClass(events, i, n, d - 1, pragma_stack[d][i]) BY <1>i DEF BlocksKept
  <2>2. d - 1 \in Int /\ ~(D <= d - 1) BY <1>4
  <2>3. IsClass(events', i, n + 1, d - 1,
                IF a = i /\ D <= d - 1 THEN class ELSE pragma_stack[d][i])
    BY <1>9, <2>1, <2>2
  <2> QED BY <2>2, <2>3
<1>12. ASSUME NEW k \in DOMAIN events', events'[k].kind = "pop", NEW i \in Id
       PROVE  IsClass(events', i, k, Depth(events')[k], events'[k].snapshot[i])
  <2>1. k \in 1 .. n BY <1>3, <1>4, <1>5, <1>12
  <2> QED BY <1>i, <1>3, <1>12, <2>1, EarlierSnapshots
<1>13. BlocksKept' BY <1>1, <1>5, <1>8, <1>10, <1>11, <1>12 DEF BlocksKept
<1> QED BY <1>6, <1>7, <1>13 DEF IInv

LEMMA PopKeeps == ASSUME IInv, PragmaPop PROVE IInv'
<1> DEFINE n == Len(events)
           D == Len(pragma_stack)
           D1 == IF D = 0 THEN 0 ELSE D - 1
           restored == IF D = 0 THEN Baseline ELSE pragma_stack[D]
<1>i. SettingsOK /\ EventsOK /\ FlagsKept /\ WordsKept /\ BlocksKept BY DEF IInv
<1>1. /\ Event(Record("pop", None, None, restored)) /\ pragma_state' = restored
      /\ pragma_stack' = IF D = 0 THEN <<>> ELSE SubSeq(pragma_stack, 1, D - 1)
  BY DEF PragmaPop
<1>4. /\ events \in Seq(EventType) /\ n \in Nat /\ pragma_stack \in Seq(ClassMap) /\ D \in Nat
      /\ pragma_state \in ClassMap
  BY <1>i DEF EventsOK
<1>2. restored \in ClassMap /\ Record("pop", None, None, restored) \in EventType
  <2>1. Baseline \in ClassMap BY DEF Baseline, ClassMap, Class
  <2>2. restored \in ClassMap BY <1>4, <2>1
  <2> HIDE DEF restored
  <2> QED BY <2>2 DEF Record, EventType, Class
<1> HIDE DEF restored
<1>3. PICK x \in EventType :
        /\ events' = Append(events, x) /\ x.kind = "pop" /\ x.snapshot = restored
        /\ events' \in Seq(EventType) /\ seq' = 2 * Len(events')
        /\ \A k \in DOMAIN events' :
             /\ events'[k].seq = 2 * k - 1
             /\ events'[k].kind = "set" => events'[k].id \in Id /\ events'[k].class \in Pragma
  <2> DEFINE e == Record("pop", None, None, restored)
  <2>1. e.kind = "pop" /\ e.snapshot = restored BY DEF Record
  <2> HIDE DEF e
  <2> QED BY <1>i, <1>1, <1>2, <2>1, EventEffect DEF e
<1>5. /\ Len(events') = n + 1 /\ events'[n + 1] = x
      /\ pragma_stack' \in Seq(ClassMap) /\ Len(pragma_stack') = D1
      /\ \A d \in 1 .. D1 : pragma_stack'[d] = pragma_stack[d]
  BY <1>1, <1>3, <1>4
<1>6. SettingsOK' /\ FlagsKept' /\ WordsKept'
  BY <1>i, <1>1, PolicyUnchanged DEF Event
<1>7. EventsOK' BY <1>1, <1>2, <1>3, <1>5 DEF EventsOK
<1>8. /\ \A k \in 0 .. n : Depth(events')[k] = Depth(events)[k]
      /\ Depth(events')[n + 1] = D1 /\ Depth(events)[n] = D /\ Depth(events')[n] = D
  <2>1. Depth(events)[n] = D BY <1>i DEF BlocksKept
  <2>2. Depth(events')[n + 1] = DepthStep(x, D) BY <1>i, <1>3, <2>1, EarlierSnapshots
  <2>3. \A k \in 0 .. n : Depth(events')[k] = Depth(events)[k]
    BY <1>i, <1>3, EarlierSnapshots
  <2> QED BY <1>3, <1>4, <2>1, <2>2, <2>3 DEF DepthStep
<1>9. n + 1 <= Len(events') /\ events'[n + 1].kind = "pop" BY <1>3, <1>4, <1>5
<1>10. ASSUME NEW i, NEW b \in Int, b < D, NEW c, IsClass(events, i, n, b, c)
       PROVE  IsClass(events', i, n + 1, b, c)
  <2>1. IsClass(events', i, n, b, c) BY <1>3, <1>4, <1>10, ClassOfPrefix
  <2>2. b < Depth(events')[n] BY <1>8, <1>10
  <2> QED BY <1>3, <1>4, <1>9, <2>1, <2>2, ClassAfterPop
<1>11. ASSUME NEW i \in Id PROVE IsClass(events', i, n + 1, D1, restored[i])
  <2>1. CASE D = 0
    <3>1. restored[i] = None /\ D1 = 0 BY <2>1 DEF restored, Baseline
    <3>2. ASSUME NEW b \in Int PROVE IsClass(events', i, n + 1, b, None)
      BY <1>3, <1>4, <1>8, <1>9, <2>1, ClassAfterLastPop
    <3> QED BY <3>1, <3>2
  <2>2. CASE D # 0
    <3>1. restored = pragma_stack[D] /\ D1 = D - 1 /\ D1 \in Int /\ D1 < D /\ D \in DOMAIN pragma_stack
      BY <1>4, <2>2 DEF restored
    <3>2. IsClass(events, i, n, D - 1, pragma_stack[D][i]) BY <1>i, <3>1 DEF BlocksKept
    <3> QED BY <1>10, <3>1, <3>2
  <2> QED BY <2>1, <2>2
<1>12. ASSUME NEW d \in DOMAIN pragma_stack', NEW i \in Id
       PROVE  IsClass(events', i, n + 1, d - 1, pragma_stack'[d][i])
  <2>1. d \in 1 .. D1 /\ d \in DOMAIN pragma_stack /\ d - 1 \in Int /\ d - 1 < D
    BY <1>4, <1>5
  <2>2. IsClass(events, i, n, d - 1, pragma_stack[d][i]) BY <1>i, <2>1 DEF BlocksKept
  <2> QED BY <1>5, <1>10, <2>1, <2>2
<1>13. ASSUME NEW k \in DOMAIN events', events'[k].kind = "pop", NEW i \in Id
       PROVE  IsClass(events', i, k, Depth(events')[k], events'[k].snapshot[i])
  <2>1. k \in 1 .. n \/ k = n + 1 BY <1>3, <1>4, <1>5
  <2>2. CASE k \in 1 .. n BY <1>i, <1>3, <1>13, <2>2, EarlierSnapshots
  <2>3. CASE k = n + 1 BY <1>3, <1>5, <1>8, <1>11, <2>3
  <2> QED BY <2>1, <2>2, <2>3
<1>14. BlocksKept' BY <1>1, <1>5, <1>8, <1>11, <1>12, <1>13 DEF BlocksKept
<1> QED BY <1>6, <1>7, <1>14 DEF IInv

-----------------------------------------------------------------------------
(* The options keep the invariant.  The words of one option for a warning  *)
(* are none or one, and one is taken if none more specific was.            *)
WordTaken(i, ws) ==
  \/ /\ ws = {}
     /\ enabled'[i] = enabled[i] /\ enabled_priority'[i] = enabled_priority[i]
  \/ \E p \in 1 .. 3, b \in BOOLEAN :
       /\ ws = {<<p, b>>}
       /\ IF enabled_priority[i] <= p
          THEN enabled'[i] = OnOff(b) /\ enabled_priority'[i] = p
          ELSE enabled'[i] = enabled[i] /\ enabled_priority'[i] = enabled_priority[i]

FunctionsKept ==
  /\ enabled' = [i \in Id |-> enabled'[i]]
  /\ enabled_priority' = [i \in Id |-> enabled_priority'[i]]
  /\ group_enabled' \in [Group -> Setting]

LEMMA ItemPriorityType == \A g, i : ItemPriority(g, i) \in 1 .. 2
  BY DEF ItemPriority, Priority

LEMMA GroupsEffect ==
  ASSUME SettingsOK, NEW gs \in SUBSET Group, NEW on \in [gs -> BOOLEAN], ApplyGroups(gs, on)
  PROVE  /\ FunctionsKept
         /\ \A g \in Group : group_enabled'[g] = IF g \in gs THEN OnOff(on[g]) ELSE group_enabled[g]
         /\ \A i \in Id :
              (\A g \in gs : GroupWord(i, g, on[g]) = {}) => WordTaken(i, {})
         /\ \A i \in Id, g \in gs :
              (g \in Info[i].groups /\ \A h \in gs : h \in Info[i].groups => h = g)
                => WordTaken(i, GroupWord(i, g, on[g]))
<1> DEFINE Taken(i) == {g \in gs : SpeaksFor(g, i)}
           The(i) == CHOOSE g \in Taken(i) : TRUE
<1>1. /\ group_enabled' = [g \in Group |-> IF g \in gs THEN OnOff(on[g]) ELSE group_enabled[g]]
      /\ enabled' = [i \in Id |-> IF Taken(i) = {} THEN enabled[i] ELSE OnOff(on[The(i)])]
      /\ enabled_priority' = [i \in Id |-> IF Taken(i) = {} THEN enabled_priority[i]
                                           ELSE ItemPriority(The(i), i)]
  BY Zenon DEF ApplyGroups
<1>2. \A i \in Id :
        /\ enabled'[i] = IF Taken(i) = {} THEN enabled[i] ELSE OnOff(on[The(i)])
        /\ enabled_priority'[i] = IF Taken(i) = {} THEN enabled_priority[i]
                                  ELSE ItemPriority(The(i), i)
  BY <1>1, Zenon
<1>3. FunctionsKept
  <2> HIDE DEF Taken, The
  <2>1. enabled' = [i \in Id |-> enabled'[i]] BY <1>1
  <2>2. enabled_priority' = [i \in Id |-> enabled_priority'[i]] BY <1>1
  <2>3. group_enabled' \in [Group -> Setting] BY <1>1 DEF SettingsOK, OnOff, Setting
  <2> QED BY <2>1, <2>2, <2>3 DEF FunctionsKept
<1>4. \A g \in Group : group_enabled'[g] = IF g \in gs THEN OnOff(on[g]) ELSE group_enabled[g]
  BY <1>1, Zenon
<1>5. ASSUME NEW i \in Id, \A g \in gs : GroupWord(i, g, on[g]) = {}
      PROVE  WordTaken(i, {})
  <2>1. Taken(i) = {} BY <1>5 DEF GroupWord, SpeaksFor
  <2> QED BY <1>2, <2>1 DEF WordTaken
<1>6. ASSUME NEW i \in Id, NEW g \in gs, g \in Info[i].groups,
             \A h \in gs : h \in Info[i].groups => h = g
      PROVE  WordTaken(i, GroupWord(i, g, on[g]))
  <2> DEFINE p == ItemPriority(g, i)
             b == on[g]
  <2>0. p \in 1 .. 3 /\ b \in BOOLEAN /\ enabled_priority[i] \in 0 .. 3
    BY ItemPriorityType DEF SettingsOK
  <2>1. CASE InBoth(i)
    <3>1. Taken(i) = {} /\ GroupWord(i, g, b) = {} BY <2>1 DEF GroupWord, SpeaksFor
    <3> QED BY <1>2, <3>1 DEF WordTaken
  <2>2. CASE ~InBoth(i) /\ enabled_priority[i] <= p
    <3>1. Taken(i) = {g} BY <1>6, <2>2 DEF SpeaksFor
    <3>2. The(i) = g /\ Taken(i) # {} BY <3>1
    <3>3. GroupWord(i, g, b) = {<<p, b>>} BY <1>6, <2>2 DEF GroupWord
    <3>4. enabled'[i] = OnOff(b) /\ enabled_priority'[i] = p
      <4> HIDE DEF Taken, The
      <4> QED BY <1>2, <3>2
    <3> HIDE DEF p
    <3> QED BY <2>0, <2>2, <3>3, <3>4 DEF WordTaken
  <2>3. CASE ~InBoth(i) /\ ~(enabled_priority[i] <= p)
    <3>1. Taken(i) = {} BY <1>6, <2>3 DEF SpeaksFor
    <3>2. GroupWord(i, g, b) = {<<p, b>>} BY <1>6, <2>3 DEF GroupWord
    <3>3. enabled'[i] = enabled[i] /\ enabled_priority'[i] = enabled_priority[i]
      <4> HIDE DEF Taken, The
      <4> QED BY <1>2, <3>1
    <3> HIDE DEF p
    <3> QED BY <2>0, <2>3, <3>2, <3>3 DEF WordTaken
  <2> QED BY <2>1, <2>2, <2>3
<1> QED BY <1>3, <1>4, <1>5, <1>6

OptionTaken(o) ==
  /\ FunctionsKept
  /\ \A i \in Id : WordTaken(i, EnableWord(o, i))
  /\ \A g \in {"all", "extra", "unused"} :
       group_enabled'[g] = IF SetsGroup(o, g) THEN OnOff(o.on) ELSE group_enabled[g]

LEMMA GroupOption ==
  ASSUME SettingsOK, NEW o, o.name \in Group, o.on \in BOOLEAN,
         o.what = "group" \/ (o.what = "error=group" /\ o.on), ApplyGroup(o.name, o.on)
  PROVE  OptionTaken(o)
<1> DEFINE gs == {o.name}
           on == [x \in gs |-> o.on]
<1>1. gs \in SUBSET Group /\ on \in [gs -> BOOLEAN] /\ on[o.name] = o.on /\ o.name \in gs
  OBVIOUS
<1>2. ApplyGroups(gs, on) BY Zenon DEF ApplyGroup
<1> HIDE DEF on
<1>3. /\ FunctionsKept
      /\ \A g \in Group : group_enabled'[g] = IF g \in gs THEN OnOff(on[g]) ELSE group_enabled[g]
      /\ \A i \in Id : (\A g \in gs : GroupWord(i, g, on[g]) = {}) => WordTaken(i, {})
      /\ \A i \in Id, g \in gs :
           (g \in Info[i].groups /\ \A h \in gs : h \in Info[i].groups => h = g)
             => WordTaken(i, GroupWord(i, g, on[g]))
  <2> HIDE DEF gs
  <2> QED BY <1>1, <1>2, GroupsEffect
<1>4. ASSUME NEW i \in Id PROVE WordTaken(i, EnableWord(o, i))
  <2>1. EnableWord(o, i) = GroupWord(i, o.name, o.on) BY DEF EnableWord
  <2>2. CASE o.name \in Info[i].groups
    <3>1. WordTaken(i, GroupWord(i, o.name, on[o.name])) BY <1>3, <2>2
    <3> QED BY <1>1, <2>1, <3>1
  <2>3. CASE o.name \notin Info[i].groups
    <3>1. GroupWord(i, o.name, o.on) = {} BY <2>3 DEF GroupWord
    <3>2. WordTaken(i, {}) BY <1>1, <1>3, <3>1
    <3> QED BY <2>1, <3>1, <3>2
  <2> QED BY <2>2, <2>3
<1>5. ASSUME NEW g \in {"all", "extra", "unused"}
      PROVE  group_enabled'[g] = IF SetsGroup(o, g) THEN OnOff(o.on) ELSE group_enabled[g]
  <2>1. g \in Group BY DEF Group
  <2>2. SetsGroup(o, g) <=> g \in gs BY DEF SetsGroup
  <2> QED BY <1>1, <1>3, <2>1, <2>2
<1> QED BY <1>3, <1>4, <1>5 DEF OptionTaken

LEMMA FormatOption ==
  ASSUME TablesOK, SettingsOK, NEW o, o.name \in 0 .. 2, o.on = TRUE,
         o.what \in {"format", "error=format"}, ApplyFormatLevel(o.name)
  PROVE  OptionTaken(o)
<1> DEFINE gs == {"format", "format2"}
           on == [g \in gs |-> IF g = "format" THEN o.name # 0 ELSE o.name = 2]
<1>1. /\ gs \in SUBSET Group /\ on \in [gs -> BOOLEAN]
      /\ on["format"] = (o.name # 0) /\ on["format2"] = (o.name = 2)
  BY DEF Group
<1>2. ApplyGroups(gs, on) BY Zenon DEF ApplyFormatLevel
<1> HIDE DEF on
<1>3. /\ FunctionsKept
      /\ \A g \in Group : group_enabled'[g] = IF g \in gs THEN OnOff(on[g]) ELSE group_enabled[g]
      /\ \A i \in Id : (\A g \in gs : GroupWord(i, g, on[g]) = {}) => WordTaken(i, {})
      /\ \A i \in Id, g \in gs :
           (g \in Info[i].groups /\ \A h \in gs : h \in Info[i].groups => h = g)
             => WordTaken(i, GroupWord(i, g, on[g]))
  <2> HIDE DEF gs
  <2> QED BY <1>1, <1>2, GroupsEffect
<1>4. ASSUME NEW i \in Id PROVE WordTaken(i, EnableWord(o, i))
  <2>1. EnableWord(o, i) = GroupWord(i, "format", on["format"])
                             \cup GroupWord(i, "format2", on["format2"])
    BY <1>1 DEF EnableWord, FormatWord
  <2>2. ~("format" \in Info[i].groups /\ "format2" \in Info[i].groups) BY DEF TablesOK
  <2>3. ASSUME NEW g \in gs, g \notin Info[i].groups PROVE GroupWord(i, g, on[g]) = {}
    BY <2>3 DEF GroupWord
  <2>4. CASE "format" \in Info[i].groups
    <3>1. EnableWord(o, i) = GroupWord(i, "format", on["format"]) BY <2>1, <2>2, <2>3, <2>4
    <3>2. WordTaken(i, GroupWord(i, "format", on["format"])) BY <1>3, <2>2, <2>4
    <3> QED BY <3>1, <3>2
  <2>5. CASE "format2" \in Info[i].groups
    <3>1. EnableWord(o, i) = GroupWord(i, "format2", on["format2"]) BY <2>1, <2>2, <2>3, <2>5
    <3>2. WordTaken(i, GroupWord(i, "format2", on["format2"])) BY <1>3, <2>2, <2>5
    <3> QED BY <3>1, <3>2
  <2>6. CASE "format" \notin Info[i].groups /\ "format2" \notin Info[i].groups
    <3>1. EnableWord(o, i) = {} BY <2>1, <2>3, <2>6
    <3>2. WordTaken(i, {}) BY <1>3, <2>3, <2>6
    <3> QED BY <3>1, <3>2
  <2> QED BY <2>4, <2>5, <2>6
<1>5. ASSUME NEW g \in {"all", "extra", "unused"}
      PROVE  group_enabled'[g] = IF SetsGroup(o, g) THEN OnOff(o.on) ELSE group_enabled[g]
  <2>1. g \in Group /\ g \notin gs BY DEF Group
  <2>2. ~SetsGroup(o, g) BY DEF SetsGroup
  <2> QED BY <1>3, <2>1, <2>2
<1> QED BY <1>3, <1>4, <1>5 DEF OptionTaken

LEMMA ExactOption ==
  ASSUME SettingsOK, NEW o, o.name \in Id, o.on \in BOOLEAN,
         o.what = "exact" \/ (o.what = "error=exact" /\ o.on), Exact(o.name, o.on)
  PROVE  OptionTaken(o)
<1>1. /\ enabled' = [enabled EXCEPT ![o.name] = OnOff(o.on)]
      /\ enabled_priority' = [enabled_priority EXCEPT ![o.name] = 3]
      /\ group_enabled' = group_enabled
  BY DEF Exact
<1>2. enabled \in [Id -> Setting] /\ enabled_priority \in [Id -> 0 .. 3]
        /\ group_enabled \in [Group -> Setting]
  BY DEF SettingsOK
<1>3. FunctionsKept BY <1>1, <1>2 DEF FunctionsKept
<1>4. ASSUME NEW i \in Id PROVE WordTaken(i, EnableWord(o, i))
  <2>1. CASE i = o.name
    <3>1. EnableWord(o, i) = {<<3, o.on>>} BY <2>1 DEF EnableWord
    <3>2. /\ enabled'[i] = OnOff(o.on) /\ enabled_priority'[i] = 3
          /\ enabled_priority[i] <= 3 /\ 3 \in 1 .. 3
      BY <1>1, <1>2, <2>1
    <3> QED BY <3>1, <3>2 DEF WordTaken
  <2>2. CASE i # o.name
    <3>1. EnableWord(o, i) = {} BY <2>2 DEF EnableWord
    <3>2. enabled'[i] = enabled[i] /\ enabled_priority'[i] = enabled_priority[i]
      BY <1>1, <1>2, <2>2
    <3> QED BY <3>1, <3>2 DEF WordTaken
  <2> QED BY <2>1, <2>2
<1>5. ASSUME NEW g \in {"all", "extra", "unused"} PROVE ~SetsGroup(o, g) BY DEF SetsGroup
<1> QED BY <1>1, <1>3, <1>4, <1>5 DEF OptionTaken

LEMMA OtherOption ==
  ASSUME SettingsOK, NEW o,
         \/ o.what \in {"w", "pedantic", "pedantic-errors", "error", "system-headers"}
         \/ o.what \in {"error=group", "error=exact", "error=format"} /\ ~o.on,
         NoneEnabled
  PROVE  OptionTaken(o)
<1>1. UNCHANGED <<enabled, enabled_priority, group_enabled>> BY DEF NoneEnabled
<1>2. FunctionsKept BY <1>1 DEF FunctionsKept, SettingsOK
<1>3. ASSUME NEW i \in Id PROVE EnableWord(o, i) = {} BY DEF EnableWord
<1>4. ASSUME NEW i \in Id PROVE WordTaken(i, EnableWord(o, i)) BY <1>1, <1>3 DEF WordTaken
<1>5. ASSUME NEW g \in {"all", "extra", "unused"} PROVE ~SetsGroup(o, g) BY DEF SetsGroup
<1> QED BY <1>1, <1>2, <1>4, <1>5 DEF OptionTaken

LEMMA OptionEffect ==
  ASSUME TablesOK, SettingsOK, NEW o \in OptionType, SetEnabled(o)
  PROVE  OptionTaken(o)
<1>1. CASE o.what = "group"
  <2>1. o.name \in Group /\ o.on \in BOOLEAN BY <1>1 DEF OptionType
  <2>2. ApplyGroup(o.name, o.on) BY <1>1 DEF SetEnabled
  <2> QED BY <1>1, <2>1, <2>2, GroupOption
<1>2. CASE o.what = "exact"
  <2>1. o.name \in Id /\ o.on \in BOOLEAN BY <1>2 DEF OptionType
  <2>2. Exact(o.name, o.on) BY <1>2 DEF SetEnabled
  <2> QED BY <1>2, <2>1, <2>2, ExactOption
<1>3. CASE o.what = "format"
  <2>1. o.name \in 0 .. 2 /\ o.on = TRUE BY <1>3 DEF OptionType
  <2>2. ApplyFormatLevel(o.name) BY <1>3 DEF SetEnabled
  <2> QED BY <1>3, <2>1, <2>2, FormatOption
<1>4. CASE o.what = "error=group" /\ o.on
  <2>1. o.name \in Group /\ o.on = TRUE BY <1>4 DEF OptionType
  <2>2. ApplyGroup(o.name, o.on) BY <1>4, <2>1 DEF SetEnabled
  <2> QED BY <1>4, <2>1, <2>2, GroupOption
<1>5. CASE o.what = "error=exact" /\ o.on
  <2>1. o.name \in Id /\ o.on = TRUE BY <1>5 DEF OptionType
  <2>2. Exact(o.name, o.on) BY <1>5, <2>1 DEF SetEnabled
  <2> QED BY <1>5, <2>1, <2>2, ExactOption
<1>6. CASE o.what = "error=format" /\ o.on
  <2>1. o.name \in 0 .. 2 /\ o.on = TRUE BY <1>6 DEF OptionType
  <2>2. ApplyFormatLevel(o.name) BY <1>6 DEF SetEnabled
  <2> QED BY <1>6, <2>1, <2>2, FormatOption
<1>7. CASE \/ o.what \in {"w", "pedantic", "pedantic-errors", "error", "system-headers"}
           \/ o.what \in {"error=group", "error=exact", "error=format"} /\ ~o.on
  <2>1. NoneEnabled BY <1>7 DEF SetEnabled
  <2> QED BY <1>7, <2>1, OtherOption
<1>8. o.what \in {"group", "exact", "format", "error=group", "error=exact", "error=format",
                  "w", "pedantic", "pedantic-errors", "error", "system-headers"}
  BY DEF OptionType
<1> QED BY <1>1, <1>2, <1>3, <1>4, <1>5, <1>6, <1>7, <1>8

PromotionsOK ==
  /\ promoted \in [Id -> Setting] /\ promoted_priority \in [Id -> 0 .. 3]
  /\ \A i \in Id : (promoted[i] = "unset") <=> (promoted_priority[i] = 0)

LEMMA GroupPromotion ==
  ASSUME PromotionsOK, NEW gs, NEW on \in BOOLEAN, PromoteGroups(gs, on)
  PROVE  PromotionsOK'
<1> DEFINE Taken(i) == {g \in gs : g \in Info[i].groups /\ promoted_priority[i] <= Priority(g)}
<1>1. /\ promoted' = [i \in Id |-> IF Taken(i) = {} THEN promoted[i] ELSE OnOff(on)]
      /\ promoted_priority' = [i \in Id |-> IF Taken(i) = {} THEN promoted_priority[i]
                                           ELSE Priority(CHOOSE g \in Taken(i) : TRUE)]
  BY DEF PromoteGroups
<1>2. OnOff(on) \in {"on", "off"} BY DEF OnOff
<1>3. \A g : Priority(g) \in 1 .. 2 BY DEF Priority
<1> HIDE DEF Taken
<1>4. ASSUME NEW i \in Id
      PROVE  /\ promoted'[i] \in Setting /\ promoted_priority'[i] \in 0 .. 3
             /\ (promoted'[i] = "unset") <=> (promoted_priority'[i] = 0)
  <2>1. CASE Taken(i) = {}
    BY <1>1, <2>1 DEF PromotionsOK
  <2>2. CASE Taken(i) # {}
    <3>1. promoted'[i] \in {"on", "off"} /\ promoted_priority'[i] \in 1 .. 2
      BY <1>1, <1>2, <1>3, <2>2
    <3> QED BY <3>1 DEF Setting
  <2> QED BY <2>1, <2>2
<1>5. promoted' \in [Id -> Setting] /\ promoted_priority' \in [Id -> 0 .. 3]
  <2>1. promoted' = [i \in Id |-> promoted'[i]] BY <1>1
  <2>2. promoted_priority' = [i \in Id |-> promoted_priority'[i]] BY <1>1
  <2> QED BY <1>4, <2>1, <2>2
<1> QED BY <1>4, <1>5 DEF PromotionsOK

LEMMA ExactPromotion ==
  ASSUME PromotionsOK, NEW i, NEW on \in BOOLEAN, PromoteExact(i, on)
  PROVE  PromotionsOK'
<1>1. OnOff(on) \in {"on", "off"} BY DEF OnOff
<1>2. /\ promoted' = [promoted EXCEPT ![i] = OnOff(on)]
      /\ promoted_priority' = [promoted_priority EXCEPT ![i] = 3]
  BY DEF PromoteExact
<1>3. promoted' \in [Id -> Setting] BY <1>1, <1>2 DEF PromotionsOK, Setting
<1>4. promoted_priority' \in [Id -> 0 .. 3]
  <2>1. 3 \in 0 .. 3 OBVIOUS
  <2> QED BY <1>2, <2>1, Zenon DEF PromotionsOK
<1>5. ASSUME NEW j \in Id PROVE (promoted'[j] = "unset") <=> (promoted_priority'[j] = 0)
  <2>1. CASE j = i
    <3>1. promoted'[j] = OnOff(on) /\ promoted_priority'[j] = 3
      BY <1>2, <2>1 DEF PromotionsOK
    <3> QED BY <1>1, <3>1
  <2>2. CASE j # i BY <1>2, <2>2 DEF PromotionsOK
  <2> QED BY <2>1, <2>2
<1> QED BY <1>3, <1>4, <1>5 DEF PromotionsOK

LEMMA PromoteEffect ==
  ASSUME PromotionsOK, NEW o \in OptionType, SetPromoted(o)
  PROVE  PromotionsOK'
<1>0. o.on \in BOOLEAN BY DEF OptionType
<1>1. CASE o.what = "error=group"
  <2>1. PromoteGroups({o.name}, o.on) BY <1>1 DEF SetPromoted
  <2> QED BY <1>0, <2>1, GroupPromotion
<1>2. CASE o.what = "error=exact"
  <2>1. PromoteExact(o.name, o.on) BY <1>2 DEF SetPromoted
  <2> QED BY <1>0, <2>1, ExactPromotion
<1>3. CASE o.what = "error=format" /\ ~o.on
  <2>1. PromoteExact(Format, FALSE) BY <1>3 DEF SetPromoted
  <2> QED BY <2>1, ExactPromotion
<1>4. CASE o.what = "error=format" /\ o.on /\ o.name > 0
  <2>1. PromoteGroups(IF o.name = 2 THEN {"format", "format2"} ELSE {"format"}, TRUE)
    BY <1>4 DEF SetPromoted
  <2>2. CASE o.name = 2
    <3>1. PromoteGroups({"format", "format2"}, TRUE) BY <2>1, <2>2
    <3> QED BY <3>1, GroupPromotion
  <2>3. CASE o.name # 2
    <3>1. PromoteGroups({"format"}, TRUE) BY <2>1, <2>3
    <3> QED BY <3>1, GroupPromotion
  <2> QED BY <2>2, <2>3
<1>5. CASE \/ o.what \notin {"error=group", "error=exact", "error=format"}
           \/ o.what = "error=format" /\ o.on /\ ~(o.name > 0)
  <2>1. NonePromoted BY <1>5 DEF SetPromoted
  <2> QED BY <2>1 DEF NonePromoted, PromotionsOK
<1> QED BY <1>0, <1>1, <1>2, <1>3, <1>4, <1>5

LEMMA FlagsEffect ==
  ASSUME flags \in FlagType, NEW o \in OptionType, SetFlags(o)
  PROVE  /\ flags' \in FlagType
         /\ flags'.fsafe = flags.fsafe
         /\ flags.inhibit => flags'.inhibit
         /\ o.what = "w" => flags'.inhibit
<1>0. o.on \in BOOLEAN BY DEF OptionType
<1>1. CASE o.what = "w" BY <1>1 DEF SetFlags, FlagType
<1>2. CASE o.what = "pedantic" BY <1>2 DEF SetFlags, FlagType
<1>3. CASE o.what = "pedantic-errors" BY <1>3 DEF SetFlags, FlagType
<1>4. CASE o.what = "error" BY <1>0, <1>4 DEF SetFlags, FlagType
<1>5. CASE o.what = "system-headers" BY <1>0, <1>5 DEF SetFlags, FlagType
<1>6. CASE o.what = "group" /\ o.name = "pedantic"
  <2>1. flags' = [flags EXCEPT !.pedantic = IF o.on THEN 1 ELSE 0] BY <1>6 DEF SetFlags
  <2> QED BY <1>6, <2>1 DEF FlagType
<1>7. CASE /\ o.what \notin {"w", "pedantic", "pedantic-errors", "error", "system-headers"}
           /\ ~(o.what = "group" /\ o.name = "pedantic")
  <2>1. flags' = flags BY <1>7 DEF SetFlags
  <2> QED BY <1>7, <2>1
<1> QED BY <1>1, <1>2, <1>3, <1>4, <1>5, <1>6, <1>7

LEMMA WordType ==
  ASSUME NEW o \in OptionType, NEW i, NEW v \in EnableWord(o, i)
  PROVE  v[1] \in 1 .. 3 /\ v[2] \in BOOLEAN
<1>1. ASSUME NEW g, NEW b \in BOOLEAN, v \in GroupWord(i, g, b)
      PROVE  v[1] \in 1 .. 3 /\ v[2] \in BOOLEAN
  <2>1. v = <<ItemPriority(g, i), b>> BY <1>1 DEF GroupWord
  <2> QED BY <2>1, ItemPriorityType
<1>2. o.on \in BOOLEAN BY DEF OptionType
<1>3. CASE \E g : \E b \in BOOLEAN : v \in GroupWord(i, g, b)
  BY <1>1, <1>3
<1>4. CASE o.what = "group" \/ (o.what = "error=group" /\ o.on)
  <2>1. v \in GroupWord(i, o.name, o.on) BY <1>2, <1>4 DEF EnableWord
  <2> QED BY <1>1, <1>2, <2>1
<1>5. CASE o.what \in {"format", "error=format"} /\ o.on
  <2>1. v \in FormatWord(i, o.name) BY <1>5 DEF EnableWord
  <2>2. v \in GroupWord(i, "format", o.name # 0) \/ v \in GroupWord(i, "format2", o.name = 2)
    BY <2>1 DEF FormatWord
  <2>3. (o.name # 0) \in BOOLEAN /\ (o.name = 2) \in BOOLEAN OBVIOUS
  <2> QED BY <1>1, <2>2, <2>3
<1>6. CASE o.what \in {"exact", "error=exact"} /\ o.name = i
  <2>1. v = <<3, o.on>> BY <1>6 DEF EnableWord
  <2> QED BY <1>2, <2>1
<1>7. CASE /\ ~(o.what = "group" \/ (o.what = "error=group" /\ o.on))
           /\ ~(o.what \in {"format", "error=format"} /\ o.on)
           /\ ~(o.what \in {"exact", "error=exact"} /\ o.name = i)
  <2>1. EnableWord(o, i) = {} BY <1>7 DEF EnableWord
  <2> QED BY <2>1
<1> QED BY <1>4, <1>5, <1>6, <1>7

LEMMA WordStaysKept ==
  ASSUME SettingsOK, NEW o \in OptionType, opts' = Append(opts, o),
         NEW i \in Id, WordKept(i), WordTaken(i, EnableWord(o, i))
  PROVE  WordKept(i)'
<1> DEFINE n == Len(opts)
<1>1. /\ n \in Nat /\ DOMAIN opts = 1 .. n /\ DOMAIN opts' = 1 .. n + 1
      /\ \A k \in 1 .. n : opts'[k] = opts[k] /\ opts[k] \in OptionType
      /\ opts'[n + 1] = o
  BY DEF SettingsOK
<1>2. enabled_priority[i] \in 0 .. 3 BY DEF SettingsOK
<1> HIDE DEF n
<1>3. ASSUME NEW k \in 1 .. n + 1, NEW v \in EnableWord(opts'[k], i)
      PROVE  v[1] \in 1 .. 3 /\ v[2] \in BOOLEAN
  <2>1. opts'[k] \in OptionType BY <1>1
  <2> QED BY <2>1, WordType
<1>4. ASSUME NEW k \in 1 .. n + 1, NEW w \in EnableWord(opts'[k], i),
             enabled_priority'[i] = w[1], enabled'[i] = OnOff(w[2]),
             \A j \in 1 .. n + 1 : \A v \in EnableWord(opts'[j], i) :
               v[1] < w[1] \/ (v[1] = w[1] /\ j <= k)
      PROVE  WordKept(i)'
  BY <1>1, <1>4, Zenon DEF WordKept
<1>5. CASE EnableWord(o, i) = {}
  <2>0. enabled'[i] = enabled[i] /\ enabled_priority'[i] = enabled_priority[i]
    BY <1>5 DEF WordTaken
  <2>1. CASE /\ enabled[i] = "unset" /\ enabled_priority[i] = 0
             /\ \A k \in DOMAIN opts : EnableWord(opts[k], i) = {}
    <3>1. \A k \in DOMAIN opts' : EnableWord(opts'[k], i) = {} BY <1>1, <1>5, <2>1
    <3> QED BY <2>0, <2>1, <3>1, Zenon DEF WordKept
  <2>2. CASE \E k \in DOMAIN opts : \E w \in EnableWord(opts[k], i) :
               /\ enabled_priority[i] = w[1] /\ enabled[i] = OnOff(w[2])
               /\ \A j \in DOMAIN opts : \A v \in EnableWord(opts[j], i) :
                    v[1] < w[1] \/ (v[1] = w[1] /\ j <= k)
    <3>1a. PICK k \in 1 .. n : \E w \in EnableWord(opts[k], i) :
            /\ enabled_priority[i] = w[1] /\ enabled[i] = OnOff(w[2])
            /\ \A j \in 1 .. n : \A v \in EnableWord(opts[j], i) :
                 v[1] < w[1] \/ (v[1] = w[1] /\ j <= k)
      BY <1>1, <2>2
    <3>1. PICK w \in EnableWord(opts[k], i) :
            /\ enabled_priority[i] = w[1] /\ enabled[i] = OnOff(w[2])
            /\ \A j \in 1 .. n : \A v \in EnableWord(opts[j], i) :
                 v[1] < w[1] \/ (v[1] = w[1] /\ j <= k)
      BY <3>1a
    <3>2. k \in 1 .. n + 1 /\ w \in EnableWord(opts'[k], i) BY <1>1
    <3>3. \A j \in 1 .. n + 1 : \A v \in EnableWord(opts'[j], i) :
            v[1] < w[1] \/ (v[1] = w[1] /\ j <= k)
      BY <1>1, <1>5, <3>1
    <3> QED BY <1>4, <2>0, <3>1, <3>2, <3>3
  <2> QED BY <2>1, <2>2, Zenon DEF WordKept
<1>6. CASE EnableWord(o, i) # {}
  <2>1. PICK p \in 1 .. 3, b \in BOOLEAN :
          /\ EnableWord(o, i) = {<<p, b>>}
          /\ IF enabled_priority[i] <= p
             THEN enabled'[i] = OnOff(b) /\ enabled_priority'[i] = p
             ELSE enabled'[i] = enabled[i] /\ enabled_priority'[i] = enabled_priority[i]
    BY <1>6 DEF WordTaken
  <2>2. CASE enabled_priority[i] <= p
    <3>1. <<p, b>> \in EnableWord(opts'[n + 1], i) /\ n + 1 \in 1 .. n + 1 BY <1>1, <2>1
    <3>2. ASSUME NEW j \in 1 .. n + 1, NEW v \in EnableWord(opts'[j], i)
          PROVE  v[1] < p \/ (v[1] = p /\ j <= n + 1)
      <4>0. v[1] \in 1 .. 3 BY <1>3
      <4>1. CASE j = n + 1 BY <1>1, <2>1, <4>1
      <4>2. CASE j \in 1 .. n
        <5>1. v \in EnableWord(opts[j], i) BY <1>1, <4>2
        <5>2a. PICK k \in 1 .. n : \E w \in EnableWord(opts[k], i) :
                /\ enabled_priority[i] = w[1]
                /\ \A m \in 1 .. n : \A x \in EnableWord(opts[m], i) :
                     x[1] < w[1] \/ (x[1] = w[1] /\ m <= k)
          BY <1>1, <4>2, <5>1 DEF WordKept
        <5>2. PICK w \in EnableWord(opts[k], i) :
                /\ enabled_priority[i] = w[1]
                /\ \A m \in 1 .. n : \A x \in EnableWord(opts[m], i) :
                     x[1] < w[1] \/ (x[1] = w[1] /\ m <= k)
          BY <5>2a
        <5> QED BY <1>1, <1>2, <2>2, <4>0, <4>2, <5>1, <5>2
      <4> QED BY <1>1, <4>1, <4>2
    <3>3. /\ enabled_priority'[i] = <<p, b>>[1] /\ enabled'[i] = OnOff(<<p, b>>[2])
          /\ <<p, b>>[1] = p
      BY <2>1, <2>2
    <3>4. \A j \in 1 .. n + 1 : \A v \in EnableWord(opts'[j], i) :
            v[1] < <<p, b>>[1] \/ (v[1] = <<p, b>>[1] /\ j <= n + 1)
      BY <3>2, <3>3
    <3> QED BY <1>4, <3>1, <3>3, <3>4
  <2>3. CASE ~(enabled_priority[i] <= p)
    <3>0. enabled_priority[i] > p /\ enabled_priority[i] # 0 BY <1>2, <2>3
    <3>1a. PICK k \in 1 .. n : \E w \in EnableWord(opts[k], i) :
            /\ enabled_priority[i] = w[1] /\ enabled[i] = OnOff(w[2])
            /\ \A j \in 1 .. n : \A v \in EnableWord(opts[j], i) :
                 v[1] < w[1] \/ (v[1] = w[1] /\ j <= k)
      BY <1>1, <3>0 DEF WordKept
    <3>1. PICK w \in EnableWord(opts[k], i) :
            /\ enabled_priority[i] = w[1] /\ enabled[i] = OnOff(w[2])
            /\ \A j \in 1 .. n : \A v \in EnableWord(opts[j], i) :
                 v[1] < w[1] \/ (v[1] = w[1] /\ j <= k)
      BY <3>1a
    <3>2. k \in 1 .. n + 1 /\ w \in EnableWord(opts'[k], i) BY <1>1
    <3>3. ASSUME NEW j \in 1 .. n + 1, NEW v \in EnableWord(opts'[j], i)
          PROVE  v[1] < w[1] \/ (v[1] = w[1] /\ j <= k)
      <4>1. CASE j = n + 1
        <5>1. v[1] = p BY <1>1, <2>1, <4>1
        <5> QED BY <3>0, <3>1, <5>1
      <4>2. CASE j \in 1 .. n BY <1>1, <3>1, <4>2
      <4> QED BY <1>1, <4>1, <4>2
    <3> QED BY <1>4, <2>1, <2>3, <3>1, <3>2, <3>3
  <2> QED BY <2>2, <2>3
<1> QED BY <1>5, <1>6

LEMMA GroupStaysKept ==
  ASSUME SettingsOK, NEW o \in OptionType, opts' = Append(opts, o),
         NEW g, GroupKept(g),
         group_enabled'[g] = IF SetsGroup(o, g) THEN OnOff(o.on) ELSE group_enabled[g]
  PROVE  GroupKept(g)'
<1> DEFINE n == Len(opts)
<1>1. /\ n \in Nat /\ DOMAIN opts = 1 .. n /\ DOMAIN opts' = 1 .. n + 1
      /\ \A k \in 1 .. n : opts'[k] = opts[k]
      /\ opts'[n + 1] = o
  BY DEF SettingsOK
<1> HIDE DEF n
<1>2. CASE SetsGroup(o, g)
  <2>1. /\ n + 1 \in DOMAIN opts' /\ SetsGroup(opts'[n + 1], g)
        /\ group_enabled'[g] = OnOff(opts'[n + 1].on)
        /\ \A j \in DOMAIN opts' : j <= n + 1
    BY <1>1, <1>2
  <2> QED BY <2>1, Zenon DEF GroupKept
<1>3. CASE ~SetsGroup(o, g)
  <2>1. CASE group_enabled[g] = "unset" /\ \A k \in DOMAIN opts : ~SetsGroup(opts[k], g)
    <3>1. \A k \in DOMAIN opts' : ~SetsGroup(opts'[k], g) BY <1>1, <1>3, <2>1
    <3> QED BY <1>3, <2>1, <3>1 DEF GroupKept
  <2>2. CASE \E k \in DOMAIN opts :
               /\ SetsGroup(opts[k], g) /\ group_enabled[g] = OnOff(opts[k].on)
               /\ \A j \in DOMAIN opts : SetsGroup(opts[j], g) => j <= k
    <3>1. PICK k \in DOMAIN opts :
            /\ SetsGroup(opts[k], g) /\ group_enabled[g] = OnOff(opts[k].on)
            /\ \A j \in DOMAIN opts : SetsGroup(opts[j], g) => j <= k
      BY <2>2
    <3>2. /\ k \in DOMAIN opts' /\ SetsGroup(opts'[k], g)
          /\ group_enabled'[g] = OnOff(opts'[k].on)
      BY <1>1, <1>3, <3>1
    <3>3. \A j \in DOMAIN opts' : SetsGroup(opts'[j], g) => j <= k
      BY <1>1, <1>3, <3>1
    <3> QED BY <3>2, <3>3, Zenon DEF GroupKept
  <2> QED BY <2>1, <2>2 DEF GroupKept
<1> QED BY <1>2, <1>3

LEMMA OptionKeeps ==
  ASSUME TablesOK, IInv, NEW o \in Option, ApplyOption(o)
  PROVE  IInv'
<1>0. o \in OptionType BY DEF TablesOK
<1>1. /\ ~parsing /\ opts' = Append(opts, o) /\ SetFlags(o) /\ SetEnabled(o) /\ SetPromoted(o)
      /\ UNCHANGED <<events, pragma_state, pragma_stack, seq, parsing>>
  BY DEF ApplyOption
<1>2. SettingsOK /\ ~flags.fsafe BY <1>1 DEF IInv, FlagsKept
<1>3. OptionTaken(o) BY <1>0, <1>1, <1>2, OptionEffect
<1>4. PromotionsOK'
  <2>1. PromotionsOK BY <1>2 DEF SettingsOK, PromotionsOK
  <2> QED BY <1>0, <1>1, <2>1, PromoteEffect
<1>5. /\ flags' \in FlagType /\ ~flags'.fsafe
      /\ flags.inhibit => flags'.inhibit
      /\ o.what = "w" => flags'.inhibit
  <2>1. flags \in FlagType BY <1>2 DEF SettingsOK
  <2> QED BY <1>0, <1>1, <1>2, <2>1, FlagsEffect
<1>6. ASSUME NEW i \in Id
      PROVE  /\ enabled'[i] \in Setting /\ enabled_priority'[i] \in 0 .. 3
             /\ (enabled'[i] = "unset") <=> (enabled_priority'[i] = 0)
  <2>1. WordTaken(i, EnableWord(o, i)) BY <1>3 DEF OptionTaken
  <2>2. /\ enabled[i] \in Setting /\ enabled_priority[i] \in 0 .. 3
        /\ (enabled[i] = "unset") <=> (enabled_priority[i] = 0)
    BY <1>2 DEF SettingsOK
  <2>3. CASE enabled'[i] = enabled[i] /\ enabled_priority'[i] = enabled_priority[i]
    BY <2>2, <2>3
  <2>4. CASE \E p \in 1 .. 3, b \in BOOLEAN : enabled'[i] = OnOff(b) /\ enabled_priority'[i] = p
    <3>1. PICK p \in 1 .. 3, b \in BOOLEAN : enabled'[i] = OnOff(b) /\ enabled_priority'[i] = p
      BY <2>4
    <3>2. OnOff(b) \in {"on", "off"} BY DEF OnOff
    <3> QED BY <3>1, <3>2 DEF Setting
  <2> QED BY <2>1, <2>3, <2>4 DEF WordTaken
<1>7. SettingsOK'
  <2>1. FunctionsKept BY <1>3 DEF OptionTaken
  <2>2. enabled' \in [Id -> Setting] /\ enabled_priority' \in [Id -> 0 .. 3]
    BY <1>6, <2>1 DEF FunctionsKept
  <2>3. group_enabled' \in [Group -> Setting] BY <2>1 DEF FunctionsKept
  <2>4. opts' \in Seq(OptionType) BY <1>0, <1>1, <1>2 DEF SettingsOK
  <2>5. parsing' \in BOOLEAN BY <1>1, <1>2 DEF SettingsOK
  <2> QED BY <1>4, <1>5, <1>6, <2>2, <2>3, <2>4, <2>5 DEF SettingsOK, PromotionsOK
<1>8. EventsOK' BY <1>1 DEF IInv, EventsOK
<1>9. FlagsKept'
  <2>1. ASSUME NEW k \in DOMAIN opts', opts'[k].what = "w" PROVE flags'.inhibit
    <3>1. CASE k = Len(opts) + 1
      <4>1. opts'[k] = o BY <1>1, <1>2, <3>1 DEF SettingsOK
      <4> QED BY <1>5, <2>1, <4>1
    <3>2. CASE k # Len(opts) + 1
      <4>1. k \in DOMAIN opts /\ opts'[k] = opts[k] BY <1>1, <1>2, <3>2 DEF SettingsOK
      <4> QED BY <1>5, <2>1, <4>1 DEF IInv, FlagsKept
    <3> QED BY <3>1, <3>2
  <2> QED BY <1>5, <2>1 DEF FlagsKept
<1>10. WordsKept'
  <2>1. ASSUME NEW i \in Id PROVE WordKept(i)'
    <3>1. WordKept(i) BY <1>2 DEF IInv, WordsKept
    <3>2. WordTaken(i, EnableWord(o, i)) BY <1>3 DEF OptionTaken
    <3> QED BY <1>0, <1>1, <1>2, <3>1, <3>2, WordStaysKept
  <2>2. ASSUME NEW g \in {"all", "extra", "unused"} PROVE GroupKept(g)'
    <3>1. GroupKept(g) BY <1>2 DEF IInv, WordsKept
    <3>2. group_enabled'[g] = IF SetsGroup(o, g) THEN OnOff(o.on) ELSE group_enabled[g]
      BY <1>3 DEF OptionTaken
    <3> QED BY <1>0, <1>1, <1>2, <3>1, <3>2, GroupStaysKept
  <2> QED BY <2>1, <2>2 DEF WordsKept
<1>11. BlocksKept' BY <1>1 DEF IInv, BlocksKept
<1> QED BY <1>7, <1>8, <1>9, <1>10, <1>11 DEF IInv

LEMMA BeginKeeps == ASSUME IInv, Begin PROVE IInv'
<1>1. parsing' = TRUE /\ UNCHANGED <<policy, events, pragma_state, pragma_stack, seq>>
  BY DEF Begin
<1>2. /\ opts' = opts /\ enabled' = enabled /\ enabled_priority' = enabled_priority
      /\ promoted' = promoted /\ promoted_priority' = promoted_priority
      /\ group_enabled' = group_enabled /\ flags' = flags
  BY <1>1 DEF policy, settings
<1>3. SettingsOK' BY <1>1, <1>2 DEF IInv, SettingsOK
<1>4. EventsOK' BY <1>1 DEF IInv, EventsOK
<1>5. FlagsKept' BY <1>1, <1>2 DEF IInv, FlagsKept
<1>6. WordsKept' BY <1>2 DEF IInv, WordsKept, WordKept, GroupKept
<1>7. BlocksKept' BY <1>1 DEF IInv, BlocksKept
<1> QED BY <1>3, <1>4, <1>5, <1>6, <1>7 DEF IInv

LEMMA BeginSafeKeeps == ASSUME IInv, BeginSafe PROVE IInv'
<1> DEFINE mem(i, p) == "mem" \in Info[i].groups /\ p[i] <= Priority("mem")
           Raised(st, p) == [i \in Id |-> IF i = Uninitialized \/ mem(i, p) THEN "on" ELSE st[i]]
           Rank(p) == [i \in Id |-> CASE i = Uninitialized -> 3
                                      [] i # Uninitialized /\ mem(i, p) -> 2
                                      [] OTHER -> p[i]]
<1>1. /\ ~flags.inhibit /\ parsing' = TRUE /\ flags' = [flags EXCEPT !.fsafe = TRUE]
      /\ enabled' = Raised(enabled, enabled_priority)
      /\ enabled_priority' = Rank(enabled_priority)
      /\ promoted' = Raised(promoted, promoted_priority)
      /\ promoted_priority' = Rank(promoted_priority)
      /\ group_enabled' = [group_enabled EXCEPT !["mem"] = "on"]
      /\ UNCHANGED <<opts, level, events, pragma_state, pragma_stack, seq>>
  BY DEF BeginSafe
<1> HIDE DEF mem
<1>2. ASSUME NEW st \in [Id -> Setting], NEW p \in [Id -> 0 .. 3],
             \A i \in Id : (st[i] = "unset") <=> (p[i] = 0)
      PROVE  /\ Raised(st, p) \in [Id -> Setting] /\ Rank(p) \in [Id -> 0 .. 3]
             /\ \A i \in Id : (Raised(st, p)[i] = "unset") <=> (Rank(p)[i] = 0)
  <2>1. ASSUME NEW i \in Id
        PROVE  /\ Raised(st, p)[i] \in Setting /\ Rank(p)[i] \in 0 .. 3
               /\ (Raised(st, p)[i] = "unset") <=> (Rank(p)[i] = 0)
    <3>1. CASE i = Uninitialized
      <4>1. Raised(st, p)[i] = "on" /\ Rank(p)[i] = 3 BY <3>1
      <4> QED BY <4>1 DEF Setting
    <3>2. CASE i # Uninitialized /\ mem(i, p)
      <4>1. Raised(st, p)[i] = "on" /\ Rank(p)[i] = 2 BY <3>2
      <4> QED BY <4>1 DEF Setting
    <3>3. CASE i # Uninitialized /\ ~mem(i, p)
      <4>1. Raised(st, p)[i] = st[i] /\ Rank(p)[i] = p[i] BY <3>3
      <4> QED BY <1>2, <4>1
    <3> QED BY <3>1, <3>2, <3>3
  <2>2. /\ Raised(st, p) = [i \in Id |-> Raised(st, p)[i]]
        /\ Rank(p) = [i \in Id |-> Rank(p)[i]]
    OBVIOUS
  <2> HIDE DEF Raised, Rank
  <2> QED BY <2>1, <2>2
<1> HIDE DEF Raised, Rank
<1>3. SettingsOK'
  <2>1. SettingsOK BY DEF IInv
  <2>2. /\ enabled' \in [Id -> Setting] /\ enabled_priority' \in [Id -> 0 .. 3]
        /\ \A i \in Id : (enabled'[i] = "unset") <=> (enabled_priority'[i] = 0)
    BY <1>1, <1>2, <2>1 DEF SettingsOK
  <2>3. /\ promoted' \in [Id -> Setting] /\ promoted_priority' \in [Id -> 0 .. 3]
        /\ \A i \in Id : (promoted'[i] = "unset") <=> (promoted_priority'[i] = 0)
    BY <1>1, <1>2, <2>1 DEF SettingsOK
  <2>4. group_enabled' \in [Group -> Setting] BY <1>1, <2>1 DEF SettingsOK, Setting
  <2>5. flags' \in FlagType BY <1>1, <2>1 DEF SettingsOK, FlagType
  <2>6. parsing' \in BOOLEAN /\ opts' \in Seq(OptionType) BY <1>1, <2>1 DEF SettingsOK
  <2> QED BY <2>2, <2>3, <2>4, <2>5, <2>6 DEF SettingsOK
<1>4. flags'.fsafe = TRUE /\ flags'.inhibit = flags.inhibit
  BY <1>1 DEF IInv, SettingsOK, FlagType
<1>5. EventsOK' BY <1>1 DEF IInv, EventsOK
<1>6. FlagsKept' BY <1>1, <1>4 DEF IInv, FlagsKept
<1>7. WordsKept' BY <1>4 DEF WordsKept
<1>8. BlocksKept' BY <1>1 DEF IInv, BlocksKept
<1> QED BY <1>3, <1>5, <1>6, <1>7, <1>8 DEF IInv

-----------------------------------------------------------------------------
LEMMA InitHolds == ASSUME NewContext PROVE IInv
<1>1. SettingsOK
  <2>1. flags \in FlagType BY DEF NewContext, FlagType
  <2>2. enabled \in [Id -> Setting] /\ promoted \in [Id -> Setting]
          /\ group_enabled \in [Group -> Setting]
    BY DEF NewContext, Setting
  <2>3. enabled_priority \in [Id -> 0 .. 3] /\ promoted_priority \in [Id -> 0 .. 3]
    BY DEF NewContext
  <2>4. \A i \in Id : /\ (enabled[i] = "unset") <=> (enabled_priority[i] = 0)
                      /\ (promoted[i] = "unset") <=> (promoted_priority[i] = 0)
    BY DEF NewContext
  <2>5. opts \in Seq(OptionType)
    <3>1. opts = <<>> BY DEF NewContext
    <3> QED BY <3>1
  <2>6. parsing \in BOOLEAN
    <3>1. parsing = FALSE BY DEF NewContext
    <3> QED BY <3>1
  <2> QED BY <2>1, <2>2, <2>3, <2>4, <2>5, <2>6 DEF SettingsOK
<1>2. EventsOK
  <2>1. pragma_state \in ClassMap BY DEF NewContext, Baseline, ClassMap, Class
  <2> QED BY <2>1 DEF NewContext, EventsOK
<1>3. opts = <<>> /\ DOMAIN opts = {} BY DEF NewContext
<1>4. FlagsKept BY <1>3 DEF NewContext, FlagsKept
<1>5. WordsKept
  <2>1. ASSUME NEW i \in Id PROVE enabled[i] = "unset" /\ enabled_priority[i] = 0 BY DEF NewContext
  <2>2. ASSUME NEW i \in Id PROVE WordKept(i) BY <1>3, <2>1 DEF WordKept
  <2>3. ASSUME NEW g \in {"all", "extra", "unused"} PROVE GroupKept(g)
    BY <1>3 DEF NewContext, GroupKept, Group
  <2> QED BY <2>2, <2>3 DEF WordsKept
<1>6. BlocksKept
  <2>1. /\ events = <<>> /\ Len(events) = 0 /\ DOMAIN events = {} /\ events \in Seq(EventType)
        /\ pragma_stack = <<>> /\ Len(pragma_stack) = 0 /\ DOMAIN pragma_stack = {}
    BY DEF NewContext
  <2>2. Depth(events)[0] = 0 BY <2>1, DepthFacts
  <2>3. ASSUME NEW i \in Id PROVE IsClass(events, i, 0, 0, pragma_state[i])
    <3>1. SetsAfter(events, i, 0, 0) = {} BY DEF SetsAfter
    <3>2. pragma_state[i] = None BY DEF NewContext, Baseline
    <3> QED BY <3>1, <3>2 DEF IsClass, LastClass
  <2> QED BY <2>1, <2>2, <2>3 DEF BlocksKept
<1> QED BY <1>1, <1>2, <1>4, <1>5, <1>6 DEF IInv

LEMMA StepHolds == ASSUME TablesOK, IInv, [WarnNext]_warnVars PROVE IInv'
<1>1. ASSUME NEW o \in Option, ApplyOption(o) PROVE IInv' BY <1>1, OptionKeeps
<1>2. CASE Begin BY <1>2, BeginKeeps
<1>3. CASE BeginSafe BY <1>3, BeginSafeKeeps
<1>4. CASE PragmaPush BY <1>4, PushKeeps
<1>5. CASE PragmaPop BY <1>5, PopKeeps
<1>6. ASSUME NEW i \in Id, NEW class \in Pragma, PragmaSet(i, class) PROVE IInv'
  BY <1>6, PragmaSetKeeps
<1>7. CASE UNCHANGED warnVars
  <2>1. UNCHANGED policy /\ UNCHANGED <<events, pragma_state, pragma_stack, seq, parsing>>
    BY <1>7 DEF warnVars
  <2>2. SettingsOK' /\ FlagsKept' /\ WordsKept' BY <2>1, PolicyUnchanged DEF IInv
  <2>3. EventsOK' BY <2>1 DEF IInv, EventsOK
  <2>4. BlocksKept' BY <2>1 DEF IInv, BlocksKept
  <2> QED BY <2>2, <2>3, <2>4 DEF IInv
<1> QED BY <1>1, <1>2, <1>3, <1>4, <1>5, <1>6, <1>7 DEF WarnNext

LEMMA ReplayIsClass ==
  ASSUME EventsOK, BlocksKept
  PROVE  \A k \in 0 .. Len(events) :
           /\ Replay(events)[k] \in ClassMap
           /\ \A i \in Id : IsClass(events, i, k, Depth(events)[k], Replay(events)[k][i])
<1> DEFINE n == Len(events)
           Good(k) == /\ Replay(events)[k] \in ClassMap
                      /\ \A i \in Id : IsClass(events, i, k, Depth(events)[k],
                                               Replay(events)[k][i])
           T == {k \in Nat : k <= n => Good(k)}
<1>1. events \in Seq(EventType) /\ n \in Nat BY DEF EventsOK
<1>2. /\ Depth(events)[0] = 0
      /\ \A k \in 1 .. n : Depth(events)[k] = DepthStep(events[k], Depth(events)[k - 1])
      /\ \A k \in 0 .. n : Depth(events)[k] \in Nat
  BY <1>1, DepthFacts
<1>3. /\ Replay(events)[0] = Baseline
      /\ \A k \in 1 .. n : Replay(events)[k] = ReplayStep(events[k], Replay(events)[k - 1])
  BY <1>1, ReplayFacts
<1> HIDE DEF n
<1>4. Good(0)
  <2>1. Baseline \in ClassMap BY DEF Baseline, ClassMap, Class
  <2>2. ASSUME NEW i \in Id PROVE IsClass(events, i, 0, 0, Baseline[i])
    <3>1. SetsAfter(events, i, 0, 0) = {} BY DEF SetsAfter
    <3>2. Baseline[i] = None BY DEF Baseline
    <3> QED BY <3>1, <3>2 DEF IsClass, LastClass
  <2> QED BY <1>2, <1>3, <2>1, <2>2
<1>5. ASSUME NEW k \in Nat, k + 1 <= n, Good(k) PROVE Good(k + 1)
  <2> DEFINE e == events[k + 1]
             st == Replay(events)[k]
             new == Replay(events)[k + 1]
             d == Depth(events)[k]
  <2>0. /\ k + 1 \in 1 .. n /\ k \in 0 .. n /\ k + 1 \in 0 .. n /\ (k + 1) - 1 = k
        /\ k + 1 \in DOMAIN events /\ k + 1 <= Len(events) /\ k \in 0 .. Len(events)
    BY <1>1, <1>5 DEF n
  <2>1. /\ e \in EventType /\ new = ReplayStep(e, st)
        /\ Depth(events)[k + 1] = DepthStep(e, d) /\ d \in Nat
    BY <1>1, <1>2, <1>3, <2>0
  <2>2. st \in ClassMap /\ \A i \in Id : IsClass(events, i, k, d, st[i]) BY <1>5
  <2>3. CASE e.kind = "push"
    <3>1. new = st /\ Depth(events)[k + 1] = d + 1 BY <2>1, <2>3 DEF ReplayStep, DepthStep
    <3>2. ASSUME NEW i \in Id PROVE IsClass(events, i, k + 1, d + 1, new[i])
      <4>1. IsClass(events, i, k, d, st[i]) BY <2>2
      <4>2. d + 1 \in Int /\ d + 1 >= d BY <2>1
      <4>3. IsClass(events, i, k, d + 1, st[i]) BY <1>1, <2>0, <4>1, <4>2, ClassDeeper
      <4> QED BY <1>1, <2>0, <2>3, <3>1, <4>3, ClassAfterPush
    <3> QED BY <2>2, <3>1, <3>2
  <2>4. CASE e.kind = "set"
    <3>1. new = [st EXCEPT ![e.id] = e.class] /\ Depth(events)[k + 1] = d
      BY <2>1, <2>4 DEF ReplayStep, DepthStep
    <3>2. e.id \in Id /\ e.class \in Pragma BY <2>0, <2>4 DEF EventsOK
    <3>3. new \in ClassMap BY <2>2, <3>1, <3>2 DEF ClassMap, Class
    <3>4. ASSUME NEW i \in Id PROVE IsClass(events, i, k + 1, d, new[i])
      <4>1. IsClass(events, i, k, d, st[i]) BY <2>2
      <4>2. d \in Int /\ d <= d BY <2>1
      <4>3. IsClass(events, i, k + 1, d, IF e.id = i /\ d <= d THEN e.class ELSE st[i])
        BY <1>1, <2>0, <2>4, <4>1, <4>2, ClassAfterSet
      <4>4. new[i] = IF e.id = i THEN e.class ELSE st[i] BY <2>2, <3>1 DEF ClassMap
      <4> QED BY <4>2, <4>3, <4>4
    <3> QED BY <3>1, <3>3, <3>4
  <2>5. CASE e.kind = "pop"
    <3>1. new = e.snapshot BY <2>1, <2>5 DEF ReplayStep
    <3>2. \A i \in Id : IsClass(events, i, k + 1, Depth(events)[k + 1], e.snapshot[i])
      BY <2>0, <2>5 DEF BlocksKept
    <3>3. new \in ClassMap BY <2>1, <3>1 DEF EventType
    <3> QED BY <3>1, <3>2, <3>3
  <2> HIDE DEF Good
  <2> QED BY <2>1, <2>3, <2>4, <2>5 DEF EventType
<1> HIDE DEF Good
<1>6. \A k \in Nat : k \in T => k + 1 \in T BY <1>1, <1>5
<1>7. 0 \in T BY <1>4
<1>8. \A k \in Nat : k \in T
  <2> HIDE DEF T
  <2> QED BY <1>6, <1>7, SetInduction
<1> QED BY <1>1, <1>8 DEF Good, n

(* The events up to a stamp are the first so many.                         *)
LEMMA StampIsPrefix ==
  ASSUME EventsOK, NEW s \in 0 .. seq
  PROVE  EventLimit(s) \in 0 .. Len(events) /\ Before(s) = 1 .. EventLimit(s)
<1> DEFINE n == Len(events)
           L == (s + 1) \div 2
<1>1. /\ events \in Seq(EventType) /\ n \in Nat /\ DOMAIN events = 1 .. n /\ s \in 0 .. 2 * n
      /\ \A k \in 1 .. n : events[k].seq = 2 * k - 1
  BY DEF EventsOK
<1>2. L \in Nat /\ 2 * L <= s + 1 /\ s + 1 < 2 * L + 2 BY <1>1
<1> HIDE DEF L, n
<1>3. L \in 0 .. n BY <1>1, <1>2
<1>4. Before(s) = 1 .. L
  <2>1. ASSUME NEW k \in 1 .. n PROVE events[k].seq <= s <=> k <= L BY <1>1, <1>2
  <2> QED BY <1>1, <1>3, <2>1 DEF Before
<1>5. EventLimit(s) = L
  <2>1. EventLimit(s) = Cardinality(Before(s)) BY DEF EventLimit, Before
  <2>2. Cardinality(1 .. L) = IF 1 > L THEN 0 ELSE L - 1 + 1 BY <1>3, FS_Interval
  <2> QED BY <1>2, <1>4, <2>1, <2>2
<1> QED BY <1>3, <1>4, <1>5 DEF n

LEMMA NestingExact == ASSUME IInv PROVE PragmasNest
<1>1. EventsOK /\ BlocksKept /\ events \in Seq(EventType) BY DEF IInv, EventsOK
<1> SUFFICES ASSUME NEW i \in Id, NEW s \in 0 .. seq
             PROVE  PragmaClassAt(i, s) = ScopedClass(i, s)
  BY DEF PragmasNest
<1> DEFINE L == EventLimit(s)
           D == Depth(events)[L]
           c == PragmaClassAt(i, s)
<1>2. L \in 0 .. Len(events) /\ Before(s) = 1 .. L BY <1>1, StampIsPrefix
<1>3. IsClass(events, i, L, D, c) BY <1>1, <1>2, ReplayIsClass DEF PragmaClassAt
<1>4. Sets(i, s) = SetsAfter(events, i, L, D)
  <2>1. D \in Nat BY <1>1, <1>2, DepthFacts
  <2>2. SetsAfter(events, i, L, D) =
          {j \in 1 .. L : events[j].kind = "set" /\ events[j].id = i /\ OpenAfter(events, j, L)}
    <3> HIDE DEF L
    <3>1. D \in Int /\ D >= Depth(events)[L] BY <2>1
    <3> QED BY <1>1, <1>2, <3>1, DeepEnough
  <2>3. ASSUME NEW j \in 1 .. L PROVE Open(j, s) <=> OpenAfter(events, j, L)
    <3> HIDE DEF L
    <3>1. \A k : k \in 1 .. L /\ k > j <=> k \in j + 1 .. L BY <1>2
    <3> QED BY <1>2, <3>1 DEF Open, OpenAfter
  <2> QED BY <1>2, <2>2, <2>3 DEF Sets
<1>5. CASE c = None /\ Sets(i, s) = {} BY <1>5 DEF ScopedClass
<1>6. CASE \E j \in Sets(i, s) : c = events[j].class /\ \A m \in Sets(i, s) : m <= j
  <2>1. PICK j \in Sets(i, s) : c = events[j].class /\ \A m \in Sets(i, s) : m <= j BY <1>6
  <2>2. \A x \in Sets(i, s) : x \in Int BY <1>2 DEF Sets
  <2>3. ASSUME NEW x \in Sets(i, s), \A k \in Sets(i, s) : k <= x PROVE x = j
    BY <2>1, <2>2, <2>3
  <2>4. (CHOOSE x \in Sets(i, s) : \A k \in Sets(i, s) : k <= x) = j
    BY <2>1, <2>3, Zenon
  <2> QED BY <2>1, <2>4 DEF ScopedClass
<1> HIDE DEF c
<1> QED BY <1>3, <1>4, <1>5, <1>6 DEF IsClass, LastClass

LEMMA WordIsOne ==
  ASSUME TablesOK, NEW o \in OptionType, NEW i \in Id,
         NEW v \in EnableWord(o, i), NEW w \in EnableWord(o, i)
  PROVE  v = w /\ (InBoth(i) => w[1] = 3)
<1>1. ASSUME NEW g, NEW b, NEW x \in GroupWord(i, g, b)
      PROVE  x = <<ItemPriority(g, i), b>> /\ g \in Info[i].groups /\ ~InBoth(i)
  BY DEF GroupWord
<1>4. CASE o.what = "group" \/ (o.what = "error=group" /\ o.on)
  <2>1. EnableWord(o, i) = GroupWord(i, o.name, o.on) BY <1>4 DEF EnableWord, OptionType
  <2>2. v = <<ItemPriority(o.name, i), o.on>> /\ ~InBoth(i) BY <1>1, <2>1
  <2>3. w = <<ItemPriority(o.name, i), o.on>> BY <1>1, <2>1
  <2> QED BY <2>2, <2>3
<1>5. CASE o.what \in {"format", "error=format"} /\ o.on
  <2>1. EnableWord(o, i) = GroupWord(i, "format", o.name # 0)
                             \cup GroupWord(i, "format2", o.name = 2)
    BY <1>5 DEF EnableWord, FormatWord
  <2>2. ~("format" \in Info[i].groups /\ "format2" \in Info[i].groups) BY DEF TablesOK
  <2>3. CASE "format" \in Info[i].groups
    <3>1. v \in GroupWord(i, "format", o.name # 0) /\ w \in GroupWord(i, "format", o.name # 0)
      BY <1>1, <2>1, <2>2, <2>3
    <3>2. v = <<ItemPriority("format", i), o.name # 0>> /\ ~InBoth(i) BY <1>1, <3>1
    <3>3. w = <<ItemPriority("format", i), o.name # 0>> BY <1>1, <3>1
    <3> QED BY <3>2, <3>3
  <2>4. CASE "format" \notin Info[i].groups
    <3>1. v \in GroupWord(i, "format2", o.name = 2) /\ w \in GroupWord(i, "format2", o.name = 2)
      BY <1>1, <2>1, <2>4
    <3>2. v = <<ItemPriority("format2", i), o.name = 2>> /\ ~InBoth(i) BY <1>1, <3>1
    <3>3. w = <<ItemPriority("format2", i), o.name = 2>> BY <1>1, <3>1
    <3> QED BY <3>2, <3>3
  <2> QED BY <2>3, <2>4
<1>6. CASE o.what \in {"exact", "error=exact"} /\ o.name = i
  <2>1. v = <<3, o.on>> /\ w = <<3, o.on>> BY <1>6 DEF EnableWord
  <2> QED BY <2>1
<1>7. CASE /\ ~(o.what = "group" \/ (o.what = "error=group" /\ o.on))
           /\ ~(o.what \in {"format", "error=format"} /\ o.on)
           /\ ~(o.what \in {"exact", "error=exact"} /\ o.name = i)
  <2>1. EnableWord(o, i) = {} BY <1>7 DEF EnableWord
  <2> QED BY <2>1
<1> QED BY <1>4, <1>5, <1>6, <1>7

LEMMA GroupIsSaid ==
  ASSUME SettingsOK, NEW g, GroupKept(g)
  PROVE  GroupSaid(g) = group_enabled[g]
<1> DEFINE ks == {k \in DOMAIN opts : SetsGroup(opts[k], g)}
<1>1. CASE group_enabled[g] = "unset" /\ \A k \in DOMAIN opts : ~SetsGroup(opts[k], g)
  <2>1. ks = {} BY <1>1
  <2> QED BY <1>1, <2>1 DEF GroupSaid
<1>2. ASSUME NEW k \in ks, group_enabled[g] = OnOff(opts[k].on), \A j \in ks : j <= k
      PROVE  GroupSaid(g) = group_enabled[g]
  <2>1. \A j \in ks : j \in Int BY DEF SettingsOK
  <2>2. ASSUME NEW x \in ks, \A j \in ks : j <= x PROVE x = k BY <1>2, <2>1, <2>2
  <2>3. GroupSaid(g) = IF ks = {} THEN "unset"
                       ELSE OnOff(opts[CHOOSE x \in ks : \A j \in ks : j <= x].on)
    BY DEF GroupSaid
  <2> HIDE DEF ks
  <2>4. (CHOOSE x \in ks : \A j \in ks : j <= x) = k BY <1>2, <2>2, Zenon
  <2> QED BY <1>2, <2>3, <2>4
<1> QED BY <1>1, <1>2 DEF GroupKept

LEMMA WordWins == ASSUME TablesOK, IInv PROVE MostSpecificWins
<1> SUFFICES ASSUME NEW i \in Id, ~flags.fsafe
             PROVE  On(i, FALSE) <=> (Said(i) = "on" \/ (Said(i) = "unset" /\ Info[i].on))
  BY DEF MostSpecificWins
<1>1. SettingsOK /\ WordKept(i) /\ \A g \in {"all", "extra", "unused"} : GroupKept(g)
  BY DEF IInv, WordsKept
<1>2. GroupSaid("all") = group_enabled["all"] /\ GroupSaid("extra") = group_enabled["extra"]
        /\ GroupSaid("unused") = group_enabled["unused"]
  BY <1>1, GroupIsSaid
<1> DEFINE ks == {k \in DOMAIN opts : Decides(k, i)}
           unused == IF group_enabled["unused"] = "unset" THEN group_enabled["all"]
                                                          ELSE group_enabled["unused"]
           both == group_enabled["extra"] = "on" /\ unused = "on"
           word == \E k \in ks : \E w \in EnableWord(opts[k], i) : w[2]
<1>3. On(i, FALSE) <=> IF InBoth(i) /\ enabled_priority[i] < 3 THEN both
                       ELSE enabled[i] = "on" \/ (enabled[i] = "unset" /\ Info[i].on)
  BY DEF On
<1>4. Said(i) = IF ks # {} THEN OnOff(word)
                ELSE IF InBoth(i) THEN OnOff(both) ELSE "unset"
  BY <1>2 DEF Said
<1>5. OnOff(TRUE) = "on" /\ OnOff(FALSE) = "off" BY DEF OnOff
<1>6. CASE /\ enabled[i] = "unset" /\ enabled_priority[i] = 0
           /\ \A k \in DOMAIN opts : EnableWord(opts[k], i) = {}
  <2>1. ks = {} BY <1>6, Zenon DEF Decides
  <2> HIDE DEF ks, both, word
  <2>2. CASE InBoth(i)
    <3>1. Said(i) = OnOff(both) BY <1>4, <2>1, <2>2
    <3>2. On(i, FALSE) <=> both
      <4>1. InBoth(i) /\ enabled_priority[i] < 3 BY <1>6, <2>2
      <4> QED BY <4>1 DEF On, both
    <3> QED BY <1>5, <3>1, <3>2 DEF both
  <2>3. CASE ~InBoth(i)
    <3>1. Said(i) = "unset" BY <1>4, <2>1, <2>3
    <3>2. On(i, FALSE) <=> Info[i].on BY <1>3, <1>6, <2>3
    <3> QED BY <3>1, <3>2
  <2> QED BY <2>2, <2>3
<1>7. ASSUME NEW k \in DOMAIN opts, NEW w \in EnableWord(opts[k], i),
             enabled_priority[i] = w[1], enabled[i] = OnOff(w[2]),
             \A j \in DOMAIN opts : \A v \in EnableWord(opts[j], i) :
               v[1] < w[1] \/ (v[1] = w[1] /\ j <= k)
      PROVE  On(i, FALSE) <=> (Said(i) = "on" \/ (Said(i) = "unset" /\ Info[i].on))
  <2>0. \A j \in DOMAIN opts : j \in Int /\ opts[j] \in OptionType BY <1>1 DEF SettingsOK
  <2>1. k \in ks BY <1>7, Zenon DEF Decides
  <2>2. ASSUME NEW j \in ks PROVE j = k
    <3>1. PICK v \in EnableWord(opts[j], i) :
            \A m \in DOMAIN opts : \A x \in EnableWord(opts[m], i) :
              x[1] < v[1] \/ (x[1] = v[1] /\ m <= j)
      BY <2>2, Zenon DEF Decides
    <3>2. v[1] \in 1 .. 3 /\ w[1] \in 1 .. 3 BY <2>0, WordType
    <3>3. w[1] < v[1] \/ (w[1] = v[1] /\ k <= j) BY <3>1
    <3>4. v[1] < w[1] \/ (v[1] = w[1] /\ j <= k) BY <1>7
    <3> QED BY <2>0, <3>2, <3>3, <3>4
  <2>3. w[1] \in 1 .. 3 /\ w[2] \in BOOLEAN BY <2>0, WordType
  <2>4. \A v \in EnableWord(opts[k], i) : v = w BY <2>0, WordIsOne
  <2>5. InBoth(i) => w[1] = 3 BY <2>0, WordIsOne
  <2> HIDE DEF ks
  <2>6. word <=> w[2] BY <2>1, <2>2, <2>4
  <2> HIDE DEF word, both
  <2>7. Said(i) = OnOff(word) BY <1>4, <2>1
  <2>8. On(i, FALSE) <=> enabled[i] = "on" \/ (enabled[i] = "unset" /\ Info[i].on)
    <3>1. ~(InBoth(i) /\ enabled_priority[i] < 3) BY <1>7, <2>5
    <3> QED BY <1>3, <3>1
  <2>9. CASE w[2] = TRUE
    <3>1. enabled[i] = "on" /\ Said(i) = "on" BY <1>5, <1>7, <2>6, <2>7, <2>9 DEF word
    <3> QED BY <2>8, <3>1
  <2>10. CASE w[2] = FALSE
    <3>1. enabled[i] = "off" /\ Said(i) = "off" BY <1>5, <1>7, <2>6, <2>7, <2>10 DEF word
    <3> QED BY <2>8, <3>1
  <2> QED BY <2>3, <2>9, <2>10
<1>8. CASE \E k \in DOMAIN opts : \E w \in EnableWord(opts[k], i) :
             /\ enabled_priority[i] = w[1] /\ enabled[i] = OnOff(w[2])
             /\ \A j \in DOMAIN opts : \A v \in EnableWord(opts[j], i) :
                  v[1] < w[1] \/ (v[1] = w[1] /\ j <= k)
  BY <1>7, <1>8, Zenon
<1> QED BY <1>1, <1>6, <1>8, Zenon DEF WordKept

LEMMA TypesExact == ASSUME TablesOK, IInv PROVE WarnTypeOK
<1>1. SettingsOK /\ EventsOK BY DEF IInv
<1>2. \A k \in DOMAIN events : k > 1 => events[k - 1].seq < events[k].seq
  <2> SUFFICES ASSUME NEW k \in DOMAIN events, k > 1
               PROVE  events[k - 1].seq < events[k].seq
    OBVIOUS
  <2>1. k \in Int /\ k - 1 \in DOMAIN events BY <1>1 DEF EventsOK
  <2>2. events[k - 1].seq = 2 * (k - 1) - 1 /\ events[k].seq = 2 * k - 1
    BY <1>1, <2>1 DEF EventsOK
  <2> QED BY <2>1, <2>2
<1>3. pragma_state \in [Id -> Pragma \cup {None}] BY <1>1 DEF EventsOK, ClassMap, Class
<1>4. \A i \in Id : /\ {enabled[i], promoted[i]} \subseteq Setting
                    /\ (enabled[i] = "unset") <=> (enabled_priority[i] = 0)
                    /\ (promoted[i] = "unset") <=> (promoted_priority[i] = 0)
  BY <1>1 DEF SettingsOK
<1> QED BY <1>2, <1>3, <1>4 DEF WarnTypeOK

LEMMA SilenceHolds == ASSUME IInv PROVE SilenceIsAbsolute
<1> SUFFICES ASSUME flags.inhibit
             PROVE  /\ ~FlowNeeded
                    /\ \A i \in Id, s \in 0 .. seq, b \in BOOLEAN :
                         Emitted(i, s, b, FALSE) = None
  BY DEF IInv, FlagsKept, SilenceIsAbsolute
<1> QED BY DEF FlowNeeded, Emitted

LEMMA FloorHolds == ASSUME TablesOK, IInv PROVE SafeFloorHolds
<1> SUFFICES ASSUME flags.fsafe
             PROVE  /\ FlowNeeded
                    /\ \A i \in Required, s \in 0 .. seq : Reported(i, s) = "error"
  BY DEF SafeFloorHolds
<1>1. ~flags.inhibit BY DEF IInv, FlagsKept
<1>2. ASSUME NEW i \in Required, NEW s
      PROVE  Emitted(i, s, FALSE, FALSE) = "error" /\ i # Fallthrough
  <2>1. EffectiveClass(i, s, FALSE) = "error" BY DEF EffectiveClass
  <2> QED BY <1>1, <2>1 DEF Emitted, TablesOK
<1>3. FlowNeeded
  <2>1. Uninitialized \in Required /\ Uninitialized \in FlowWarning BY DEF TablesOK
  <2>2. WarnEnabled(Uninitialized, 0) BY <1>2, <2>1 DEF WarnEnabled, None
  <2> QED BY <1>1, <2>1, <2>2 DEF FlowNeeded
<1> QED BY <1>2, <1>3 DEF Reported

LEMMA AnalysisRuns == ASSUME TablesOK, IInv PROVE AnalysisNotSkipped
<1> SUFFICES ASSUME NEW i \in FlowWarning, NEW s \in 0 .. seq, Reported(i, s) # None
             PROVE  FlowNeeded
  BY DEF AnalysisNotSkipped
<1>0. i \in Id BY DEF TablesOK
<1>1. EventsOK /\ BlocksKept /\ events \in Seq(EventType) BY DEF IInv, EventsOK
<1>2. ~flags.inhibit /\ EffectiveClass(i, s, FALSE) # None BY DEF Reported, Emitted
<1>3. PragmaClassAt(i, 0) = None
  <2>1. 0 \in 0 .. seq BY <1>1 DEF EventsOK
  <2>2. Sets(i, 0) = {} BY <1>1 DEF Sets, Before, EventsOK
  <2>3. PragmaClassAt(i, 0) = ScopedClass(i, 0) BY <1>0, <2>1, NestingExact DEF PragmasNest
  <2> QED BY <2>2, <2>3 DEF ScopedClass
<1>4. CASE flags.fsafe /\ i \in Required
  BY <1>4, FloorHolds DEF SafeFloorHolds
<1>5. CASE ~(flags.fsafe /\ i \in Required) /\ PragmaClassAt(i, s) = None
  <2>1. EffectiveClass(i, s, FALSE) = BaseClass(i, FALSE) BY <1>5 DEF EffectiveClass
  <2>2. EffectiveClass(i, 0, FALSE) = BaseClass(i, FALSE) BY <1>3, <1>5 DEF EffectiveClass
  <2>3. WarnEnabled(i, 0) BY <1>2, <2>1, <2>2 DEF WarnEnabled, Emitted
  <2> QED BY <1>2, <2>3 DEF FlowNeeded
<1>6. CASE ~(flags.fsafe /\ i \in Required) /\ PragmaClassAt(i, s) # None
  <2>1. PragmaClassAt(i, s) # "ignored" BY <1>2, <1>6 DEF EffectiveClass
  <2>2. IsClass(events, i, EventLimit(s), Depth(events)[EventLimit(s)], PragmaClassAt(i, s))
    BY <1>0, <1>1, StampIsPrefix, ReplayIsClass DEF PragmaClassAt
  <2>3. PICK j \in SetsAfter(events, i, EventLimit(s), Depth(events)[EventLimit(s)]) :
          PragmaClassAt(i, s) = events[j].class
    BY <1>6, <2>2 DEF IsClass, LastClass
  <2>4. j \in DOMAIN events /\ events[j].kind = "set" /\ events[j].id = i
    <3>1. EventLimit(s) \in 0 .. Len(events) BY <1>1, StampIsPrefix
    <3> QED BY <1>1, <3>1 DEF SetsAfter
  <2> QED BY <1>2, <2>1, <2>3, <2>4 DEF FlowNeeded
<1> QED BY <1>4, <1>5, <1>6

-----------------------------------------------------------------------------
LEMMA IInvAlways == TablesOK => (WarnSpec => []IInv)
<1>1. TablesOK /\ NewContext => IInv BY InitHolds
<1>2. TablesOK /\ IInv /\ [WarnNext]_warnVars => IInv' BY StepHolds
<1> SUFFICES ASSUME TablesOK PROVE WarnSpec => []IInv OBVIOUS
<1>3. NewContext => IInv BY <1>1
<1>4. IInv /\ [WarnNext]_warnVars => IInv' BY <1>2
<1> QED BY <1>3, <1>4, PTL DEF WarnSpec

(* Whatever the tables of warnings, and for command lines and translation  *)
(* units of any length: after any options the one setting and the one      *)
(* priority warn_flag keeps for a warning are the word of the most         *)
(* specific, of those the last, option that speaks of it, and replaying    *)
(* the pragma events with their snapshots (pragma_class_at) gives each     *)
(* warning the class set last in a block still open at its stamp.          *)
THEOREM VerdictsAreExact == TablesOK => (WarnSpec => []VerdictsExact)
<1> SUFFICES ASSUME TablesOK PROVE WarnSpec => []VerdictsExact OBVIOUS
<1>1. WarnSpec => []IInv BY IInvAlways
<1>2. IInv => VerdictsExact BY TypesExact, WordWins, NestingExact DEF VerdictsExact
<1> QED BY <1>1, <1>2, PTL

(* No option, group or pragma undoes -w (nothing is reported, no analysis  *)
(* is made) or the floor of -fsafe (effective_class makes the required     *)
(* warnings errors at every stamp, and warn_flow_needed runs the analysis  *)
(* that finds them).                                                       *)
THEOREM FloorsAlwaysHold == TablesOK => (WarnSpec => []FloorsHold)
<1> SUFFICES ASSUME TablesOK PROVE WarnSpec => []FloorsHold OBVIOUS
<1>1. WarnSpec => []IInv BY IInvAlways
<1>2. IInv => FloorsHold BY SilenceHolds, FloorHolds DEF FloorsHold
<1> QED BY <1>1, <1>2, PTL

(* warn_flow_needed looks at the command line and at the pragma events one *)
(* by one, never at a stamp; yet wherever one of the flow warnings would   *)
(* be reported, it has said that the analysis is needed.                   *)
THEOREM AnalysisIsNotSkipped == TablesOK => (WarnSpec => []AnalysisNotSkipped)
<1> SUFFICES ASSUME TablesOK PROVE WarnSpec => []AnalysisNotSkipped OBVIOUS
<1>1. WarnSpec => []IInv BY IInvAlways
<1>2. IInv => AnalysisNotSkipped BY AnalysisRuns
<1> QED BY <1>1, <1>2, PTL
=============================================================================
