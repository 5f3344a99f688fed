----------------------------- MODULE QuizProofs -----------------------------
(***************************************************************************)
(* The quiz.                                                               *)
(* QuizClock: for every quiz, every bound and every rule, its timestamps   *)
(* implement the two stopwatches of QuizStopwatch, every pause has its row *)
(* (and no other is open then, unless an alert came back too late), and a  *)
(* forced failure its event.                                               *)
(* SquadQuiz: for any squad, questions, allowance and number of            *)
(* overlapping requests, there is one draw and every question of it goes   *)
(* to exactly one member, the submission moves on only together, and it    *)
(* never waits when all of the squad have passed.                          *)
(***************************************************************************)
EXTENDS QuizClock, SquadQuiz, WellFoundedInduction, FiniteSetTheorems, TLAPS

-----------------------------------------------------------------------------
(* QuizClock.                                                              *)

\* Where the attempt is: on a question while it is in progress.
OnQuestion == /\ att.index \in 1 .. Last + 1
              /\ InProgress => att.index <= Last

\* A pause has begun, and its row is the last of pauses.
PauseHasRow ==
    Paused => /\ att.pausedAt <= now
              /\ pauses # << >>
              /\ pauses[Len(pauses)] = [start |-> att.pausedAt, end |-> None]

\* The row is the only open one, and between two pauses of a running attempt none
\* is open, unless an alert came back too late.
RowsApart ==
    ~clashed =>
        /\ Paused => InProgress
        /\ InProgress /\ ~Paused =>
              \A i \in DOMAIN pauses : pauses[i].end # None /\ pauses[i].end <= now
        /\ \A i, j \in DOMAIN pauses :
              i < j => pauses[i].end # None /\ pauses[i].end <= pauses[j].start

PauseOK == PauseHasRow /\ RowsApart

\* Whoever is to fail has the row that says why.
FailOK == (att.force \/ att.status = "VIOLATION_FAIL") => timeline.fail

\* The inductive invariant.
IInv == TypeOK /\ OnQuestion /\ PauseOK /\ FailOK

-----------------------------------------------------------------------------
(* Induction, as the least element of a set of naturals.                   *)

LEMMA LeastNat ==
    ASSUME NEW T \in SUBSET Nat, T # {}
    PROVE  \E x \in T : \A y \in T : x <= y
<1> DEFINE R == OpToRel(<, Nat)
<1>1. IsWellFoundedOn(R, Nat)
  BY NatLessThanWellFounded
<1>2. PICK x \in T : \A y \in T : ~(<<y, x>> \in R)
  <2> HIDE DEF R
  <2> QED BY <1>1, WFMin
<1>3. \A y \in T : y < x => <<y, x>> \in R
  BY DEF OpToRel
<1>4. \A y \in T : ~(y < x)
  <2> HIDE DEF R
  <2> QED BY <1>2, <1>3, Zenon
<1>5. \A y \in T : x <= y
  <2> HIDE DEF R
  <2> QED BY <1>4
<1> QED
  <2> HIDE DEF R
  <2> QED BY <1>5

\* The windows before question q, one after the other, for the first n of them.
Sums(limits, n, g) ==
    g = [q \in 1 .. n |-> IF q = 1 THEN 0 ELSE g[q - 1] + limits[q - 1]]

\* There are such sums, and they are naturals.
LEMMA SumsExist ==
    ASSUME NEW limits \in Seq(Nat), NEW m \in 1 .. Len(limits) + 1
    PROVE  \E g \in [1 .. m -> Nat] : Sums(limits, m, g)
<1> DEFINE L == Len(limits) + 1
           Bad == {n \in 1 .. L : ~\E g \in [1 .. n -> Nat] : Sums(limits, n, g)}
<1>1. SUFFICES ASSUME Bad # {} PROVE FALSE
  OBVIOUS
<1>2. PICK n \in Bad : \A k \in Bad : n <= k
  <2>1. Bad \in SUBSET Nat
    OBVIOUS
  <2> HIDE DEF Bad
  <2> QED BY <1>1, <2>1, LeastNat
<1>3. n \in 1 .. L
  OBVIOUS
<1>4. CASE n = 1
  <2> DEFINE g == [q \in 1 .. 1 |-> 0]
  <2>1. g \in [1 .. n -> Nat] /\ Sums(limits, n, g)
    BY <1>4 DEF Sums
  <2> QED BY <2>1
<1>5. CASE n # 1
  <2>1. n - 1 \in 1 .. L /\ ~(n <= n - 1)
    BY <1>3, <1>5
  <2>2. n - 1 \notin Bad
    <3> HIDE DEF Bad
    <3> QED BY <1>2, <2>1
  <2>3. PICK g \in [1 .. n - 1 -> Nat] : Sums(limits, n - 1, g)
    BY <2>1, <2>2
  <2> DEFINE h == [q \in 1 .. n |-> IF q = n THEN g[n - 1] + limits[n - 1] ELSE g[q]]
  <2>4. limits[n - 1] \in Nat /\ n - 1 \in 1 .. n - 1
    BY <1>3, <1>5
  <2>5. h \in [1 .. n -> Nat]
    BY <1>3, <2>3, <2>4
  <2>6. \A q \in 1 .. n : h[q] = IF q = 1 THEN 0 ELSE h[q - 1] + limits[q - 1]
    <3> TAKE q \in 1 .. n
    <3>1. CASE q = n
      BY <1>3, <1>5, <3>1
    <3>2. CASE q # n
      <4>1. q \in 1 .. n - 1
        BY <1>3, <3>2
      <4>2. g[q] = IF q = 1 THEN 0 ELSE g[q - 1] + limits[q - 1]
        BY <2>3, <4>1 DEF Sums
      <4> QED BY <1>3, <3>2, <4>1, <4>2
    <3> QED BY <3>1, <3>2
  <2>7. Sums(limits, n, h)
    BY <2>6 DEF Sums
  <2> QED BY <2>5, <2>7
<1> QED BY <1>4, <1>5

FcnOn(f, D) == f = [q \in D |-> f[q]]

\* Two functions over an interval that take the same steps are the same.
LEMMA SameSteps ==
    ASSUME NEW a \in Nat, NEW b \in Nat, NEW f, NEW g,
           FcnOn(f, a .. b), FcnOn(g, a .. b), f[a] = g[a],
           \A q \in a .. b - 1 : f[q] = g[q] => f[q + 1] = g[q + 1]
    PROVE  f = g
<1> DEFINE Bad == {q \in a .. b : f[q] # g[q]}
<1>1. SUFFICES ASSUME Bad # {} PROVE FALSE
  BY DEF FcnOn
<1>2. PICK n \in Bad : \A k \in Bad : n <= k
  <2>1. Bad \in SUBSET Nat
    OBVIOUS
  <2> HIDE DEF Bad
  <2> QED BY <1>1, <2>1, LeastNat
<1>3. n \in a .. b /\ f[n] # g[n]
  OBVIOUS
<1>4. n # a
  BY <1>3
<1>5. n - 1 \in a .. b - 1 /\ n - 1 \in a .. b /\ ~(n <= n - 1) /\ n = (n - 1) + 1
  BY <1>3, <1>4
<1>6. n - 1 \notin Bad
  <2> HIDE DEF Bad
  <2> QED BY <1>2, <1>5
<1>7. f[n - 1] = g[n - 1]
  BY <1>5, <1>6
<1> QED BY <1>3, <1>5, <1>7

LEMMA SumsStep ==
    ASSUME NEW limits, NEW L \in Nat, 1 <= L, NEW g, Sums(limits, L, g)
    PROVE  g[1] = 0 /\ \A q \in 1 .. L - 1 : g[q + 1] = g[q] + limits[q]
<1>1. \A q \in 1 .. L : g[q] = IF q = 1 THEN 0 ELSE g[q - 1] + limits[q - 1]
  BY DEF Sums
<1>2. \A q \in 1 .. L - 1 : q + 1 \in 1 .. L /\ q + 1 # 1 /\ (q + 1) - 1 = q
  OBVIOUS
<1>3. \A q \in 1 .. L - 1 : g[q + 1] = g[q] + limits[q]
  <2> TAKE q \in 1 .. L - 1
  <2>1. g[q + 1] = g[(q + 1) - 1] + limits[(q + 1) - 1]
    BY <1>1, <1>2
  <2> QED BY <1>2, <2>1
<1> QED BY <1>1, <1>3

\* QuizStopwatch's Before.
LEMMA BeforeSums ==
    ASSUME NEW limits \in Seq(Nat)
    PROVE  /\ Watch!Before(limits) \in [1 .. Len(limits) + 1 -> Nat]
           /\ \A q \in 1 .. Len(limits) :
                 Watch!Before(limits)[q + 1] = Watch!Before(limits)[q] + limits[q]
<1> DEFINE L == Len(limits) + 1
           B == Watch!Before(limits)
<1>1. PICK g \in [1 .. L -> Nat] : Sums(limits, L, g)
  <2>1. L \in 1 .. Len(limits) + 1
    OBVIOUS
  <2> HIDE DEF L, B
  <2> QED BY <2>1, SumsExist
<1>2. Sums(limits, L, B)
  <2>1. B = CHOOSE b : Sums(limits, L, b)
    BY DEF Watch!Before, Sums
  <2> HIDE DEF B
  <2> QED BY <1>1, <2>1
<1>3. L \in Nat /\ 1 <= L
  OBVIOUS
<1> HIDE DEF B, L
<1>4. B[1] = 0 /\ \A q \in 1 .. L - 1 : B[q + 1] = B[q] + limits[q]
  BY <1>2, <1>3, SumsStep
<1>5. g[1] = 0 /\ \A q \in 1 .. L - 1 : g[q + 1] = g[q] + limits[q]
  BY <1>1, <1>3, SumsStep
<1>6. FcnOn(B, 1 .. L) /\ FcnOn(g, 1 .. L)
  BY <1>2 DEF Sums, FcnOn
<1>7. \A q \in 1 .. L - 1 : B[q] = g[q] => B[q + 1] = g[q + 1]
  BY <1>4, <1>5
<1>8. B = g
  <2>1. 1 \in Nat /\ B[1] = g[1]
    BY <1>4, <1>5
  <2> QED BY <1>3, <1>6, <1>7, <2>1, SameSteps, Zenon
<1>9. B \in [1 .. Len(limits) + 1 -> Nat] /\ \A q \in 1 .. Len(limits) : B[q + 1] = B[q] + limits[q]
  BY <1>1, <1>4, <1>8 DEF L
<1> QED BY <1>9 DEF B

-----------------------------------------------------------------------------
(* The clock's own sums.                                                   *)

B == Watch!Before(quiz.limits)

LEMMA QuizShape ==
    ASSUME TypeOK
    PROVE  /\ quiz.limits \in Seq(Nat) /\ quiz.total \in Nat
           /\ Last \in Nat \ {0} /\ Last = Len(quiz.limits)
           /\ \A q \in 1 .. Last : quiz.limits[q] \in Nat
           /\ B \in [1 .. Last + 1 -> Nat]
           /\ \A q \in 1 .. Last : B[q + 1] = B[q] + quiz.limits[q]
<1>1. quiz \in [limits : Seq(Nat), total : Nat] /\ quiz.limits # << >>
  BY ClockAssumption DEF TypeOK
<1>2. quiz.limits \in Seq(Nat) /\ quiz.total \in Nat /\ Last \in Nat \ {0} /\ Last = Len(quiz.limits)
  BY <1>1 DEF Last
<1>3. /\ B \in [1 .. Last + 1 -> Nat]
      /\ \A q \in 1 .. Last : B[q + 1] = B[q] + quiz.limits[q]
  BY <1>2, BeforeSums DEF B
<1> QED BY <1>2, <1>3

\* _advance_expired opens the windows one after the other, as the sums say.
LEMMA OpenedSums ==
    ASSUME TypeOK, att.index \in 1 .. Last + 1, NEW q \in att.index .. Last + 1
    PROVE  OpenedAt(q) = att.anchor + (B[q] - B[att.index])
<1> DEFINE a == att.index
           Opens(g) == g = [p \in a .. q |-> IF p = a THEN att.anchor
                                             ELSE g[p - 1] + quiz.limits[p - 1]]
           w == [p \in a .. q |-> att.anchor + (B[p] - B[a])]
           o == CHOOSE g : Opens(g)
<1>1. a \in Nat /\ q \in Nat /\ 1 <= a /\ a <= q /\ q <= Last + 1 /\ att.anchor \in Int
  BY QuizShape DEF TypeOK, Attempt
<1>2. OpenedAt(q) = o[q]
  BY DEF OpenedAt
<1> HIDE DEF a
<1>3. \A p \in a .. q : B[p] \in Nat
  <2>1. a .. q \subseteq 1 .. Last + 1
    BY <1>1, QuizShape
  <2> QED BY <2>1, QuizShape
<1>4. \A p \in a .. q : p # a => B[p] = B[p - 1] + quiz.limits[p - 1]
  <2> TAKE p \in a .. q
  <2> HAVE p # a
  <2>1. p - 1 \in 1 .. Last /\ (p - 1) + 1 = p
    BY <1>1, QuizShape
  <2> QED BY <2>1, QuizShape
<1>5. Opens(w)
  <2>1. ASSUME NEW p \in a .. q
        PROVE  w[p] = IF p = a THEN att.anchor ELSE w[p - 1] + quiz.limits[p - 1]
    <3>1. CASE p = a
      BY <1>1, <1>3, <3>1
    <3>2. CASE p # a
      <4>1. p - 1 \in a .. q /\ p - 1 \in 1 .. Last
        BY <1>1, <3>2, QuizShape
      <4>2. quiz.limits[p - 1] \in Nat
        BY <4>1, QuizShape
      <4> QED BY <1>1, <1>3, <1>4, <3>2, <4>1, <4>2
    <3> QED BY <3>1, <3>2
  <2> QED BY <2>1
<1>6. Opens(o)
  BY <1>5
<1>7. o = w
  <2>1. FcnOn(o, a .. q) /\ FcnOn(w, a .. q)
    <3>1. FcnOn(w, a .. q)
      BY DEF FcnOn
    <3>2. FcnOn(o, a .. q)
      <4> HIDE DEF o
      <4> QED BY <1>6 DEF FcnOn
    <3> QED BY <3>1, <3>2
  <2>2. \A p \in a .. q : o[p] = IF p = a THEN att.anchor ELSE o[p - 1] + quiz.limits[p - 1]
    <3> HIDE DEF o
    <3> QED BY <1>6
  <2>3. \A p \in a .. q : w[p] = IF p = a THEN att.anchor ELSE w[p - 1] + quiz.limits[p - 1]
    <3> HIDE DEF w
    <3> QED BY <1>5
  <2>4. a \in a .. q /\ \A p \in a .. q - 1 : p + 1 \in a .. q /\ p + 1 # a /\ (p + 1) - 1 = p
    BY <1>1
  <2> HIDE DEF o, w, Opens
  <2>5. o[a] = w[a]
    BY <2>2, <2>3, <2>4
  <2>6. \A p \in a .. q - 1 : o[p] = w[p] => o[p + 1] = w[p + 1]
    <3> TAKE p \in a .. q - 1
    <3>1. o[p + 1] = o[(p + 1) - 1] + quiz.limits[(p + 1) - 1]
      BY <2>2, <2>4
    <3>2. w[p + 1] = w[(p + 1) - 1] + quiz.limits[(p + 1) - 1]
      BY <2>3, <2>4
    <3> QED BY <2>4, <3>1, <3>2
  <2> QED BY <1>1, <2>1, <2>5, <2>6, SameSteps, Zenon
<1>8. w[q] = att.anchor + (B[q] - B[a])
  BY <1>1
<1> QED BY <1>2, <1>7, <1>8 DEF a

\* The loop of _advance_expired stops, at the first question that is not lost.
LEMMA FirstOpenIs ==
    ASSUME TypeOK, att.index \in 1 .. Last + 1
    PROVE  /\ FirstOpen \in att.index .. Last + 1
           /\ \A p \in att.index .. FirstOpen - 1 : IsExpired(p)
           /\ FirstOpen <= Last => ~IsExpired(FirstOpen)
<1> DEFINE a == att.index
           T == {q \in a .. Last + 1 : q <= Last => ~IsExpired(q)}
<1>1. Last \in Nat
  BY QuizShape
<1>2. T \in SUBSET Nat /\ Last + 1 \in T
  BY <1>1
<1>3. PICK q \in T : \A p \in T : q <= p
  <2> HIDE DEF T
  <2> QED BY <1>2, LeastNat
<1>4. \A p \in a .. q - 1 : IsExpired(p)
  <2> TAKE p \in a .. q - 1
  <2>1. p \in a .. Last + 1 /\ p <= Last /\ ~(q <= p)
    BY <1>1
  <2>2. p \notin T
    <3> HIDE DEF T
    <3> QED BY <1>3, <2>1
  <2> QED BY <2>1, <2>2
<1>5. q \in a .. Last + 1 /\ (q <= Last => ~IsExpired(q))
  OBVIOUS
<1> QED BY <1>4, <1>5 DEF FirstOpen

-----------------------------------------------------------------------------
(* The stopwatches.                                                        *)

Spent == IF InProgress THEN Elapsed ELSE 0

Window == IF ~InProgress THEN 0
          ELSE IF Stepped THEN EffectiveNow - att.anchor ELSE Elapsed

Ends == {"COMPLETED", "TIMED_OUT", "VIOLATION_FAIL"}

LEMMA AttShape ==
    ASSUME TypeOK
    PROVE  /\ att.anchor \in Int /\ att.pausedSecs \in Nat /\ now \in Nat
           /\ att.index \in Nat /\ Elapsed \in Int /\ EffectiveNow \in Nat
           /\ Window \in Int /\ att.status \in Ends \cup {"IN_PROGRESS"}
<1>1. att.anchor \in Int /\ att.pausedSecs \in Nat /\ now \in Nat /\ att.index \in Nat
      /\ att.status \in Ends \cup {"IN_PROGRESS"} /\ (Paused => att.pausedAt \in Nat)
  BY DEF TypeOK, Attempt, Paused, Ends
<1>2. EffectiveNow \in Nat
  BY <1>1 DEF EffectiveNow
<1>3. Elapsed \in Int
  BY <1>1, <1>2 DEF Elapsed
<1> QED BY <1>1, <1>2, <1>3 DEF Window

\* What falls to question q is what the clock has counted since it opened.
LEMMA ShareIs ==
    ASSUME TypeOK, OnQuestion, InProgress, ~Paused, NEW q \in att.index .. Last + 1
    PROVE  /\ Stepped => Watch!Share(q) = now - OpenedAt(q)
           /\ Watch!Share(att.index) = Window
<1>1. Watch!Share(q) = Window - (B[q] - B[att.index])
  BY DEF Watch!Share, Window, B
<1>2. Watch!Share(att.index) = Window - (B[att.index] - B[att.index])
  BY DEF Watch!Share, Window, B
<1>3. B[q] \in Nat /\ B[att.index] \in Nat
  <2>1. q \in 1 .. Last + 1 /\ att.index \in 1 .. Last + 1
    BY QuizShape DEF OnQuestion
  <2> QED BY <2>1, QuizShape
<1>4. OpenedAt(q) = att.anchor + (B[q] - B[att.index])
  BY OpenedSums DEF OnQuestion
<1>5. Stepped => Window = now - att.anchor
  BY DEF Window, EffectiveNow
<1> QED BY <1>1, <1>2, <1>3, <1>4, <1>5, AttShape

\* A question is lost by the stopwatch when it is by the timestamps.
LEMMA LostIsExpired ==
    ASSUME TypeOK, OnQuestion, InProgress, ~Paused, NEW q \in att.index .. Last
    PROVE  Watch!IsLost(q) <=> IsExpired(q)
<1>1. q \in 1 .. Last /\ q \in att.index .. Last + 1
  BY QuizShape DEF OnQuestion
<1>2. Watch!IsLost(q) <=> quiz.limits[q] # 0 /\ Watch!Share(q) > quiz.limits[q] + Grace
  BY DEF Watch!IsLost
<1>3. IsExpired(q) <=> quiz.limits[q] # 0 /\ now - OpenedAt(q) > quiz.limits[q] + Grace
  BY DEF IsExpired, EffectiveNow
<1>4. quiz.limits[q] # 0 => Stepped
  BY <1>1 DEF Stepped
<1> QED BY <1>1, <1>2, <1>3, <1>4, ShareIs

\* Where _advance_expired puts the student is where the stopwatch does.
LEMMA ReachesFirstOpen ==
    ASSUME TypeOK, OnQuestion, InProgress, ~Paused
    PROVE  /\ FirstOpen \in att.index .. Last + 1
           /\ Watch!Reaches(FirstOpen)
           /\ Stepped => now - OpenedAt(FirstOpen) = Watch!Share(FirstOpen)
           /\ ~Stepped => FirstOpen = att.index
           /\ OpenedAt(att.index) = att.anchor
<1>1. /\ FirstOpen \in att.index .. Last + 1
      /\ \A p \in att.index .. FirstOpen - 1 : IsExpired(p)
      /\ FirstOpen <= Last => ~IsExpired(FirstOpen)
  BY FirstOpenIs DEF OnQuestion
<1>2. att.index \in 1 .. Last /\ Last \in Nat /\ Last = Len(quiz.limits)
  BY QuizShape DEF OnQuestion
<1>3. \A p \in att.index .. FirstOpen - 1 : p \in att.index .. Last
  BY <1>1, <1>2
<1>4. \A p \in att.index .. FirstOpen - 1 : Watch!IsLost(p)
  BY <1>1, <1>3, LostIsExpired
<1>5. FirstOpen <= Last => ~Watch!IsLost(FirstOpen)
  BY <1>1, LostIsExpired
<1>6. Watch!Reaches(FirstOpen)
  BY <1>2, <1>4, <1>5 DEF Watch!Reaches
<1>7. Stepped => now - OpenedAt(FirstOpen) = Watch!Share(FirstOpen)
  BY <1>1, ShareIs
<1>8. ~Stepped => FirstOpen = att.index
  <2> SUFFICES ASSUME ~Stepped, FirstOpen # att.index PROVE FALSE
    OBVIOUS
  <2>1. att.index \in att.index .. FirstOpen - 1
    BY <1>1, <1>2
  <2>2. quiz.limits[att.index] # 0
    BY <1>1, <2>1 DEF IsExpired
  <2> QED BY <1>2, <2>2 DEF Stepped
<1>9. OpenedAt(att.index) = att.anchor
  <2>1. att.index \in att.index .. Last + 1 /\ att.index \in 1 .. Last + 1
    BY <1>2
  <2>2. OpenedAt(att.index) = att.anchor + (B[att.index] - B[att.index])
    BY <2>1, OpenedSums
  <2>3. B[att.index] \in Nat
    BY <2>1, QuizShape
  <2> QED BY <2>2, <2>3, AttShape
<1> QED BY <1>1, <1>6, <1>7, <1>8, <1>9

-----------------------------------------------------------------------------
(* What ending a pause and ending the attempt do to the row.               *)

Result == {"answered", "timed_out"}

Refines == [Watch!Next]_(Watch!vars)

\* Whole seconds of a pause, and the rest of a second.
LEMMA Length ==
    ASSUME NEW d \in Nat
    PROVE  /\ (d \div Sec) * Sec \in Nat
           /\ d - (d \div Sec) * Sec \in 0 .. Sec - 1
<1>1. Sec \in Nat /\ Sec > 0
  BY ClockAssumption
<1>2. d \div Sec \in Nat /\ d = Sec * (d \div Sec) + (d % Sec) /\ (d % Sec) \in 0 .. Sec - 1
  BY <1>1
<1>3. (d \div Sec) * Sec = Sec * (d \div Sec) /\ Sec * (d \div Sec) \in Nat
  BY <1>1, <1>2
<1> QED BY <1>1, <1>2, <1>3

LEMMA PauseClosedIs ==
    ASSUME NEW a \in Attempt, now \in Nat, a.pausedAt # None => a.pausedAt <= now
    PROVE  /\ PauseClosed(a) \in Attempt
           /\ PauseClosed(a).pausedAt = None
           /\ PauseClosed(a).status = a.status
           /\ PauseClosed(a).index = a.index
           /\ PauseClosed(a).force = a.force
           /\ a.pausedAt # None =>
                 LET length == ((now - a.pausedAt) \div Sec) * Sec
                 IN  /\ PauseClosed(a).pausedSecs = a.pausedSecs + length
                     /\ PauseClosed(a).anchor = a.anchor + length
<1>1. CASE a.pausedAt = None
  BY <1>1 DEF PauseClosed
<1>2. CASE a.pausedAt # None
  <2> DEFINE length == ((now - a.pausedAt) \div Sec) * Sec
  <2>1. a.pausedAt \in Nat /\ now - a.pausedAt \in Nat
    BY <1>2 DEF Attempt
  <2>2. length \in Nat
    BY <2>1, Length
  <2>3. PauseClosed(a) = [a EXCEPT !.pausedAt = None, !.pausedSecs = @ + length,
                                   !.anchor = @ + length]
    BY <1>2 DEF PauseClosed
  <2> HIDE DEF length
  <2>4. PauseClosed(a) \in Attempt
    <3>1. a.pausedSecs + length \in Nat /\ a.anchor + length \in Int
      BY <2>2 DEF Attempt
    <3> QED BY <2>3, <3>1 DEF Attempt
  <2>5. /\ PauseClosed(a).pausedAt = None
        /\ PauseClosed(a).status = a.status
        /\ PauseClosed(a).index = a.index
        /\ PauseClosed(a).force = a.force
        /\ PauseClosed(a).pausedSecs = a.pausedSecs + length
        /\ PauseClosed(a).anchor = a.anchor + length
    BY <2>3 DEF Attempt
  <2> QED BY <2>4, <2>5 DEF length
<1> QED BY <1>1, <1>2

LEMMA FinishedIs ==
    ASSUME NEW a \in Attempt, now \in Nat, a.pausedAt # None => a.pausedAt <= now,
           NEW s \in Ends
    PROVE  /\ Finished(a, s) \in Attempt
           /\ Finished(a, s).pausedAt = None
           /\ Finished(a, s).status = IF a.force THEN "VIOLATION_FAIL" ELSE s
           /\ Finished(a, s).index = a.index
           /\ Finished(a, s).force = a.force
<1> DEFINE b == [a EXCEPT !.status = IF a.force THEN "VIOLATION_FAIL" ELSE s]
<1>1. b \in Attempt /\ b.pausedAt = a.pausedAt /\ b.index = a.index /\ b.force = a.force
      /\ b.status = IF a.force THEN "VIOLATION_FAIL" ELSE s
  BY DEF Attempt, Ends
<1>2. Finished(a, s) = PauseClosed(b)
  BY DEF Finished
<1> HIDE DEF b
<1> QED BY <1>1, <1>2, PauseClosedIs

\* The attempt is over: nothing about its clock is left to keep.
LEMMA EndKeeps ==
    ASSUME IInv, InProgress, att' \in Attempt, att'.status \in Ends, att'.pausedAt = None,
           att'.index \in 1 .. Last + 1, att'.force = att.force,
           att'.status = "VIOLATION_FAIL" => att.force,
           results' \in Seq(Result),
           UNCHANGED <<now, quiz, pauses, timeline, snapshots, asking, clashed>>
    PROVE  IInv'
<1>1. TypeOK'
  BY DEF IInv, TypeOK, Result
<1>2. OnQuestion'
  BY DEF OnQuestion, InProgress, Last, Ends
<1>3. PauseOK'
  BY DEF IInv, PauseOK, PauseHasRow, RowsApart, InProgress, Paused, Ends
<1>4. FailOK'
  BY DEF IInv, FailOK
<1> QED BY <1>1, <1>2, <1>3, <1>4 DEF IInv

LEMMA EndCloses ==
    ASSUME att'.status \in Ends, att'.pausedAt = None
    PROVE  Watch!Closed
BY DEF Watch!Closed, InProgress, Paused, Ends, None

LEMMA EndRefines ==
    ASSUME InProgress, att'.status \in Ends, att'.pausedAt = None,
           att'.index = att.index, UNCHANGED <<quiz, asking>>,
           Paused => att'.status = "VIOLATION_FAIL"
    PROVE  Refines
<1>1. Watch!End
  BY EndCloses DEF Watch!End, InProgress
<1> QED BY <1>1 DEF Refines, Watch!Next

\* A step that leaves the two watches where they are.
LEMMA StandsStill ==
    ASSUME UNCHANGED <<quiz, asking>>, att'.status = att.status, att'.index = att.index,
           Spent' = Spent, Window' = Window, InProgress => Paused' = Paused
    PROVE  Refines
<1>1. (InProgress /\ Paused)' = (InProgress /\ Paused)
  BY DEF InProgress
<1> QED BY <1>1 DEF Refines, Watch!vars, Spent, Window

-----------------------------------------------------------------------------
(* The steps.                                                              *)

LEMMA PauseRow ==
    ASSUME TypeOK
    PROVE  /\ DOMAIN pauses = 1 .. Len(pauses) /\ Len(pauses) \in Nat
           /\ \A i \in DOMAIN pauses :
                 /\ pauses[i] \in [start : Nat, end : Nat \cup {None}]
                 /\ pauses[i].start \in Nat /\ pauses[i].end \in Nat \cup {None}
                 /\ pauses[i].end # None => pauses[i].end \in Nat
<1>1. pauses \in Seq([start : Nat, end : Nat \cup {None}])
  BY DEF TypeOK
<1>2. \A i \in DOMAIN pauses : pauses[i] \in [start : Nat, end : Nat \cup {None}]
  <2> DEFINE Rows == [start : Nat, end : Nat \cup {None}]
  <2> HIDE DEF Rows
  <2>1. pauses \in Seq(Rows)
    BY <1>1 DEF Rows
  <2>2. \A i \in DOMAIN pauses : pauses[i] \in Rows
    BY <2>1
  <2> QED BY <2>2 DEF Rows
<1>3. DOMAIN pauses = 1 .. Len(pauses) /\ Len(pauses) \in Nat
  BY <1>1
<1>4. \A r \in [start : Nat, end : Nat \cup {None}] :
         r.start \in Nat /\ r.end \in Nat \cup {None} /\ (r.end # None => r.end \in Nat)
  OBVIOUS
<1> QED BY <1>2, <1>3, <1>4

LEMMA TickStep ==
    ASSUME IInv, Tick
    PROVE  IInv' /\ Refines
<1>1. /\ now \in Nat /\ now' = now + 1
      /\ UNCHANGED <<quiz, att, results, pauses, timeline, snapshots, asking, clashed>>
  BY DEF Tick, IInv, TypeOK, asks
<1>2. TypeOK' /\ OnQuestion' /\ FailOK'
  BY <1>1 DEF IInv, TypeOK, OnQuestion, FailOK, InProgress, Last
<1>3. PauseOK'
  <2>1. \A i \in DOMAIN pauses : pauses[i].end # None => pauses[i].end \in Nat
    BY PauseRow DEF IInv
  <2>2. Paused => att.pausedAt \in Nat
    BY DEF IInv, TypeOK, Attempt, Paused
  <2>3. Paused' = Paused /\ InProgress' = InProgress
    BY <1>1 DEF Paused, InProgress
  <2> QED BY <1>1, <2>1, <2>2, <2>3 DEF IInv, PauseOK, PauseHasRow, RowsApart
<1>4. Refines
  <2>1. TypeOK
    BY DEF IInv
  <2>2. CASE Paused \/ ~InProgress
    <3>1. InProgress => EffectiveNow' = EffectiveNow
      BY <1>1, <2>2 DEF EffectiveNow, Paused
    <3>2. Spent' = Spent /\ Window' = Window /\ Paused' = Paused
      BY <1>1, <3>1 DEF Spent, Window, InProgress, Elapsed, Stepped, Last, Paused
    <3> QED BY <1>1, <3>2, StandsStill
  <2>3. CASE ~Paused /\ InProgress
    <3>1. EffectiveNow = now /\ EffectiveNow' = now + 1
      BY <1>1, <2>3 DEF EffectiveNow, Paused
    <3>2. Elapsed' = Elapsed + 1
      BY <1>1, <2>1, <3>1, AttShape DEF Elapsed
    <3>3. EffectiveNow' - att'.anchor = (EffectiveNow - att.anchor) + 1
      BY <1>1, <2>1, <3>1, AttShape
    <3>4. Spent' = Spent + 1 /\ Window' = Window + 1
      BY <1>1, <2>3, <3>2, <3>3 DEF Spent, Window, InProgress, Stepped, Last
    <3>5. Watch!Run
      BY <1>1, <2>3, <3>4 DEF Watch!Run, Watch!Open, Spent, Window, InProgress, Paused
    <3> QED BY <3>5 DEF Refines, Watch!Next
  <2> QED BY <2>2, <2>3
<1> QED BY <1>2, <1>3, <1>4 DEF IInv

LEMMA AdvancedIs ==
    ASSUME IInv, InProgress, ~Paused
    PROVE  /\ Advanced \in Attempt
           /\ Advanced.index = FirstOpen /\ Advanced.anchor = OpenedAt(FirstOpen)
           /\ Advanced.status = att.status /\ Advanced.pausedAt = None
           /\ Advanced.pausedSecs = att.pausedSecs /\ Advanced.force = att.force
           /\ results \o Burned \in Seq(Result)
<1>1. TypeOK /\ OnQuestion /\ att \in Attempt
  BY DEF IInv, TypeOK
<1>2. FirstOpen \in att.index .. Last + 1 /\ att.index \in Nat /\ Last \in Nat
  BY <1>1, ReachesFirstOpen, AttShape, QuizShape
<1>3. OpenedAt(FirstOpen) \in Int
  <2>1. OpenedAt(FirstOpen) = att.anchor + (B[FirstOpen] - B[att.index])
    BY <1>1, <1>2, OpenedSums DEF OnQuestion
  <2>2. FirstOpen \in 1 .. Last + 1 /\ att.index \in 1 .. Last + 1
    BY <1>1, <1>2 DEF OnQuestion
  <2>3. B[FirstOpen] \in Nat /\ B[att.index] \in Nat
    BY <1>1, <2>2, QuizShape
  <2> QED BY <1>1, <2>1, <2>3, AttShape
<1>4. Advanced = [att EXCEPT !.index = FirstOpen, !.anchor = OpenedAt(FirstOpen)]
  BY DEF Advanced
<1>5. FirstOpen \in Nat
  BY <1>2
<1>6. Advanced \in Attempt
  BY <1>1, <1>3, <1>4, <1>5 DEF Attempt
<1>7. /\ Advanced.index = FirstOpen /\ Advanced.anchor = OpenedAt(FirstOpen)
      /\ Advanced.status = att.status /\ Advanced.pausedAt = None
      /\ Advanced.pausedSecs = att.pausedSecs /\ Advanced.force = att.force
  BY <1>1, <1>4 DEF Attempt, Paused
<1>8. Burned \in Seq(Result)
  <2>1. Advanced.index - att.index \in Nat
    BY <1>2, <1>7
  <2> QED BY <2>1 DEF Burned, Result
<1>9. results \in Seq(Result)
  BY DEF IInv, TypeOK, Result
<1> QED BY <1>6, <1>7, <1>8, <1>9

\* All the questions that were left are lost.
LEMMA SettleEnds ==
    ASSUME IInv, InProgress, ~Paused, Advanced.index > Last,
           att' = Finished(Advanced, "COMPLETED"), results' = results \o Burned,
           UNCHANGED <<now, quiz, pauses, timeline, snapshots, asking, clashed>>
    PROVE  IInv' /\ Refines
<1>1. TypeOK /\ OnQuestion /\ now \in Nat /\ "COMPLETED" \in Ends
  BY DEF IInv, TypeOK, Ends
<1>2. /\ FirstOpen \in att.index .. Last + 1
      /\ Watch!Reaches(FirstOpen)
  BY <1>1, ReachesFirstOpen
<1>3. /\ Advanced \in Attempt /\ Advanced.index = FirstOpen /\ Advanced.pausedAt = None
      /\ Advanced.force = att.force /\ results \o Burned \in Seq(Result)
  BY AdvancedIs
<1>4. /\ att' \in Attempt /\ att'.pausedAt = None /\ att'.index = FirstOpen
      /\ att'.force = att.force
      /\ att'.status = IF att.force THEN "VIOLATION_FAIL" ELSE "COMPLETED"
  BY <1>1, <1>3, FinishedIs
<1>5. FirstOpen = Last + 1 /\ att.index \in 1 .. Last /\ Last \in Nat
      /\ Last = Len(quiz.limits)
  BY <1>1, <1>2, <1>3, QuizShape DEF OnQuestion
<1>6. att'.status \in Ends /\ att'.index \in 1 .. Last + 1
  BY <1>4, <1>5 DEF Ends
<1>7. IInv'
  BY <1>3, <1>4, <1>6, EndKeeps
<1>8. Watch!Closed
  BY <1>4, <1>6, EndCloses
<1>9. Watch!Lose
  <2>1. FirstOpen \in att.index + 1 .. Len(quiz.limits) + 1 /\ FirstOpen > Len(quiz.limits)
    BY <1>5
  <2> QED BY <1>2, <1>4, <1>8, <2>1 DEF Watch!Lose, Watch!Open, InProgress
<1> QED BY <1>7, <1>9 DEF Refines, Watch!Next

\* Some may be lost; the attempt goes on, on the question that is open then.
LEMMA SettleKeeps ==
    ASSUME IInv, InProgress, ~Paused, ~(Advanced.index > Last),
           att' = Advanced, results' = results \o Burned, asking' \in Nat,
           UNCHANGED <<now, quiz, pauses, timeline, snapshots, clashed>>
    PROVE  /\ IInv'
           /\ InProgress' /\ ~Paused' /\ att'.status = att.status
           /\ FirstOpen \in att.index .. Len(quiz.limits) /\ Watch!Reaches(FirstOpen)
           /\ att'.index = FirstOpen /\ Spent' = Spent
           /\ Window' = Watch!Share(FirstOpen)
           /\ FirstOpen = att.index => Window' = Window
<1>1. TypeOK /\ OnQuestion /\ now \in Nat
  BY DEF IInv, TypeOK
<1>2. /\ FirstOpen \in att.index .. Last + 1
      /\ Watch!Reaches(FirstOpen)
      /\ Stepped => now - OpenedAt(FirstOpen) = Watch!Share(FirstOpen)
      /\ ~Stepped => FirstOpen = att.index
      /\ OpenedAt(att.index) = att.anchor
  BY <1>1, ReachesFirstOpen
<1>3. /\ att' \in Attempt
      /\ att'.index = FirstOpen /\ att'.anchor = OpenedAt(FirstOpen)
      /\ att'.status = att.status /\ att'.pausedAt = None
      /\ att'.pausedSecs = att.pausedSecs /\ att'.force = att.force
      /\ results' \in Seq(Result)
  BY AdvancedIs
<1>4. att.index \in 1 .. Last /\ Last \in Nat /\ Last = Len(quiz.limits) /\ FirstOpen <= Last
      /\ FirstOpen \in Nat /\ att'.index \in 1 .. Last
  BY <1>1, <1>2, <1>3, QuizShape DEF OnQuestion
<1>5. /\ InProgress' = InProgress /\ Paused' = Paused /\ Last' = Last /\ Stepped' = Stepped
      /\ EffectiveNow' = now /\ EffectiveNow = now
  BY <1>3 DEF InProgress, Paused, Last, Stepped, EffectiveNow
<1>6. TypeOK'
  BY <1>3 DEF IInv, TypeOK, Result
<1>7. OnQuestion'
  BY <1>4, <1>5 DEF OnQuestion
<1>8. PauseOK' /\ FailOK'
  BY <1>3, <1>5 DEF IInv, PauseOK, PauseHasRow, RowsApart, FailOK
<1>9. Spent' = Spent /\ Elapsed' = Elapsed
  BY <1>3, <1>5 DEF Spent, Elapsed
<1>10. Watch!Share(att.index) = Window
  BY <1>1, <1>2, ShareIs
<1>11. Window' = Watch!Share(FirstOpen)
  <2>1. CASE Stepped
    BY <1>2, <1>3, <1>5, <2>1 DEF Window
  <2>2. CASE ~Stepped
    BY <1>2, <1>5, <1>9, <1>10, <2>2 DEF Window
  <2> QED BY <2>1, <2>2
<1>12. FirstOpen \in att.index .. Len(quiz.limits)
  BY <1>2, <1>4
<1> QED BY <1>2, <1>3, <1>5, <1>6, <1>7, <1>8, <1>9, <1>10, <1>11, <1>12 DEF IInv

LEMMA SettleStays ==
    ASSUME IInv, InProgress, ~Paused, ~(Advanced.index > Last),
           att' = Advanced, results' = results \o Burned,
           UNCHANGED <<now, quiz, pauses, timeline, snapshots, asking, clashed>>
    PROVE  IInv' /\ Refines
<1>1. asking' \in Nat
  BY DEF IInv, TypeOK
<1>2. /\ IInv'
      /\ InProgress' /\ ~Paused' /\ att'.status = att.status
      /\ FirstOpen \in att.index .. Len(quiz.limits) /\ Watch!Reaches(FirstOpen)
      /\ att'.index = FirstOpen /\ Spent' = Spent
      /\ Window' = Watch!Share(FirstOpen)
      /\ FirstOpen = att.index => Window' = Window
  BY <1>1, SettleKeeps
<1>3. CASE FirstOpen = att.index
  <2>1. UNCHANGED <<quiz, asking>> /\ Window' = Window /\ att'.index = att.index
    BY <1>2, <1>3
  <2>2. Paused' = Paused
    BY <1>2 DEF Paused
  <2>3. att'.status = att.status /\ Spent' = Spent /\ IInv'
    BY <1>2
  <2>4. Refines
    BY <2>1, <2>2, <2>3, StandsStill, Zenon
  <2> QED BY <2>3, <2>4
<1>4. CASE FirstOpen # att.index
  <2>1. att.index \in Nat /\ Len(quiz.limits) \in Nat
    BY AttShape, QuizShape DEF IInv
  <2>2. FirstOpen \in att.index + 1 .. Len(quiz.limits) + 1 /\ FirstOpen <= Len(quiz.limits)
    BY <1>2, <1>4, <2>1
  <2>3. Watch!Lose
    BY <1>2, <2>2 DEF Watch!Lose, Watch!Open, Spent, Window, InProgress
  <2> QED BY <1>2, <2>3 DEF Refines, Watch!Next
<1> QED BY <1>3, <1>4

\* The clock is settled before the provider is asked.
LEMMA SettleAsks ==
    ASSUME IInv, InProgress, ~Paused, ~(Advanced.index > Last),
           att' = Advanced, results' = results \o Burned, asking' = asking + 1,
           UNCHANGED <<now, quiz, pauses, timeline, snapshots, clashed>>
    PROVE  IInv' /\ Refines
<1>1. asking' \in Nat
  BY DEF IInv, TypeOK
<1>2. /\ IInv'
      /\ InProgress' /\ ~Paused' /\ att'.status = att.status
      /\ FirstOpen \in att.index .. Len(quiz.limits) /\ Watch!Reaches(FirstOpen)
      /\ att'.index = FirstOpen /\ Spent' = Spent
      /\ Window' = Watch!Share(FirstOpen)
  BY <1>1, SettleKeeps
<1>3. Watch!Ask
  BY <1>2 DEF Watch!Ask, Watch!Open, Spent, Window, InProgress
<1> QED BY <1>2, <1>3 DEF Refines, Watch!Next

LEMMA ResumeStep ==
    ASSUME IInv, ResumeQuiz
    PROVE  IInv' /\ Refines
<1> DEFINE length == ((now - att.pausedAt) \div Sec) * Sec
           n == Len(pauses)
<1>1. TypeOK /\ OnQuestion /\ now \in Nat /\ Paused /\ att.pausedAt <= now
      /\ att \in Attempt /\ pauses # << >> /\ att.pausedAt # None
      /\ pauses[n] = [start |-> att.pausedAt, end |-> None]
  BY DEF IInv, TypeOK, ResumeQuiz, PauseOK, PauseHasRow, Paused
<1>2. att.pausedAt \in Nat /\ now - att.pausedAt \in Nat
  BY <1>1 DEF Attempt
<1>3. length \in Nat /\ (now - att.pausedAt) - length \in 0 .. Sec - 1
  BY <1>2, Length
<1>4. att' = PauseClosed(att) /\ UNCHANGED <<now, quiz, results, timeline, snapshots, asking, clashed>>
  BY DEF ResumeQuiz, asks
<1>5. /\ att' \in Attempt /\ att'.pausedAt = None /\ att'.status = att.status
      /\ att'.index = att.index /\ att'.force = att.force
      /\ att'.pausedSecs = att.pausedSecs + length
      /\ att'.anchor = att.anchor + length
  BY <1>1, <1>4, PauseClosedIs
<1>6. n \in Nat /\ n \in 1 .. n /\ DOMAIN pauses = 1 .. n /\ pauses \in Seq([start : Nat, end : Nat \cup {None}])
  BY <1>1, PauseRow DEF TypeOK
<1> HIDE DEF length
<1>7. pauses' = [pauses EXCEPT ![n].end = att.pausedAt + length]
  <2> DEFINE open == {i \in DOMAIN pauses : pauses[i].end = None}
  <2>1. n \in open
    BY <1>1, <1>6
  <2>2. \A i \in open : i <= n /\ i \in Nat
    BY <1>6
  <2>3. n = CHOOSE i \in open : \A j \in open : j <= i
    <3> HIDE DEF open
    <3> QED BY <1>6, <2>1, <2>2
  <2>4. att.pausedSecs \in Nat
    BY <1>1 DEF Attempt
  <2>5. att.pausedAt + PauseClosed(att).pausedSecs - att.pausedSecs = att.pausedAt + length
    BY <1>2, <1>3, <1>4, <1>5, <2>4
  <2>6. open # {}
    <3> HIDE DEF open
    <3> QED BY <2>1
  <2> HIDE DEF n
  <2> QED BY <2>3, <2>5, <2>6 DEF ResumeQuiz
<1>8. att.pausedAt + length \in Nat /\ att.pausedAt + length <= now
  BY <1>1, <1>2, <1>3
<1>9. TypeOK'
  <2>1. [pauses[n] EXCEPT !.end = att.pausedAt + length] \in [start : Nat, end : Nat \cup {None}]
    BY <1>1, <1>2, <1>8
  <2>2. pauses' = [pauses EXCEPT ![n] = [pauses[n] EXCEPT !.end = att.pausedAt + length]]
    BY <1>7
  <2>3. pauses' \in Seq([start : Nat, end : Nat \cup {None}])
    <3> DEFINE row == [pauses[n] EXCEPT !.end = att.pausedAt + length]
               Rows == [start : Nat, end : Nat \cup {None}]
    <3> HIDE DEF row, Rows, n
    <3>1. row \in Rows
      BY <2>1 DEF row, Rows
    <3>2. pauses' = [pauses EXCEPT ![n] = row] /\ pauses \in Seq(Rows)
      BY <1>6, <2>2 DEF row, Rows
    <3>3. pauses \in [1 .. n -> Rows] /\ n \in Nat
      BY <1>6, <3>2 DEF n
    <3>4. pauses' \in [1 .. n -> Rows]
      BY <3>1, <3>2, <3>3
    <3>5. pauses' \in Seq(Rows)
      BY <3>3, <3>4
    <3> QED BY <3>5 DEF Rows
  <2> QED BY <1>1, <1>4, <1>5, <2>3 DEF TypeOK
<1>10. InProgress' = InProgress /\ ~Paused' /\ Last' = Last /\ Stepped' = Stepped
  BY <1>4, <1>5 DEF InProgress, Paused, Last, Stepped
<1>11. OnQuestion' /\ FailOK'
  BY <1>4, <1>5, <1>10 DEF IInv, OnQuestion, FailOK
<1>12. PauseOK'
  <2>1. PauseHasRow'
    BY <1>10 DEF PauseHasRow
  <2>2. CASE clashed
    BY <1>4, <2>1, <2>2 DEF PauseOK, RowsApart
  <2>3. CASE ~clashed
    <3>1. \A i \in 1 .. n : pauses[i] \in [start : Nat, end : Nat \cup {None}]
                            /\ pauses[i].start \in Nat /\ pauses[i].end \in Nat \cup {None}
      BY <1>1, <1>6, PauseRow
    <3>2. DOMAIN pauses' = 1 .. n
          /\ \A i \in 1 .. n : /\ pauses'[i].start = pauses[i].start
                               /\ i # n => pauses'[i].end = pauses[i].end
                               /\ i = n => pauses'[i].end = att.pausedAt + length
      BY <1>6, <1>7, <3>1
    <3>3. \A i, j \in 1 .. n : i < j => pauses[i].end # None /\ pauses[i].end <= pauses[j].start
      BY <1>6, <2>3 DEF IInv, PauseOK, RowsApart
    <3>4. pauses[n].start = att.pausedAt
      BY <1>1
    <3> HIDE DEF n
    <3>5. \A i, j \in 1 .. n : i < j => pauses'[i].end # None /\ pauses'[i].end <= pauses'[j].start
      BY <1>6, <3>2, <3>3
    <3>6. \A i \in 1 .. n : pauses'[i].end # None /\ pauses'[i].end <= now
      <4> TAKE i \in 1 .. n
      <4>1. CASE i = n
        BY <1>8, <3>2, <4>1 DEF None
      <4>2. CASE i # n
        <5>1. pauses[i].end # None /\ pauses[i].end <= att.pausedAt /\ pauses[i].end \in Nat
          BY <1>6, <3>1, <3>3, <3>4, <4>2
        <5> QED BY <1>1, <1>2, <3>2, <4>2, <5>1
      <4> QED BY <4>1, <4>2
    <3> QED BY <1>4, <1>10, <2>1, <3>2, <3>5, <3>6 DEF PauseOK, RowsApart
  <2> QED BY <2>2, <2>3
<1>13. CASE ~InProgress
  BY <1>4, <1>5, <1>9, <1>10, <1>11, <1>12, <1>13, StandsStill DEF IInv, Spent, Window
<1>14. CASE InProgress
  <2> DEFINE d == (now - att.pausedAt) - length
  <2>1. EffectiveNow = att.pausedAt /\ EffectiveNow' = now
    BY <1>1, <1>4, <1>10 DEF EffectiveNow
  <2>2. att.pausedSecs \in Nat /\ att.anchor \in Int
    BY <1>1, AttShape
  <2>3. Elapsed' = Elapsed + d
    BY <1>1, <1>2, <1>3, <1>5, <2>1, <2>2 DEF Elapsed
  <2>4. EffectiveNow' - att'.anchor = (EffectiveNow - att.anchor) + d
    BY <1>1, <1>2, <1>3, <1>5, <2>1, <2>2
  <2>5. d \in 0 .. Sec - 1
    BY <1>3
  <2> HIDE DEF d
  <2>6. Spent' = Spent + d /\ Window' = Window + d
    BY <1>10, <1>14, <2>3, <2>4 DEF Spent, Window
  <2>7. Watch!Resume
    BY <1>1, <1>4, <1>5, <1>10, <1>14, <2>5, <2>6 DEF Watch!Resume, Spent, Window
  <2> QED BY <1>9, <1>11, <1>12, <2>7 DEF IInv, Refines, Watch!Next
<1> QED BY <1>13, <1>14

\* A forced failure ends the attempt, paused or not.
LEMMA ForcedStep ==
    ASSUME IInv, InProgress, att.force, att' = Finished(att, "VIOLATION_FAIL"),
           UNCHANGED <<results, now, quiz, pauses, timeline, snapshots, asking, clashed>>
    PROVE  IInv' /\ Refines
<1>1. att \in Attempt /\ now \in Nat /\ "VIOLATION_FAIL" \in Ends
      /\ (att.pausedAt # None => att.pausedAt <= now) /\ results' \in Seq(Result)
  BY DEF IInv, TypeOK, Ends, PauseOK, PauseHasRow, Paused, Result
<1>2. /\ att' \in Attempt /\ att'.pausedAt = None /\ att'.status = "VIOLATION_FAIL"
      /\ att'.index = att.index /\ att'.force = att.force
  BY <1>1, FinishedIs
<1>3. att'.index \in 1 .. Last + 1
  BY <1>2 DEF IInv, OnQuestion
<1> QED BY <1>1, <1>2, <1>3, EndKeeps, EndRefines

\* The budget ran out, or the form was handed in.
LEMMA FinishStep ==
    ASSUME IInv, InProgress, ~Paused, NEW s \in Ends, s # "VIOLATION_FAIL",
           att' = Finished(att, s), results' \in Seq(Result),
           UNCHANGED <<now, quiz, pauses, timeline, snapshots, asking, clashed>>
    PROVE  IInv' /\ Refines
<1>1. att \in Attempt /\ now \in Nat /\ att.pausedAt = None
  BY DEF IInv, TypeOK, Paused
<1>2. /\ att' \in Attempt /\ att'.pausedAt = None
      /\ att'.status = IF att.force THEN "VIOLATION_FAIL" ELSE s
      /\ att'.index = att.index /\ att'.force = att.force
  BY <1>1, FinishedIs
<1>3. att'.index \in 1 .. Last + 1 /\ att'.status \in Ends
  BY <1>2 DEF IInv, OnQuestion, Ends
<1> QED BY <1>2, <1>3, EndKeeps, EndRefines

LEMMA SettleStep ==
    ASSUME IInv, InProgress, ~Paused, Settle(Advanced),
           UNCHANGED <<now, quiz, pauses, timeline, snapshots, asking, clashed>>
    PROVE  IInv' /\ Refines
BY SettleEnds, SettleStays DEF Settle

LEMMA ShowStep ==
    ASSUME IInv, Show
    PROVE  IInv' /\ Refines
<1>1. /\ InProgress /\ (Paused => att.force)
      /\ UNCHANGED <<now, quiz, pauses, timeline, snapshots, asking, clashed>>
  BY DEF Show, asks
<1>2. CASE att.force /\ att' = Finished(att, "VIOLATION_FAIL") /\ UNCHANGED results
  BY <1>1, <1>2, ForcedStep
<1>3. CASE ~att.force /\ att' = Finished(att, "TIMED_OUT") /\ UNCHANGED results
  <2>1. "TIMED_OUT" \in Ends /\ results' \in Seq(Result) /\ ~Paused
    BY <1>1, <1>3 DEF Ends, IInv, TypeOK, Result
  <2> QED BY <1>1, <1>3, <2>1, FinishStep
<1>4. CASE ~att.force /\ Settle(Advanced)
  BY <1>1, <1>4, SettleStep
<1> QED BY <1>2, <1>3, <1>4 DEF Show

LEMMA AnswerStep ==
    ASSUME IInv, NEW i \in 1 .. Last, AnswerQuestion(i)
    PROVE  IInv' /\ Refines
<1>1. /\ InProgress /\ Stepped /\ ~Paused
      /\ UNCHANGED <<now, quiz, pauses, timeline, snapshots, asking, clashed>>
  BY DEF AnswerQuestion, asks
<1>2. CASE att.force /\ att' = Finished(att, "VIOLATION_FAIL") /\ UNCHANGED results
  BY <1>1, <1>2, ForcedStep
<1>3. CASE Settle(Advanced)
  BY <1>1, <1>3, SettleStep
<1>4. CASE /\ Advanced.index = att.index
           /\ results' = Append(results, "answered")
           /\ LET next == [att EXCEPT !.index = @ + 1, !.anchor = now]
              IN  att' = IF next.index > Last THEN Finished(next, "COMPLETED") ELSE next
  <2> DEFINE next == [att EXCEPT !.index = @ + 1, !.anchor = now]
  <2>1. TypeOK /\ OnQuestion /\ now \in Nat /\ att \in Attempt /\ att.pausedAt = None
    BY <1>1 DEF IInv, TypeOK, Paused
  <2>2. att.index \in 1 .. Last /\ Last \in Nat /\ Last = Len(quiz.limits)
    BY <1>1, <2>1, QuizShape DEF OnQuestion
  <2>3. ~Watch!IsLost(att.index)
    <3>1. FirstOpen = att.index
      BY <1>1, <1>4, AdvancedIs
    <3>2. ~IsExpired(att.index)
      BY <2>1, <2>2, <3>1, FirstOpenIs
    <3> QED BY <1>1, <2>1, <2>2, <3>2, LostIsExpired
  <2>4. /\ next \in Attempt /\ next.index = att.index + 1 /\ next.anchor = now
        /\ next.status = att.status /\ next.pausedAt = None
        /\ next.pausedSecs = att.pausedSecs /\ next.force = att.force
    <3>1. att.index + 1 \in Nat /\ now \in Int
      BY <2>1, <2>2
    <3>2. next = [att EXCEPT !.index = att.index + 1, !.anchor = now]
      OBVIOUS
    <3> HIDE DEF next
    <3>3. next \in Attempt
      BY <2>1, <3>1, <3>2 DEF Attempt
    <3> QED BY <2>1, <3>2, <3>3 DEF Attempt
  <2>5. att' = IF next.index > Last THEN Finished(next, "COMPLETED") ELSE next
    BY <1>4
  <2>6. results' \in Seq(Result)
    BY <1>4, <2>1 DEF TypeOK, Result
  <2> HIDE DEF next
  <2>7. CASE next.index > Last
    <3>1. "COMPLETED" \in Ends
      BY DEF Ends
    <3>2. /\ att' \in Attempt /\ att'.pausedAt = None
          /\ att'.status = IF att.force THEN "VIOLATION_FAIL" ELSE "COMPLETED"
          /\ att'.index = att.index + 1 /\ att'.force = att.force
      BY <2>1, <2>4, <2>5, <2>7, <3>1, FinishedIs
    <3>3. att'.status \in Ends /\ att'.index \in 1 .. Last + 1
      BY <2>2, <3>2 DEF Ends
    <3>4. IInv'
      BY <1>1, <2>6, <3>2, <3>3, EndKeeps
    <3>5. Watch!Closed
      BY <3>2, <3>3, EndCloses
    <3>6. att'.index > Len(quiz.limits) /\ att.index <= Len(quiz.limits)
      BY <2>2, <2>4, <2>7, <3>2
    <3>7. Watch!Answer
      BY <1>1, <2>3, <3>2, <3>5, <3>6 DEF Watch!Answer, Watch!Open, InProgress
    <3> QED BY <3>4, <3>7 DEF Refines, Watch!Next
  <2>8. CASE ~(next.index > Last)
    <3>1. att' = next /\ att'.index \in 1 .. Last
      BY <2>2, <2>4, <2>5, <2>8
    <3>2. InProgress' = InProgress /\ Paused' = Paused /\ Last' = Last /\ Stepped' = Stepped
          /\ EffectiveNow' = now
      BY <1>1, <2>1, <2>4, <3>1 DEF InProgress, Paused, Last, Stepped, EffectiveNow
    <3>3. TypeOK'
      BY <1>1, <2>1, <2>4, <2>6, <3>1 DEF TypeOK, Result
    <3>4. OnQuestion' /\ FailOK' /\ PauseOK'
      BY <1>1, <2>2, <2>4, <3>1, <3>2 DEF IInv, OnQuestion, FailOK, PauseOK, PauseHasRow, RowsApart
    <3>5. Spent' = Spent
      BY <1>1, <2>4, <3>1, <3>2 DEF Spent, Elapsed, EffectiveNow
    <3>6. Window' = 0
      BY <1>1, <2>1, <2>4, <3>1, <3>2 DEF Window
    <3>7. att'.index <= Len(quiz.limits) /\ att.index <= Len(quiz.limits)
      BY <2>2, <3>1
    <3>8. Watch!Answer
      BY <1>1, <2>3, <2>4, <3>1, <3>2, <3>5, <3>6, <3>7
      DEF Watch!Answer, Watch!Open, Spent, Window, InProgress
    <3> QED BY <3>3, <3>4, <3>8 DEF IInv, Refines, Watch!Next
  <2> QED BY <2>7, <2>8
<1> QED BY <1>2, <1>3, <1>4 DEF AnswerQuestion

LEMMA SubmitStep ==
    ASSUME IInv, SubmitQuiz
    PROVE  IInv' /\ Refines
<1>1. InProgress /\ ~Paused /\ UNCHANGED <<now, quiz, pauses, timeline, snapshots, asking, clashed>>
  BY DEF SubmitQuiz, asks
<1>2. Last \in Nat
  BY QuizShape DEF IInv
<1>3. results' \in Seq(Result)
  BY <1>2 DEF SubmitQuiz, Result
<1>4. PICK s \in Ends : s # "VIOLATION_FAIL" /\ att' = Finished(att, s)
  BY DEF SubmitQuiz, Ends
<1> QED BY <1>1, <1>3, <1>4, FinishStep

LEMMA RequestPauseStep ==
    ASSUME IInv, RequestPause
    PROVE  IInv' /\ Refines
<1>1. InProgress /\ ~Paused /\ UNCHANGED <<now, quiz, pauses, timeline, snapshots, clashed>>
  BY DEF RequestPause
<1>2. CASE att' = Finished(att, "TIMED_OUT") /\ UNCHANGED <<results, asking>>
  <2>1. "TIMED_OUT" \in Ends /\ results' \in Seq(Result)
    BY <1>2 DEF Ends, IInv, TypeOK, Result
  <2> QED BY <1>1, <1>2, <2>1, FinishStep
<1>3. CASE /\ Settle(Advanced)
           /\ asking' = IF Advanced.index > Last THEN asking ELSE asking + 1
  <2>1. CASE Advanced.index > Last
    BY <1>1, <1>3, <2>1, SettleEnds DEF Settle
  <2>2. CASE ~(Advanced.index > Last)
    BY <1>1, <1>3, <2>2, SettleAsks DEF Settle
  <2> QED BY <2>1, <2>2
<1> QED BY <1>2, <1>3 DEF RequestPause

\* An alert: the pause has its row, whatever has become of the attempt.
LEMMA BeginPauseStep ==
    ASSUME IInv, BeginPause
    PROVE  IInv' /\ Refines
<1>1. /\ TypeOK /\ OnQuestion /\ now \in Nat /\ now # None /\ att \in Attempt
      /\ asking \in Nat /\ asking > 0 /\ asking' = asking - 1
      /\ att' = [att EXCEPT !.pausedAt = now]
      /\ pauses' = Append(pauses, [start |-> now, end |-> None])
      /\ clashed' = (clashed \/ Paused \/ ~InProgress)
      /\ UNCHANGED <<now, quiz, results, timeline, snapshots>>
  BY DEF IInv, TypeOK, BeginPause, None
<1>2. /\ att' \in Attempt /\ att'.status = att.status /\ att'.index = att.index
      /\ att'.anchor = att.anchor /\ att'.pausedSecs = att.pausedSecs
      /\ att'.force = att.force /\ att'.pausedAt = now
  BY <1>1 DEF Attempt
<1>3. /\ InProgress' = InProgress /\ Paused' /\ Last' = Last /\ Stepped' = Stepped
      /\ EffectiveNow' = now
  BY <1>1, <1>2 DEF InProgress, Paused, Last, Stepped, EffectiveNow
<1>4. TypeOK'
  <2>1. [start |-> now, end |-> None] \in [start : Nat, end : Nat \cup {None}]
    BY <1>1
  <2>2. pauses' \in Seq([start : Nat, end : Nat \cup {None}])
    BY <1>1, <2>1 DEF TypeOK
  <2>3. (clashed \/ Paused \/ ~InProgress) \in BOOLEAN
    BY Zenon
  <2>4. clashed' \in BOOLEAN
    BY <1>1, <2>3
  <2>5. asking' \in Nat
    BY <1>1
  <2> QED BY <1>1, <1>2, <2>2, <2>4, <2>5 DEF TypeOK
<1>5. OnQuestion' /\ FailOK'
  BY <1>1, <1>2, <1>3 DEF IInv, OnQuestion, FailOK
<1>6. PauseOK'
  <2> DEFINE n == Len(pauses)
             row == [start |-> now, end |-> None]
  <2>1. n \in Nat /\ DOMAIN pauses = 1 .. n /\ DOMAIN pauses' = 1 .. n + 1
        /\ Len(pauses') = n + 1 /\ pauses'[n + 1] = row
        /\ \A i \in 1 .. n : pauses'[i] = pauses[i]
    BY <1>1, PauseRow DEF TypeOK
  <2>2. row.start = now /\ row.end = None /\ pauses' # << >>
    BY <2>1
  <2>3. PauseHasRow'
    BY <1>1, <1>2, <2>1, <2>2 DEF PauseHasRow
  <2> HIDE DEF n, row
  <2>4. RowsApart'
    <3> SUFFICES ASSUME ~clashed'
                 PROVE  \A i, j \in 1 .. n + 1 :
                           i < j => pauses'[i].end # None /\ pauses'[i].end <= pauses'[j].start
      BY <1>1, <1>3, <2>1 DEF RowsApart
    <3>1. ~clashed /\ ~Paused /\ InProgress
      BY <1>1
    <3>2. \A i \in 1 .. n : pauses[i].end # None /\ pauses[i].end <= now
      BY <2>1, <3>1 DEF IInv, PauseOK, RowsApart
    <3>3. \A i, j \in 1 .. n : i < j => pauses[i].end # None /\ pauses[i].end <= pauses[j].start
      BY <2>1, <3>1 DEF IInv, PauseOK, RowsApart
    <3> TAKE i, j \in 1 .. n + 1
    <3> HAVE i < j
    <3>4. i \in 1 .. n
      BY <2>1
    <3>5. CASE j \in 1 .. n
      BY <2>1, <3>3, <3>4, <3>5
    <3>6. CASE j = n + 1
      BY <2>1, <2>2, <3>2, <3>4, <3>6
    <3> QED BY <2>1, <3>5, <3>6
  <2> QED BY <2>3, <2>4 DEF PauseOK
<1>7. Refines
  <2>1. CASE ~InProgress
    <3>1. Watch!Refuse
      BY <1>1, <1>2, <1>3, <2>1 DEF Watch!Refuse, InProgress
    <3> QED BY <3>1 DEF Refines, Watch!Next
  <2>2. CASE InProgress /\ ~Paused
    <3>1. EffectiveNow = now /\ Elapsed' = Elapsed
      BY <1>1, <1>2, <1>3, <2>2 DEF EffectiveNow, Elapsed
    <3>2. Spent' = Spent /\ Window' = Window
      BY <1>2, <1>3, <2>2, <3>1 DEF Spent, Window
    <3>3. Watch!Pause
      BY <1>1, <1>2, <1>3, <2>2, <3>2 DEF Watch!Pause, Watch!Open, Spent, Window, InProgress
    <3> QED BY <3>3 DEF Refines, Watch!Next
  <2>3. CASE InProgress /\ Paused
    <3>1. EffectiveNow = att.pausedAt /\ att.pausedAt \in Nat /\ att.pausedAt <= now
      BY <1>1, <2>3 DEF EffectiveNow, IInv, PauseOK, PauseHasRow, Attempt, Paused
    <3>2. att.pausedSecs \in Nat /\ att.anchor \in Int
      BY <1>1, AttShape
    <3>3. /\ Elapsed \in Int /\ Elapsed' = Elapsed + (now - att.pausedAt)
          /\ EffectiveNow' - att'.anchor = (EffectiveNow - att.anchor) + (now - att.pausedAt)
          /\ EffectiveNow - att.anchor \in Int
      BY <1>1, <1>2, <1>3, <3>1, <3>2 DEF Elapsed
    <3>4. Spent' >= Spent /\ Window' = Window + (Spent' - Spent)
      BY <1>1, <1>3, <2>3, <3>1, <3>3 DEF Spent, Window
    <3>5. Watch!Restart
      BY <1>1, <1>2, <1>3, <2>3, <3>4 DEF Watch!Restart, Spent, Window, InProgress
    <3> QED BY <3>5 DEF Refines, Watch!Next
  <2> QED BY <2>1, <2>2, <2>3
<1> QED BY <1>4, <1>5, <1>6, <1>7 DEF IInv

LEMMA RefusePauseStep ==
    ASSUME IInv, RefusePause
    PROVE  IInv' /\ Refines
<1>1. /\ asking \in Nat /\ asking > 0 /\ asking' = asking - 1
      /\ UNCHANGED <<now, quiz, att, results, pauses, timeline, snapshots, clashed>>
  BY DEF IInv, TypeOK, RefusePause
<1>2. asking' \in Nat
  BY <1>1
<1>3. IInv'
  BY <1>1, <1>2 DEF IInv, TypeOK, OnQuestion, PauseOK, PauseHasRow, RowsApart, FailOK,
                    InProgress, Paused, Last
<1>4. Watch!Refuse
  BY <1>1 DEF Watch!Refuse, InProgress, Paused, Elapsed, EffectiveNow, Stepped, Last
<1> QED BY <1>3, <1>4 DEF Refines, Watch!Next

\* An event may take from a window or fail the attempt, never move it.
LEMMA PunishedIs ==
    ASSUME NEW a \in Attempt, NEW action
    PROVE  /\ Punished(a, action) \in Attempt
           /\ Punished(a, action).status = a.status
           /\ Punished(a, action).index = a.index
           /\ Punished(a, action).pausedAt = a.pausedAt
           /\ Punished(a, action).pausedSecs = a.pausedSecs
           /\ Punished(a, action).force => a.force \/ action = "fail"
           /\ \/ Punished(a, action).anchor = a.anchor
              \/ Stepped /\ Punished(a, action).anchor = a.anchor - Penalty
<1>1. Penalty \in Nat
  BY ClockAssumption
<1>2. CASE action = "fail"
  BY <1>2 DEF Punished, Attempt
<1>3. CASE action = "flag"
  BY <1>3 DEF Punished, Attempt
<1>4. CASE action = "reduce_time" /\ Stepped
  <2>1. Punished(a, action) = [a EXCEPT !.anchor = a.anchor - Penalty]
    BY <1>4 DEF Punished
  <2>2. a.anchor - Penalty \in Int
    BY <1>1 DEF Attempt
  <2> QED BY <1>4, <2>1, <2>2 DEF Attempt
<1>5. CASE action = "reduce_time" /\ ~Stepped
  <2>1. Punished(a, action) = [a EXCEPT !.penalty = a.penalty + Penalty]
    BY <1>5 DEF Punished
  <2>2. a.penalty + Penalty \in Nat
    BY <1>1 DEF Attempt
  <2> QED BY <1>5, <2>1, <2>2 DEF Attempt
<1>6. CASE action \notin {"fail", "flag", "reduce_time"}
  BY <1>6 DEF Punished
<1> QED BY <1>2, <1>3, <1>4, <1>5, <1>6

LEMMA RecordedIs ==
    ASSUME TypeOK, NEW action
    PROVE  /\ Recorded(action) \in [rows : Nat, fail : BOOLEAN]
           /\ timeline.fail \/ action = "fail" => Recorded(action).fail
<1>1. timeline \in [rows : Nat, fail : BOOLEAN] /\ MaxRows \in Nat
  BY ClockAssumption DEF TypeOK
<1>2. CASE action # "fail" /\ timeline.rows >= MaxRows
  BY <1>1, <1>2 DEF Recorded
<1>3. CASE ~(action # "fail" /\ timeline.rows >= MaxRows)
  <2> DEFINE r == [rows |-> timeline.rows + 1, fail |-> timeline.fail \/ action = "fail"]
  <2>1. Recorded(action) = r
    BY <1>3 DEF Recorded
  <2>2. timeline.rows + 1 \in Nat /\ (timeline.fail \/ action = "fail") \in BOOLEAN
    BY <1>1
  <2>3. r \in [rows : Nat, fail : BOOLEAN] /\ (r.fail <=> timeline.fail \/ action = "fail")
    BY <2>2
  <2> QED BY <2>1, <2>3
<1> QED BY <1>2, <1>3

LEMMA ReportStep ==
    ASSUME IInv, NEW e \in Events, ReportViolation(e)
    PROVE  IInv' /\ Refines
<1> DEFINE count == att.counts[e] + 1
           action == ActionOf(e, count)
           b == [att EXCEPT !.counts[e] = count]
<1>1. TypeOK /\ att \in Attempt /\ UNCHANGED <<now, quiz, results, pauses, snapshots, asking, clashed>>
  BY DEF IInv, TypeOK, ReportViolation, asks
<1>2. CASE timeline' = Recorded("none") /\ UNCHANGED att
  <2>1. timeline' \in [rows : Nat, fail : BOOLEAN] /\ (timeline.fail => timeline'.fail)
    BY <1>1, <1>2, RecordedIs
  <2>2. IInv'
    BY <1>1, <1>2, <2>1
    DEF IInv, TypeOK, OnQuestion, PauseOK, PauseHasRow, RowsApart, FailOK, InProgress, Paused, Last
  <2>3. Refines
    BY <1>1, <1>2, StandsStill
    DEF Spent, Window, InProgress, Paused, Elapsed, EffectiveNow, Stepped, Last
  <2> QED BY <2>2, <2>3
<1>3. CASE ~IsIgnored(e) /\ att' = Punished(b, action) /\ timeline' = Recorded(action)
  <2>1. InProgress /\ ~Paused
    BY <1>3 DEF IsIgnored
  <2>2. /\ b \in Attempt /\ b.status = att.status /\ b.index = att.index /\ b.force = att.force
        /\ b.pausedAt = att.pausedAt /\ b.pausedSecs = att.pausedSecs /\ b.anchor = att.anchor
    <3>1. att.counts \in [Events -> Nat] /\ count \in Nat
      BY <1>1 DEF Attempt
    <3> HIDE DEF count
    <3>2. b = [att EXCEPT !.counts = [att.counts EXCEPT ![e] = count]]
      BY <1>1 DEF Attempt
    <3>3. [att.counts EXCEPT ![e] = count] \in [Events -> Nat]
      BY <3>1
    <3> HIDE DEF b
    <3> QED BY <1>1, <3>2, <3>3 DEF Attempt
  <2> HIDE DEF b, action
  <2>3. /\ att' \in Attempt /\ att'.status = att.status /\ att'.index = att.index
        /\ att'.pausedAt = att.pausedAt /\ att'.pausedSecs = att.pausedSecs
        /\ att'.force => att.force \/ action = "fail"
        /\ att'.anchor = att.anchor \/ (Stepped /\ att'.anchor = att.anchor - Penalty)
    BY <1>3, <2>2, PunishedIs
  <2>4. /\ timeline' \in [rows : Nat, fail : BOOLEAN]
        /\ timeline.fail \/ action = "fail" => timeline'.fail
    BY <1>1, <1>3, RecordedIs
  <2>5. TypeOK'
    BY <1>1, <2>3, <2>4 DEF TypeOK
  <2>6. InProgress' = InProgress /\ Paused' = Paused /\ Last' = Last /\ Stepped' = Stepped
        /\ EffectiveNow' = EffectiveNow /\ Elapsed' = Elapsed
    BY <1>1, <2>3 DEF InProgress, Paused, Last, Stepped, EffectiveNow, Elapsed
  <2>7. OnQuestion' /\ PauseOK'
    BY <1>1, <2>3, <2>6 DEF IInv, OnQuestion, PauseOK, PauseHasRow, RowsApart
  <2>8. FailOK'
    BY <2>1, <2>3, <2>4 DEF IInv, FailOK, InProgress
  <2>9. Spent' = Spent
    BY <2>6 DEF Spent
  <2>10. Refines
    <3>1. CASE att'.anchor = att.anchor
      BY <1>1, <2>3, <2>6, <2>9, <3>1, StandsStill DEF Window
    <3>2. CASE Stepped /\ att'.anchor = att.anchor - Penalty
      <4>1. Penalty \in Nat /\ att.anchor \in Int /\ EffectiveNow \in Nat
        BY <1>1, AttShape, ClockAssumption
      <4>2. Window' = Window + Penalty
        BY <2>1, <2>6, <3>2, <4>1 DEF Window
      <4>3. Watch!Penalise
        BY <1>1, <2>1, <2>3, <2>6, <2>9, <4>2
        DEF Watch!Penalise, Watch!Open, Spent, Window, InProgress
      <4> QED BY <4>3 DEF Refines, Watch!Next
    <3> QED BY <2>3, <3>1, <3>2
  <2> QED BY <2>5, <2>7, <2>8, <2>10 DEF IInv
<1> QED BY <1>2, <1>3 DEF ReportViolation

\* Evidence leaves the attempt as it is.
LEMMA EvidenceStep ==
    ASSUME IInv, ReportReturn \/ UploadSnapshot
    PROVE  IInv' /\ Refines
<1>1. TypeOK /\ UNCHANGED <<now, quiz, att, results, pauses, asking, clashed>>
  BY DEF IInv, ReportReturn, UploadSnapshot, asks
<1>2. timeline' \in [rows : Nat, fail : BOOLEAN] /\ (timeline.fail => timeline'.fail)
  <2>1. CASE ReportReturn
    BY <1>1, <2>1, RecordedIs DEF ReportReturn
  <2>2. CASE UploadSnapshot
    BY <1>1, <2>2 DEF UploadSnapshot, TypeOK
  <2> QED BY <2>1, <2>2
<1>3. snapshots' \in 0 .. MaxSnapshots
  BY <1>1, ClockAssumption DEF ReportReturn, UploadSnapshot, TypeOK
<1>4. IInv'
  BY <1>1, <1>2, <1>3
  DEF IInv, TypeOK, OnQuestion, PauseOK, PauseHasRow, RowsApart, FailOK, InProgress, Paused, Last
<1>5. Refines
  BY <1>1, StandsStill
  DEF Spent, Window, InProgress, Paused, Elapsed, EffectiveNow, Stepped, Last
<1> QED BY <1>4, <1>5

-----------------------------------------------------------------------------
(* The theorems.                                                           *)

LEMMA InitHolds ==
    ASSUME Init
    PROVE  IInv /\ Watch!Init
<1>1. quiz \in Quizzes /\ quiz.limits # << >> /\ quiz.limits \in Seq(Nat)
  BY ClockAssumption DEF Init
<1>2. att \in Attempt /\ att.status = "IN_PROGRESS" /\ att.index = 1 /\ att.anchor = 0
      /\ att.pausedAt = None /\ att.pausedSecs = 0 /\ att.force = FALSE
  BY DEF Init, Attempt
<1>3. TypeOK
  <2>1. now \in Nat /\ quiz \in Quizzes /\ snapshots \in 0 .. MaxSnapshots /\ asking \in Nat
    BY <1>1, ClockAssumption DEF Init
  <2>2. /\ results \in Seq({"answered", "timed_out"})
        /\ pauses \in Seq([start : Nat, end : Nat \cup {None}])
    BY DEF Init
  <2>3. timeline \in [rows : Nat, fail : BOOLEAN] /\ clashed \in BOOLEAN
    BY DEF Init
  <2> QED BY <1>2, <2>1, <2>2, <2>3 DEF TypeOK
<1>4. OnQuestion
  <2>1. Last \in Nat \ {0}
    BY <1>1 DEF Last
  <2> QED BY <1>2, <2>1 DEF OnQuestion
<1>5. PauseOK /\ FailOK
  BY <1>2 DEF Init, PauseOK, PauseHasRow, RowsApart, FailOK, Paused
<1>6. InProgress /\ ~Paused /\ EffectiveNow = 0 /\ Elapsed = 0
  BY <1>2 DEF Init, InProgress, Paused, EffectiveNow, Elapsed
<1>7. Watch!Init
  BY <1>2, <1>6 DEF Watch!Init, Init
<1> QED BY <1>3, <1>4, <1>5, <1>7 DEF IInv

LEMMA NextStep ==
    ASSUME IInv, [Next]_vars
    PROVE  IInv' /\ Refines
<1>1. CASE UNCHANGED vars
  <2>1. UNCHANGED <<now, quiz, att, results, pauses, timeline, snapshots, asking, clashed>>
    BY <1>1 DEF vars, asks
  <2>2. IInv'
    BY <2>1 DEF IInv, TypeOK, OnQuestion, PauseOK, PauseHasRow, RowsApart, FailOK, InProgress, Paused, Last
  <2>3. Refines
    BY <2>1, StandsStill
    DEF Spent, Window, InProgress, Paused, Elapsed, EffectiveNow, Stepped, Last
  <2> QED BY <2>2, <2>3
<1>2. CASE Next
  BY <1>2, TickStep, ShowStep, SubmitStep, RequestPauseStep, BeginPauseStep, RefusePauseStep,
     ResumeStep, AnswerStep, ReportStep, EvidenceStep DEF Next
<1> QED BY <1>1, <1>2

LEMMA IInvExplains ==
    ASSUME IInv
    PROVE  TimelineExplains
<1>1. PauseIsRecorded
  <2>1. Paused => \E i \in DOMAIN pauses : pauses[i] = [start |-> att.pausedAt, end |-> None]
    <3> HAVE Paused
    <3>1. Len(pauses) \in DOMAIN pauses
      BY PauseRow DEF IInv, PauseOK, PauseHasRow, TypeOK
    <3> QED BY <3>1 DEF IInv, PauseOK, PauseHasRow
  <2> QED BY <2>1 DEF IInv, PauseOK, RowsApart, PauseIsRecorded, PausedIsOpen
<1>2. FailureIsExplained
  BY DEF IInv, FailOK, FailureIsExplained
<1> QED BY <1>1, <1>2 DEF TimelineExplains

\* The inductive invariant, and with it the type of every variable of an attempt,
\* holds throughout (student_quiz.py).
THEOREM ClockInvariant == Spec => []IInv
<1>1. Init => IInv
  BY InitHolds
<1>2. IInv /\ [Next]_vars => IInv'
  BY NextStep
<1> QED BY <1>1, <1>2, PTL DEF Spec

\* The timestamps of student_quiz.py implement the two stopwatches, whatever the
\* windows, budget, penalties and rules are and however many requests for a pause
\* wait for the provider, also when their answers find the attempt paused or closed:
\* no window or budget runs during a pause, the time it was begun anew is spent, and
\* a question is lost when its own window and grace are used up and not before.
THEOREM ImplementsStopwatch == Spec => KeepsStopwatch
<1>1. Init => Watch!Init
  BY InitHolds
<1>2. IInv /\ [Next]_vars => [Watch!Next]_(Watch!vars)
  BY NextStep DEF Refines
<1> QED BY <1>1, <1>2, ClockInvariant, PTL DEF Spec, KeepsStopwatch, Watch!Spec

\* request_air_raid_pause and _record_event: a pause has the row that began with it,
\* and an automatic failure the event that explains it, however many events came
\* before.  As long as no alert came back to an attempt that was paused or closed
\* meanwhile, a paused attempt is in progress and no two rows overlap.
THEOREM TimelineIsComplete == Spec => []TimelineExplains
<1>1. IInv => TimelineExplains
  BY IInvExplains
<1> QED BY <1>1, ClockInvariant, PTL

-----------------------------------------------------------------------------
(* SquadQuiz.                                                              *)

\* An attempt that counts as passed ended regularly.
PassedIsFinished ==
    \A i \in DOMAIN attempts : attempts[i].passed => attempts[i].state = "FINISHED"

\* What a request in flight relies on: the attempt it ends is open and nobody
\* else ends it, the draw it would write back is the one there is, the attempts it
\* re-scores are closed.
Sane(r) ==
    LET q == req[r] IN
    /\ q.op = "finish" =>
          /\ q.on \in DOMAIN attempts /\ attempts[q.on].state = "IN_PROGRESS"
          /\ \A s \in Slots \ {r} : req[s].op = "finish" => req[s].on # q.on
    /\ q.op = "grant" => q.drawn = draw /\ draw # NoDraw
    /\ q.op = "accept" =>
          /\ q.flipped \subseteq q.ids /\ q.ids \subseteq DOMAIN attempts
          /\ \A i \in q.ids : attempts[i].state = "FINISHED"
          /\ q.moves => \A m \in enrolled : \E i \in DOMAIN attempts :
                           attempts[i].by = m /\ (attempts[i].passed \/ i \in q.flipped)

\* Until a grant brings it back, whoever ends an attempt has loaded QUIZ_SENT.
LoadedSent ==
    grants = 0 /\ status = "QUIZ_SENT" =>
        \A r \in Slots : req[r].op = "finish" => req[r].status = "QUIZ_SENT"

\* NobodyWaitsForNothing, with requests in flight.
SomebodyMissing ==
    credited = {} /\ enrolled = Members /\ grants = 0 /\ status = "QUIZ_SENT" =>
        \E m \in Members : ~HasPassed(m, attempts)

\* The inductive invariant.
SquadQuizIInv ==
    /\ SquadQuizTypeOK
    /\ PassedIsFinished
    /\ \A r \in Slots : Sane(r)
    /\ OneDraw
    /\ LoadedSent
    /\ SomebodyMissing

\* What MovesOnTogether asks of a step.
MovedTogether ==
    status # PassedTo /\ status' = PassedTo
    => \A m \in enrolled : \E i \in DOMAIN attempts' :
          attempts'[i].by = m /\ attempts'[i].passed /\ attempts'[i].state = "FINISHED"

-----------------------------------------------------------------------------
(* The split of a draw: split_draw.                                        *)

\* The place of m among the members, by id.
Seat(m) == Cardinality({n \in Members : n < m})

LEMMA MembersAre == Cardinality(Members) \in Nat \ {0} /\ IsFiniteSet(Members)
<1>1. IsFiniteSet(Members) /\ Members # {}
  BY SquadQuizAssumption
<1> QED BY <1>1, FS_CardinalityType, FS_EmptySet

LEMMA SeatType ==
    ASSUME NEW m \in Members
    PROVE  Seat(m) \in 0 .. Cardinality(Members) - 1
<1> DEFINE S == {n \in Members : n < m}
<1>1. S \in SUBSET (Members \ {m})
  BY SquadQuizAssumption
<1>2. /\ IsFiniteSet(Members \ {m})
      /\ Cardinality(Members \ {m}) = Cardinality(Members) - 1
  BY MembersAre, FS_RemoveElement
<1>3. IsFiniteSet(S) /\ Cardinality(S) <= Cardinality(Members) - 1
  BY <1>1, <1>2, FS_Subset
<1>4. Cardinality(S) \in Nat
  BY <1>3, FS_CardinalityType
<1>5. Seat(m) = Cardinality(S)
  BY DEF Seat
<1> HIDE DEF S
<1> QED BY <1>3, <1>4, <1>5, MembersAre

\* Two members never have the same seat.
LEMMA SeatLess ==
    ASSUME NEW m \in Members, NEW n \in Members, m < n
    PROVE  Seat(m) # Seat(n)
<1> DEFINE S == {x \in Members : x < m}
           T == {x \in Members : x < n}
<1>1. S \in SUBSET T /\ m \in T /\ m \notin S
  <2>1. m \in Nat /\ n \in Nat /\ \A x \in Members : x \in Nat
    BY SquadQuizAssumption
  <2>2. \A x \in Members : x < m => x < n
    BY <2>1
  <2>3. ~(m < m)
    BY <2>1
  <2> QED BY <2>2, <2>3
<1>2. IsFiniteSet(T)
  BY MembersAre, FS_Subset
<1>3. Cardinality(S) # Cardinality(T)
  BY <1>1, <1>2, FS_Subset
<1> QED BY <1>3 DEF Seat

LEMMA SeatsDiffer ==
    ASSUME NEW m \in Members, NEW n \in Members, m # n
    PROVE  Seat(m) # Seat(n)
<1>1. m < n \/ n < m
  BY SquadQuizAssumption
<1> QED BY <1>1, SeatLess

\* A function between sets of one size that never repeats leaves nothing out.
LEMMA InjectiveIsOnto ==
    ASSUME NEW S, NEW T, IsFiniteSet(S), IsFiniteSet(T), Cardinality(S) = Cardinality(T),
           NEW f \in [S -> T], \A x, y \in S : x # y => f[x] # f[y], NEW t \in T
    PROVE  \E x \in S : f[x] = t
<1> SUFFICES ASSUME \A x \in S : f[x] # t PROVE FALSE
  OBVIOUS
<1>1. f \in [S -> T \ {t}]
  OBVIOUS
<1>2. IsFiniteSet(T \ {t}) /\ Cardinality(T \ {t}) = Cardinality(T) - 1 /\ Cardinality(T) \in Nat
  BY FS_RemoveElement, FS_CardinalityType
<1>3. Cardinality(T \ {t}) < Cardinality(S)
  BY <1>2
<1>4. \E x, y \in S : x # y /\ f[x] = f[y]
  BY <1>1, <1>2, <1>3, FS_PigeonHole
<1> QED BY <1>4

LEMMA EverySeatTaken ==
    ASSUME NEW k \in 0 .. Cardinality(Members) - 1
    PROVE  \E m \in Members : Seat(m) = k
<1> DEFINE T == 0 .. Cardinality(Members) - 1
           f == [m \in Members |-> Seat(m)]
<1>1. f \in [Members -> T]
  BY SeatType
<1>2. \A x, y \in Members : x # y => f[x] # f[y]
  BY SeatsDiffer
<1>3. IsFiniteSet(T) /\ Cardinality(T) = Cardinality(Members)
  BY MembersAre, FS_Interval
<1> HIDE DEF f, T
<1>4. k \in T
  BY DEF T
<1>5. \E x \in Members : f[x] = k
  BY <1>1, <1>2, <1>3, <1>4, MembersAre, InjectiveIsOnto
<1> QED BY <1>5 DEF f

\* split_draw gives every question of the draw to exactly one member.
LEMMA SlicesPartition ==
    ASSUME NEW D \in SUBSET Questions, NEW slices \in Slices(D)
    PROVE  /\ slices \in [Members -> SUBSET Questions]
           /\ \A m, n \in Members : m # n => slices[m] \cap slices[n] = {}
           /\ UNION {slices[m] : m \in Members} = D
<1> DEFINE M == Cardinality(Members)
           S == 0 .. Cardinality(D) - 1
<1>1. IsFiniteSet(D) /\ Cardinality(D) \in Nat
  BY SquadQuizAssumption, FS_Subset, FS_CardinalityType
<1>2. PICK f \in [S -> D] :
         /\ \A i, j \in S : i < j => f[i] # f[j]
         /\ slices = [m \in Members |-> {f[i] : i \in {j \in DOMAIN f : j % M = Seat(m)}}]
  BY DEF Slices, Seat
<1>3. DOMAIN f = S
  OBVIOUS
<1>4. \A m \in Members : slices[m] = {f[i] : i \in {j \in S : j % M = Seat(m)}}
  BY <1>2, <1>3
<1>5. \A i, j \in S : i # j => f[i] # f[j]
  BY <1>1, <1>2
<1>6. slices \in [Members -> SUBSET Questions]
  BY <1>2, <1>3
<1>7. ASSUME NEW m \in Members, NEW n \in Members, m # n
      PROVE  slices[m] \cap slices[n] = {}
  <2> SUFFICES ASSUME NEW x \in slices[m], x \in slices[n] PROVE FALSE
    OBVIOUS
  <2>1. PICK i \in S : i % M = Seat(m) /\ x = f[i]
    BY <1>4
  <2>2. PICK j \in S : j % M = Seat(n) /\ x = f[j]
    BY <1>4
  <2>3. i = j
    BY <1>5, <2>1, <2>2
  <2> QED BY <1>7, <2>1, <2>2, <2>3, SeatsDiffer
<1>8. ASSUME NEW d \in D PROVE \E m \in Members : d \in slices[m]
  <2>1. IsFiniteSet(S) /\ Cardinality(S) = Cardinality(D)
    BY <1>1, FS_Interval
  <2>2. PICK i \in S : f[i] = d
    BY <1>1, <1>5, <2>1, InjectiveIsOnto
  <2>3. i % M \in 0 .. M - 1
    BY <1>1, MembersAre
  <2>4. PICK m \in Members : Seat(m) = i % M
    BY <2>3, EverySeatTaken
  <2> QED BY <1>4, <2>2, <2>4
<1>9. \A m \in Members : slices[m] \subseteq D
  BY <1>4
<1> QED BY <1>6, <1>7, <1>8, <1>9

-----------------------------------------------------------------------------
(* Requests.                                                               *)

LEMMA ReqShape ==
    ASSUME SquadQuizTypeOK, NEW r \in Slots
    PROVE  LET q == req[r] IN
           /\ q.op = "start" => q.by \in Members /\ q.retry \in BOOLEAN
           /\ q.op = "finish" =>
                 /\ q.on \in Nat /\ q.force \in BOOLEAN /\ q.status \in Status
                 /\ q.right \in SUBSET Questions
           /\ q.op = "grant" =>
                 /\ q.by \in Members /\ q.extra \in [Members -> Nat]
                 /\ q.drawn \in Draw /\ q.status \in Status
           /\ q.op = "accept" =>
                 /\ q.on \in Questions /\ q.ids \in SUBSET Nat /\ q.flipped \in SUBSET Nat
                 /\ q.moves \in BOOLEAN
<1>1. req[r] \in Request
  BY DEF SquadQuizTypeOK
<1> QED BY <1>1 DEF Request, Idle

LEMMA AttemptShape ==
    ASSUME SquadQuizTypeOK, NEW i \in DOMAIN attempts
    PROVE  attempts[i] \in SquadAttempt /\ i \in Nat
BY DEF SquadQuizTypeOK

LEMMA NoDrawIsNone == NoDraw \notin [Members -> SUBSET Questions]
<1>1. DOMAIN NoDraw = {}
  BY DEF NoDraw
<1>2. Members # {}
  BY SquadQuizAssumption
<1> QED BY <1>1, <1>2

LEMMA DoneTypes ==
    ASSUME SquadQuizTypeOK, NEW r \in Slots, Done(r)
    PROVE  /\ req' \in [Slots -> Request] /\ req'[r].op = "idle"
           /\ \A x \in Slots \ {r} : req'[x] = req[x]
BY DEF SquadQuizTypeOK, Done, Request, Idle

\* The requests in flight stay sane while attempts are only added, closed or
\* passed, none of theirs is closed by somebody else, and the draw stays.
LEMMA SaneStays ==
    ASSUME SquadQuizIInv, NEW r \in Slots, Done(r),
           DOMAIN attempts \subseteq DOMAIN attempts', enrolled' \subseteq enrolled,
           \A i \in DOMAIN attempts :
              /\ attempts'[i].by = attempts[i].by
              /\ attempts[i].passed => attempts'[i].passed
              /\ attempts[i].state = "FINISHED" => attempts'[i].state = "FINISHED",
           \A x \in Slots \ {r} :
              req[x].op = "finish" => attempts'[req[x].on].state = attempts[req[x].on].state,
           draw # NoDraw => draw' = draw
    PROVE  \A x \in Slots : Sane(x)'
<1> SUFFICES ASSUME NEW x \in Slots PROVE Sane(x)'
  OBVIOUS
<1>1. /\ req'[r].op = "idle" /\ \A y \in Slots \ {r} : req'[y] = req[y]
  BY DoneTypes DEF SquadQuizIInv
<1>2. CASE x = r
  BY <1>1, <1>2 DEF Sane
<1>3. CASE x # r
  <2>1. Sane(x) /\ req'[x] = req[x]
    BY <1>1, <1>3 DEF SquadQuizIInv
  <2>2. ASSUME req[x].op = "finish"
        PROVE  /\ req[x].on \in DOMAIN attempts' /\ attempts'[req[x].on].state = "IN_PROGRESS"
               /\ \A s \in Slots \ {x} : req'[s].op = "finish" => req'[s].on # req[x].on
    BY <1>1, <1>3, <2>1, <2>2 DEF Sane
  <2>3. ASSUME req[x].op = "grant" PROVE req[x].drawn = draw' /\ draw' # NoDraw
    BY <2>1, <2>3 DEF Sane
  <2>4. ASSUME req[x].op = "accept"
        PROVE  /\ req[x].flipped \subseteq req[x].ids /\ req[x].ids \subseteq DOMAIN attempts'
               /\ \A i \in req[x].ids : attempts'[i].state = "FINISHED"
               /\ req[x].moves => \A m \in enrolled' : \E i \in DOMAIN attempts' :
                     attempts'[i].by = m /\ (attempts'[i].passed \/ i \in req[x].flipped)
    <3>1. /\ req[x].flipped \subseteq req[x].ids /\ req[x].ids \subseteq DOMAIN attempts
          /\ \A i \in req[x].ids : attempts[i].state = "FINISHED"
          /\ req[x].moves => \A m \in enrolled : \E i \in DOMAIN attempts :
                attempts[i].by = m /\ (attempts[i].passed \/ i \in req[x].flipped)
      BY <2>1, <2>4 DEF Sane
    <3> QED BY <3>1
  <2> QED BY <2>1, <2>2, <2>3, <2>4 DEF Sane
<1> QED BY <1>2, <1>3

\* A request that only reads.
LEMMA BeginKeeps ==
    ASSUME SquadQuizIInv, NEW r \in Slots, NEW q \in Request, Begin(r, q),
           q.op = "finish" =>
              /\ q.on \in DOMAIN attempts /\ attempts[q.on].state = "IN_PROGRESS"
              /\ \A s \in Slots : req[s].op = "finish" => req[s].on # q.on
              /\ q.status = status,
           q.op = "grant" => q.drawn = draw /\ draw # NoDraw,
           q.op = "accept" =>
              /\ q.flipped \subseteq q.ids /\ q.ids \subseteq DOMAIN attempts
              /\ \A i \in q.ids : attempts[i].state = "FINISHED"
              /\ q.moves => \A m \in enrolled : \E i \in DOMAIN attempts :
                    attempts[i].by = m /\ (attempts[i].passed \/ i \in q.flipped)
    PROVE  SquadQuizIInv' /\ MovedTogether
<1>1. UNCHANGED <<status, draw, extra, attempts, credited, enrolled, grants>>
  BY DEF Begin
<1>2. /\ req' \in [Slots -> Request] /\ req'[r] = q
      /\ \A x \in Slots \ {r} : req'[x] = req[x]
  BY DEF Begin, SquadQuizIInv, SquadQuizTypeOK
<1>3. SquadQuizTypeOK'
  BY <1>1, <1>2 DEF SquadQuizIInv, SquadQuizTypeOK
<1>4. PassedIsFinished' /\ OneDraw' /\ SomebodyMissing' /\ MovedTogether
  BY <1>1 DEF SquadQuizIInv, PassedIsFinished, OneDraw, SomebodyMissing, MovedTogether, HasPassed
<1>5. ASSUME NEW x \in Slots PROVE Sane(x)'
  <2>1. CASE x = r
    BY <1>1, <1>2, <2>1 DEF Sane
  <2>2. CASE x # r
    <3>1. Sane(x) /\ req'[x] = req[x]
      BY <1>2, <2>2 DEF SquadQuizIInv
    <3>2. req[x].op = "finish" => \A s \in Slots \ {x} : req'[s].op = "finish" => req'[s].on # req[x].on
      BY <1>2, <2>2, <3>1 DEF Sane
    <3> QED BY <1>1, <3>1, <3>2 DEF Sane
  <2> QED BY <2>1, <2>2
<1>6. LoadedSent'
  BY <1>1, <1>2 DEF SquadQuizIInv, LoadedSent
<1> QED BY <1>3, <1>4, <1>5, <1>6 DEF SquadQuizIInv

LEMMA StartBeginStep ==
    ASSUME SquadQuizIInv, NEW r \in Slots, NEW m \in Members, StartBegin(r, m)
    PROVE  SquadQuizIInv' /\ MovedTogether
<1> DEFINE q == [op |-> "start", by |-> m, retry |-> Used(m) > 0, drawn |-> draw]
<1>1. q \in Request /\ q.op = "start"
  BY DEF Request, SquadQuizIInv, SquadQuizTypeOK
<1>2. Begin(r, q)
  BY DEF StartBegin
<1> HIDE DEF q
<1> QED BY <1>1, <1>2, BeginKeeps

LEMMA GrantBeginStep ==
    ASSUME SquadQuizIInv, NEW r \in Slots, NEW m \in Members, GrantBegin(r, m)
    PROVE  SquadQuizIInv' /\ MovedTogether
<1> DEFINE q == [op |-> "grant", by |-> m, extra |-> extra, drawn |-> draw, status |-> status]
<1>1. q \in Request /\ q.op = "grant" /\ q.drawn = draw
  BY DEF Request, SquadQuizIInv, SquadQuizTypeOK
<1>2. Begin(r, q) /\ Of(m) # {}
  BY DEF GrantBegin, IsGrantable
<1>3. draw # NoDraw
  <2>1. PICK i \in DOMAIN attempts : attempts[i].by = m
    BY <1>2 DEF Of
  <2>2. attempts # << >>
    BY <2>1
  <2> QED BY <2>2 DEF SquadQuizIInv, OneDraw
<1> HIDE DEF q
<1> QED BY <1>1, <1>2, <1>3, BeginKeeps

LEMMA FinishBeginStep ==
    ASSUME SquadQuizIInv, NEW r \in Slots, NEW i \in DOMAIN attempts,
           NEW right \in SUBSET attempts[i].questions, NEW force \in BOOLEAN,
           FinishBegin(r, i, right, force)
    PROVE  SquadQuizIInv' /\ MovedTogether
<1> DEFINE q == [op |-> "finish", on |-> i, force |-> force, status |-> status,
                 right |-> right \cup (credited \cap attempts[i].questions),
                 allowed |-> Cap + extra[attempts[i].by]]
<1>1. attempts[i] \in SquadAttempt /\ i \in Nat
  BY AttemptShape DEF SquadQuizIInv
<1>2. /\ attempts[i].questions \in SUBSET Questions
      /\ Cap + extra[attempts[i].by] \in Nat
  <2>1. attempts[i].by \in Members /\ attempts[i].questions \in SUBSET Questions
    BY <1>1 DEF SquadAttempt
  <2>2. extra[attempts[i].by] \in Nat /\ Cap \in Nat
    BY <2>1, SquadQuizAssumption DEF SquadQuizIInv, SquadQuizTypeOK
  <2> QED BY <2>1, <2>2
<1>3. q \in Request /\ q.op = "finish" /\ q.on = i /\ q.status = status
  BY <1>1, <1>2 DEF Request, SquadQuizIInv, SquadQuizTypeOK
<1>4. /\ Begin(r, q) /\ attempts[i].state = "IN_PROGRESS"
      /\ \A s \in Slots : req[s].op = "finish" => req[s].on # i
  BY DEF FinishBegin
<1> HIDE DEF q
<1> QED BY <1>3, <1>4, BeginKeeps

\* The rows that a ruling re-scores, and those that now pass.
LEMMA AcceptBeginStep ==
    ASSUME SquadQuizIInv, NEW r \in Slots, NEW x \in Questions, AcceptBegin(r, x)
    PROVE  SquadQuizIInv' /\ MovedTogether
<1> DEFINE ids == Regradable(x)
           flipped == Flipped(x, ids)
           rows == Rescored(x, ids, flipped)
           moves == /\ flipped # {} /\ status \in {"QUIZ_SENT", "FAILED"}
                    /\ QuizComplete(rows)
           q == [op |-> "accept", on |-> x, ids |-> ids, flipped |-> flipped,
                 moves |-> moves]
<1>1. /\ ids \subseteq DOMAIN attempts /\ flipped \subseteq ids
      /\ \A i \in ids : attempts[i].state = "FINISHED"
  BY DEF Regradable, Flipped
<1>2. DOMAIN attempts \subseteq Nat
  BY DEF SquadQuizIInv, SquadQuizTypeOK
<1>3. moves => \A m \in enrolled : \E i \in DOMAIN attempts :
                  attempts[i].by = m /\ (attempts[i].passed \/ i \in flipped)
  <2> SUFFICES ASSUME moves, NEW m \in enrolled
               PROVE  \E i \in DOMAIN attempts :
                         attempts[i].by = m /\ (attempts[i].passed \/ i \in flipped)
    OBVIOUS
  <2>1. PICK i \in DOMAIN rows : rows[i].by = m /\ rows[i].passed
    BY DEF QuizComplete, HasPassed
  <2>2. i \in DOMAIN attempts /\ attempts[i] \in SquadAttempt
    BY <2>1, AttemptShape DEF Rescored, SquadQuizIInv
  <2>3. rows[i].by = attempts[i].by /\ rows[i].passed = (attempts[i].passed \/ i \in flipped)
    BY <2>2 DEF Rescored, SquadAttempt
  <2> QED BY <2>1, <2>2, <2>3
<1>4. moves \in BOOLEAN
  OBVIOUS
<1>5. Begin(r, q)
  BY DEF AcceptBegin
<1> HIDE DEF ids, flipped, moves
<1>6. /\ q \in Request /\ q.op = "accept" /\ q.ids = ids /\ q.flipped = flipped
      /\ q.moves = moves
  BY <1>1, <1>2, <1>4 DEF Request
<1> HIDE DEF q
<1> QED BY <1>1, <1>3, <1>5, <1>6, BeginKeeps

\* _draw_for_member under the row lock, and the new attempt.
LEMMA StartEndStep ==
    ASSUME SquadQuizIInv, NEW r \in Slots, StartEnd(r)
    PROVE  SquadQuizIInv' /\ MovedTogether
<1> DEFINE m == req[r].by
<1>1. /\ req[r].op = "start" /\ Len(attempts) < MaxAttempts
      /\ Done(r) /\ UNCHANGED <<status, extra, credited, enrolled, grants>>
  BY DEF StartEnd
<1>2. m \in Members /\ req[r].retry \in BOOLEAN
  BY <1>1, ReqShape DEF SquadQuizIInv
<1>3. PICK slices \in IF draw # NoDraw THEN {draw}
                      ELSE UNION {Slices(D) : D \in Draws(Required, Send)} :
         \E questions \in IF req[r].retry
                          THEN Draws(Required \cap slices[m], Cardinality(slices[m]))
                          ELSE {slices[m]} :
            /\ draw' = slices
            /\ attempts' = Append(attempts,
                   [by |-> m, questions |-> questions, retry |-> req[r].retry,
                    state |-> "IN_PROGRESS", right |-> {}, passed |-> FALSE])
  BY DEF StartEnd, DrawSeen
<1>4. PICK questions \in IF req[r].retry
                         THEN Draws(Required \cap slices[m], Cardinality(slices[m]))
                         ELSE {slices[m]} :
            /\ draw' = slices
            /\ attempts' = Append(attempts,
                   [by |-> m, questions |-> questions, retry |-> req[r].retry,
                    state |-> "IN_PROGRESS", right |-> {}, passed |-> FALSE])
  BY <1>3
<1>5. /\ draw # NoDraw => draw' = draw
      /\ draw' \in [Members -> SUBSET Questions]
      /\ \A x, y \in Members : x # y => draw'[x] \cap draw'[y] = {}
      /\ UNION {draw'[x] : x \in Members} \in Draws(Required, Send)
  <2>1. CASE draw # NoDraw
    <3>1. slices = draw
      BY <1>3, <2>1
    <3> QED BY <1>4, <2>1, <3>1 DEF SquadQuizIInv, OneDraw, SquadQuizTypeOK, Draw
  <2>2. CASE draw = NoDraw
    <3>1. PICK D \in Draws(Required, Send) : slices \in Slices(D)
      BY <1>3, <2>2
    <3>2. D \in SUBSET Questions
      BY DEF Draws
    <3>3. /\ slices \in [Members -> SUBSET Questions]
          /\ \A x, y \in Members : x # y => slices[x] \cap slices[y] = {}
          /\ UNION {slices[x] : x \in Members} = D
      BY <3>1, <3>2, SlicesPartition
    <3> QED BY <1>4, <2>2, <3>1, <3>3
  <2> QED BY <2>1, <2>2
<1>6. questions \in SUBSET Questions /\ (~req[r].retry => questions = draw'[m])
  BY <1>2, <1>4, <1>5 DEF Draws
<1> DEFINE a == [by |-> m, questions |-> questions, retry |-> req[r].retry,
                 state |-> "IN_PROGRESS", right |-> {}, passed |-> FALSE]
<1>7. a \in SquadAttempt /\ attempts \in Seq(SquadAttempt) /\ Len(attempts) \in Nat
  BY <1>2, <1>6 DEF SquadAttempt, SquadQuizIInv, SquadQuizTypeOK
<1>8. attempts' = Append(attempts, a) /\ a.by = m /\ a.questions = questions
      /\ a.retry = req[r].retry /\ a.state = "IN_PROGRESS" /\ a.passed = FALSE
  BY <1>4
<1> HIDE DEF a, m
<1>9. /\ attempts' \in Seq(SquadAttempt) /\ Len(attempts') = Len(attempts) + 1
      /\ DOMAIN attempts' = DOMAIN attempts \cup {Len(attempts) + 1}
      /\ \A i \in DOMAIN attempts : attempts'[i] = attempts[i]
      /\ attempts'[Len(attempts) + 1] = a
  BY <1>7, <1>8
<1>10. SquadQuizTypeOK'
  BY <1>1, <1>5, <1>9, DoneTypes, SquadQuizAssumption DEF SquadQuizIInv, SquadQuizTypeOK, Draw
<1>11. PassedIsFinished'
  BY <1>8, <1>9 DEF SquadQuizIInv, PassedIsFinished
<1>12. \A x \in Slots : Sane(x)'
  <2>1. \A x \in Slots \ {r} :
           req[x].op = "finish" => attempts'[req[x].on].state = attempts[req[x].on].state
    BY <1>9 DEF SquadQuizIInv, Sane
  <2> QED BY <1>1, <1>5, <1>9, <2>1, SaneStays
<1>13. OneDraw'
  <2>1. ASSUME NEW i \in DOMAIN attempts', ~attempts'[i].retry
        PROVE  attempts'[i].questions = draw'[attempts'[i].by]
    <3>1. CASE i \in DOMAIN attempts
      <4>1. draw' = draw
        <5>1. attempts # << >>
          BY <3>1
        <5> QED BY <5>1, <1>5 DEF SquadQuizIInv, OneDraw
      <4> QED BY <1>9, <2>1, <3>1, <4>1 DEF SquadQuizIInv, OneDraw
    <3>2. CASE i = Len(attempts) + 1
      BY <1>6, <1>8, <1>9, <2>1, <3>2
    <3> QED BY <1>9, <3>1, <3>2
  <2>2. draw' # NoDraw
    BY <1>5, NoDrawIsNone
  <2> QED BY <1>5, <2>1, <2>2 DEF OneDraw
<1>14. LoadedSent'
  BY <1>1, DoneTypes DEF SquadQuizIInv, LoadedSent
<1>15. SomebodyMissing'
  <2>1. \A x \in Members : HasPassed(x, attempts') => HasPassed(x, attempts)
    BY <1>8, <1>9 DEF HasPassed
  <2> QED BY <1>1, <2>1 DEF SquadQuizIInv, SomebodyMissing
<1>16. MovedTogether
  BY <1>1 DEF MovedTogether
<1> QED BY <1>10, <1>11, <1>12, <1>13, <1>14, <1>15, <1>16 DEF SquadQuizIInv

LEMMA StatusesDiffer == PassedTo # "QUIZ_SENT" /\ PassedTo # "FAILED"
BY SquadQuizAssumption

\* _grade_and_finalize: the attempt is closed, and the submission moves on if the
\* pass completes the squad.
LEMMA FinishEndStep ==
    ASSUME SquadQuizIInv, NEW r \in Slots, FinishEnd(r)
    PROVE  SquadQuizIInv' /\ MovedTogether
<1> DEFINE q == req[r]
           k == q.on
<1>1. /\ q.op = "finish" /\ Done(r) /\ UNCHANGED <<draw, extra, credited, enrolled, grants>>
      /\ attempts' = [attempts EXCEPT ![k] = Graded(attempts[k], q)]
      /\ status' = StatusAfterFinish(q, attempts')
  BY DEF FinishEnd
<1>2. /\ k \in DOMAIN attempts /\ attempts[k].state = "IN_PROGRESS" /\ attempts[k] \in SquadAttempt
      /\ \A s \in Slots \ {r} : req[s].op = "finish" => req[s].on # k
      /\ attempts[k].passed = FALSE
  <2>1. Sane(r) /\ q.op = "finish"
    BY <1>1 DEF SquadQuizIInv
  <2>2. k \in DOMAIN attempts /\ attempts[k].state = "IN_PROGRESS"
        /\ \A s \in Slots \ {r} : req[s].op = "finish" => req[s].on # k
    BY <2>1 DEF Sane
  <2>3. attempts[k] \in SquadAttempt
    BY <2>2, AttemptShape DEF SquadQuizIInv
  <2>4. attempts[k].passed \in BOOLEAN
    BY <2>3 DEF SquadAttempt
  <2>5. ~attempts[k].passed
    BY <2>2 DEF SquadQuizIInv, PassedIsFinished
  <2> QED BY <2>2, <2>3, <2>4, <2>5
<1>3. q.force \in BOOLEAN /\ q.right \in SUBSET Questions
  BY <1>1, ReqShape DEF SquadQuizIInv
<1> DEFINE g == Graded(attempts[k], q)
<1>4. /\ g \in SquadAttempt /\ g.by = attempts[k].by /\ g.questions = attempts[k].questions
      /\ g.retry = attempts[k].retry /\ (g.passed => g.state = "FINISHED")
  <2>1. (~q.force /\ IsPassed(attempts[k].questions, q.right)) \in BOOLEAN
    OBVIOUS
  <2> QED BY <1>2, <1>3, <2>1 DEF Graded, SquadAttempt
<1> HIDE DEF g
<1>5. /\ attempts' \in Seq(SquadAttempt) /\ Len(attempts') = Len(attempts)
      /\ DOMAIN attempts' = DOMAIN attempts /\ attempts'[k] = g
      /\ \A i \in DOMAIN attempts \ {k} : attempts'[i] = attempts[i]
  <2>1. attempts' = [attempts EXCEPT ![k] = g]
    BY <1>1 DEF g
  <2>2. attempts \in Seq(SquadAttempt)
    BY DEF SquadQuizIInv, SquadQuizTypeOK
  <2> QED BY <1>2, <1>4, <2>1, <2>2
<1> HIDE DEF k, q
<1>6. PassedIsFinished'
  BY <1>4, <1>5 DEF SquadQuizIInv, PassedIsFinished
<1>7. \A x \in Slots : Sane(x)'
  <2>1. \A x \in Slots \ {r} :
           req[x].op = "finish" => attempts'[req[x].on].state = attempts[req[x].on].state
    BY <1>2, <1>5 DEF SquadQuizIInv, Sane
  <2> QED BY <1>1, <1>2, <1>4, <1>5, <2>1, SaneStays
<1>8. OneDraw'
  <2>1. \A i \in DOMAIN attempts :
           /\ attempts'[i].retry = attempts[i].retry /\ attempts'[i].by = attempts[i].by
           /\ attempts'[i].questions = attempts[i].questions
    BY <1>4, <1>5
  <2>2. attempts' # << >> => attempts # << >>
    BY <1>5
  <2> QED BY <1>1, <1>5, <2>1, <2>2 DEF SquadQuizIInv, OneDraw
<1>9. /\ status' \in {status, PassedTo, "FAILED"}
      /\ status' = PassedTo /\ status # PassedTo => QuizComplete(attempts')
  BY <1>1, StatusesDiffer DEF StatusAfterFinish
<1>10. SquadQuizTypeOK'
  BY <1>1, <1>5, <1>9, DoneTypes DEF SquadQuizIInv, SquadQuizTypeOK, Status
<1>11. LoadedSent'
  <2>1. status' = "QUIZ_SENT" => status = "QUIZ_SENT"
    BY <1>9, StatusesDiffer
  <2> QED BY <1>1, <2>1, DoneTypes DEF SquadQuizIInv, LoadedSent
<1>12. MovedTogether
  <2> SUFFICES ASSUME status # PassedTo, status' = PassedTo, NEW m \in enrolled
               PROVE  \E i \in DOMAIN attempts' :
                  attempts'[i].by = m /\ attempts'[i].passed /\ attempts'[i].state = "FINISHED"
    BY DEF MovedTogether
  <2>1. HasPassed(m, attempts')
    BY <1>9, <1>1 DEF QuizComplete
  <2> QED BY <1>6, <2>1 DEF HasPassed, PassedIsFinished
<1>13. SomebodyMissing'
  <2> SUFFICES ASSUME credited = {}, enrolled = Members, grants = 0, status' = "QUIZ_SENT",
                      \A m \in Members : HasPassed(m, attempts')
               PROVE  FALSE
    BY <1>1 DEF SomebodyMissing
  <2>1. status = "QUIZ_SENT"
    BY <1>9, StatusesDiffer
  <2>2. q.status = "QUIZ_SENT"
    BY <1>1, <2>1 DEF SquadQuizIInv, LoadedSent, q
  <2>3. PICK m \in Members : ~HasPassed(m, attempts)
    BY <2>1 DEF SquadQuizIInv, SomebodyMissing
  <2>4. attempts'[k].passed
    <3>1. PICK i \in DOMAIN attempts' : attempts'[i].by = m /\ attempts'[i].passed
      BY DEF HasPassed
    <3>2. i = k
      BY <1>5, <2>3, <3>1 DEF HasPassed
    <3> QED BY <3>1, <3>2
  <2>5. QuizComplete(attempts')
    BY SquadQuizAssumption DEF QuizComplete
  <2>6. status' = PassedTo
    BY <1>1, <2>1, <2>2, <2>4, <2>5 DEF StatusAfterFinish, k
  <2> QED BY <2>6, StatusesDiffer
<1> QED BY <1>6, <1>7, <1>8, <1>10, <1>11, <1>12, <1>13 DEF SquadQuizIInv

\* The whole metadata is written back: the draw in it is still the one there is.
LEMMA GrantEndStep ==
    ASSUME SquadQuizIInv, NEW r \in Slots, GrantEnd(r)
    PROVE  SquadQuizIInv' /\ MovedTogether
<1>1. /\ req[r].op = "grant" /\ Done(r) /\ UNCHANGED <<attempts, credited, enrolled>>
      /\ extra' = [req[r].extra EXCEPT ![req[r].by] = @ + 1] /\ draw' = req[r].drawn
      /\ status' = IF req[r].status = "FAILED" THEN "QUIZ_SENT" ELSE status
      /\ grants' = grants + 1
  BY DEF GrantEnd
<1>2. draw' = draw
  BY <1>1 DEF SquadQuizIInv, Sane
<1>3. extra' \in [Members -> Nat]
  BY <1>1, ReqShape DEF SquadQuizIInv
<1>4. grants \in Nat /\ grants' \in Nat /\ grants' # 0
  BY <1>1 DEF SquadQuizIInv, SquadQuizTypeOK
<1>5. SquadQuizTypeOK'
  BY <1>1, <1>2, <1>3, <1>4, DoneTypes DEF SquadQuizIInv, SquadQuizTypeOK, Status
<1>6. PassedIsFinished' /\ OneDraw'
  BY <1>1, <1>2 DEF SquadQuizIInv, PassedIsFinished, OneDraw
<1>7. \A x \in Slots : Sane(x)'
  BY <1>1, <1>2, SaneStays
<1>8. LoadedSent' /\ SomebodyMissing'
  BY <1>4 DEF LoadedSent, SomebodyMissing
<1>9. MovedTogether
  BY <1>1, StatusesDiffer DEF MovedTogether
<1> QED BY <1>5, <1>6, <1>7, <1>8, <1>9 DEF SquadQuizIInv

\* resolve_dispute's commit: it counts on passes that nobody takes away.
LEMMA AcceptEndStep ==
    ASSUME SquadQuizIInv, NEW r \in Slots, AcceptEnd(r)
    PROVE  SquadQuizIInv' /\ MovedTogether
<1> DEFINE q == req[r]
<1>1. /\ q.op = "accept" /\ Done(r) /\ UNCHANGED <<draw, extra, enrolled, grants>>
      /\ credited' = credited \cup {q.on}
      /\ attempts' = Rescored(q.on, q.ids, q.flipped)
      /\ status' = IF q.moves THEN PassedTo ELSE status
  BY DEF AcceptEnd
<1>2. /\ q.flipped \subseteq q.ids /\ q.ids \subseteq DOMAIN attempts
      /\ \A i \in q.ids : attempts[i].state = "FINISHED"
      /\ q.moves => \A m \in enrolled : \E i \in DOMAIN attempts :
            attempts[i].by = m /\ (attempts[i].passed \/ i \in q.flipped)
  <2>1. Sane(r)
    BY DEF SquadQuizIInv
  <2> QED BY <1>1, <2>1 DEF Sane
<1>3. q.on \in Questions
  BY <1>1, ReqShape DEF SquadQuizIInv
<1> HIDE DEF q
<1>4. ASSUME NEW i \in DOMAIN attempts
      PROVE  /\ attempts'[i] \in SquadAttempt /\ attempts'[i].by = attempts[i].by
             /\ attempts'[i].questions = attempts[i].questions
             /\ attempts'[i].retry = attempts[i].retry
             /\ attempts'[i].state = attempts[i].state
             /\ attempts'[i].passed = (attempts[i].passed \/ i \in q.flipped)
  <2>1. attempts[i] \in SquadAttempt
    BY AttemptShape DEF SquadQuizIInv
  <2> DEFINE a == attempts[i]
             right == IF i \in q.ids THEN a.right \cup {q.on} ELSE a.right
             passed == a.passed \/ i \in q.flipped
  <2>2. attempts'[i] = [a EXCEPT !.right = right, !.passed = passed]
    BY <1>1, <2>1 DEF Rescored, SquadAttempt
  <2>3. passed \in BOOLEAN
    OBVIOUS
  <2>4. right \in SUBSET Questions
    BY <1>3, <2>1 DEF SquadAttempt
  <2> HIDE DEF a, right, passed
  <2>5. /\ attempts'[i] \in SquadAttempt /\ attempts'[i].by = a.by
        /\ attempts'[i].questions = a.questions /\ attempts'[i].retry = a.retry
        /\ attempts'[i].state = a.state /\ attempts'[i].passed = passed
    <3>1. a \in SquadAttempt
      BY <2>1 DEF a
    <3> QED BY <2>2, <2>3, <2>4, <3>1 DEF SquadAttempt
  <2> QED BY <2>5 DEF a, passed
<1>5. /\ DOMAIN attempts' = DOMAIN attempts /\ attempts' \in Seq(SquadAttempt)
      /\ Len(attempts') = Len(attempts)
  <2>1. attempts \in Seq(SquadAttempt) /\ Len(attempts) \in Nat /\ DOMAIN attempts = 1 .. Len(attempts)
    BY DEF SquadQuizIInv, SquadQuizTypeOK
  <2>2. attempts' = [i \in 1 .. Len(attempts) |-> attempts'[i]]
    BY <1>1, <2>1 DEF Rescored
  <2> QED BY <1>4, <2>1, <2>2
<1>6. PassedIsFinished'
  BY <1>2, <1>4, <1>5 DEF SquadQuizIInv, PassedIsFinished
<1>7. \A x \in Slots : Sane(x)'
  <2>1. \A x \in Slots \ {r} :
           req[x].op = "finish" => attempts'[req[x].on].state = attempts[req[x].on].state
    BY <1>4 DEF SquadQuizIInv, Sane
  <2> QED BY <1>1, <1>4, <1>5, <2>1, SaneStays
<1>8. OneDraw'
  <2>1. attempts' # << >> => attempts # << >>
    BY <1>5
  <2> QED BY <1>1, <1>4, <1>5, <2>1 DEF SquadQuizIInv, OneDraw
<1>9. SquadQuizTypeOK'
  BY <1>1, <1>3, <1>5, DoneTypes DEF SquadQuizIInv, SquadQuizTypeOK, Status
<1>10. LoadedSent'
  BY <1>1, StatusesDiffer, DoneTypes DEF SquadQuizIInv, LoadedSent
<1>11. SomebodyMissing'
  BY <1>1 DEF SomebodyMissing
<1>12. MovedTogether
  <2> SUFFICES ASSUME status # PassedTo, status' = PassedTo, NEW m \in enrolled
               PROVE  \E i \in DOMAIN attempts' :
                  attempts'[i].by = m /\ attempts'[i].passed /\ attempts'[i].state = "FINISHED"
    BY DEF MovedTogether
  <2>1. PICK i \in DOMAIN attempts :
           attempts[i].by = m /\ (attempts[i].passed \/ i \in q.flipped)
    BY <1>1, <1>2
  <2>2. i \in DOMAIN attempts' /\ attempts'[i].by = m /\ attempts'[i].passed
    BY <1>4, <1>5, <2>1
  <2> QED BY <1>6, <2>2 DEF PassedIsFinished
<1> QED BY <1>6, <1>7, <1>8, <1>9, <1>10, <1>11, <1>12 DEF SquadQuizIInv

LEMMA UnenrollStep ==
    ASSUME SquadQuizIInv, NEW m \in Members, Unenroll(m)
    PROVE  SquadQuizIInv' /\ MovedTogether
<1>1. /\ enrolled' = enrolled \ {m} /\ m \in enrolled
      /\ UNCHANGED <<status, draw, extra, attempts, credited, grants, req>>
  BY DEF Unenroll
<1>2. SquadQuizTypeOK' /\ PassedIsFinished' /\ OneDraw' /\ LoadedSent'
  BY <1>1 DEF SquadQuizIInv, SquadQuizTypeOK, PassedIsFinished, OneDraw, LoadedSent
<1>3. \A x \in Slots : Sane(x)'
  BY <1>1 DEF SquadQuizIInv, Sane
<1>4. SomebodyMissing' /\ MovedTogether
  BY <1>1 DEF SomebodyMissing, MovedTogether
<1> QED BY <1>2, <1>3, <1>4 DEF SquadQuizIInv

-----------------------------------------------------------------------------
(* The theorems.                                                           *)

LEMMA InitIInv == SquadQuizInit => SquadQuizIInv
<1> SUFFICES ASSUME SquadQuizInit PROVE SquadQuizIInv
  OBVIOUS
<1>1. /\ attempts = << >> /\ draw = NoDraw /\ \A r \in Slots : req[r].op = "idle"
  BY DEF SquadQuizInit, Idle
<1>2. SquadQuizTypeOK
  BY SquadQuizAssumption DEF SquadQuizInit, SquadQuizTypeOK, Status, Draw, Request
<1>3. PassedIsFinished /\ OneDraw /\ LoadedSent
  BY <1>1 DEF PassedIsFinished, OneDraw, LoadedSent
<1>4. \A r \in Slots : Sane(r)
  BY <1>1 DEF Sane
<1>5. SomebodyMissing
  <2>1. PICK m \in Members : TRUE
    BY SquadQuizAssumption
  <2>2. DOMAIN attempts = {}
    BY <1>1
  <2> QED BY <2>1, <2>2 DEF SomebodyMissing, HasPassed
<1> QED BY <1>2, <1>3, <1>4, <1>5 DEF SquadQuizIInv

LEMMA NextIInv == SquadQuizIInv /\ [SquadQuizNext]_squadQuizVars => SquadQuizIInv' /\ MovedTogether
<1> SUFFICES ASSUME SquadQuizIInv, [SquadQuizNext]_squadQuizVars PROVE SquadQuizIInv' /\ MovedTogether
  OBVIOUS
<1>1. CASE \E r \in Slots, m \in Members : StartBegin(r, m) \/ GrantBegin(r, m)
  BY <1>1, StartBeginStep, GrantBeginStep
<1>2. CASE \E r \in Slots, i \in DOMAIN attempts :
              \E right \in SUBSET attempts[i].questions, force \in BOOLEAN :
                 FinishBegin(r, i, right, force)
  BY <1>2, FinishBeginStep
<1>3. CASE \E r \in Slots, q \in Questions : AcceptBegin(r, q)
  BY <1>3, AcceptBeginStep
<1>4. CASE \E r \in Slots : StartEnd(r) \/ FinishEnd(r) \/ GrantEnd(r) \/ AcceptEnd(r)
  BY <1>4, StartEndStep, FinishEndStep, GrantEndStep, AcceptEndStep
<1>5. CASE \E m \in Members : Unenroll(m)
  BY <1>5, UnenrollStep
<1>6. CASE UNCHANGED squadQuizVars
  <2>1. SquadQuizTypeOK' /\ PassedIsFinished' /\ OneDraw' /\ LoadedSent' /\ SomebodyMissing'
    BY <1>6 DEF SquadQuizIInv, SquadQuizTypeOK, PassedIsFinished, OneDraw, LoadedSent, SomebodyMissing,
                HasPassed, squadQuizVars
  <2>2. (\A r \in Slots : Sane(r)') /\ MovedTogether
    BY <1>6 DEF SquadQuizIInv, Sane, MovedTogether, squadQuizVars
  <2> QED BY <2>1, <2>2 DEF SquadQuizIInv
<1> QED BY <1>1, <1>2, <1>3, <1>4, <1>5, <1>6 DEF SquadQuizNext

LEMMA Invariance == SquadQuizSpec => []SquadQuizIInv
<1>1. SquadQuizIInv /\ [SquadQuizNext]_squadQuizVars => SquadQuizIInv'
  BY NextIInv
<1> QED BY InitIInv, <1>1, PTL DEF SquadQuizSpec

\* Rows and requests keep their types, however requests overlap.
THEOREM TypeCorrect == SquadQuizSpec => []SquadQuizTypeOK
<1>1. SquadQuizIInv => SquadQuizTypeOK
  BY DEF SquadQuizIInv
<1> QED BY <1>1, Invariance, PTL

\* _draw_for_member and split_draw: one draw for the squad, dealt out without
\* overlap or remainder, whoever opens the quiz and whatever a grant writes back.
THEOREM DrawIsOne == SquadQuizSpec => []OneDraw
<1>1. SquadQuizIInv => OneDraw
  BY DEF SquadQuizIInv
<1> QED BY <1>1, Invariance, PTL

\* _grade_and_finalize's row lock: as long as neither a ruling, a grant nor an
\* unenrolment has come in, a squad that has passed is not left in QUIZ_SENT.
THEOREM NobodyIsLeftWaiting == SquadQuizSpec => []NobodyWaitsForNothing
<1>1. SquadQuizIInv => NobodyWaitsForNothing
  BY DEF SquadQuizIInv, SomebodyMissing, NobodyWaitsForNothing
<1> QED BY <1>1, Invariance, PTL

\* squads.quiz_complete at every way to move on: each enrolled member has an
\* attempt that ended regularly and passed.
THEOREM SquadMovesOnTogether == SquadQuizSpec => MovesOnTogether
<1>1. SquadQuizIInv /\ [SquadQuizNext]_squadQuizVars => [MovedTogether]_squadQuizVars
  BY NextIInv
<1>2. SquadQuizSpec => [][MovedTogether]_squadQuizVars
  BY <1>1, Invariance, PTL DEF SquadQuizSpec
<1> QED BY <1>2 DEF MovesOnTogether, MovedTogether
=============================================================================
