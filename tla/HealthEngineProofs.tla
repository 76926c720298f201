-------------------------- MODULE HealthEngineProofs --------------------------
(***************************************************************************)
(* Proofs about HealthEngine for any metrics, bounds, intervals and clock  *)
(* steps.                                                                  *)
(*                                                                         *)
(* The inductive invariant says of every window, also of a metric that the *)
(* last samples gave no value of, that its ages never rise towards the end *)
(* and are never negative (History).  So the samples that are too old are  *)
(* in front, where Prune looks for them, and Push never meets a later      *)
(* sample.                                                                 *)
(***************************************************************************)
EXTENDS HealthEngine, QueueItemsProofs

\* The ages of a pair of samples, the earlier one first.
Older == {p \in Nat \X Nat : p[1] >= p[2]}

\* Windows of at most n samples, none older than oldest, oldest first.
History(n, oldest) ==
  {w \in Seq(0..oldest) : Len(w) <= n /\ Ordered(w, Older)}

\* The window ends with a sample of the time being evaluated.
EndsNow(w) == w # <<>> /\ w[Len(w)] = 0

CounterTypes == [total : 0..MaxTotal, age : 0..(WindowAge + 1)]

Inv ==
  /\ started \in BOOLEAN
  /\ lag \in 0..MaxLag
  /\ windows \in [Metrics -> History(MaxSamples, WindowAge + 1)]
  /\ \A m \in fed : /\ windows[m] \in History(MaxSamples, WindowAge)
                    /\ EndsNow(windows[m])
  /\ counters \in CounterTypes \cup {None}
  /\ frames \in History(MaxFrames, NarWindow)
  /\ model \in {"COLD", "WARMING", "READY"}
  /\ total \in 0..MaxTotal
  /\ fed \subseteq Metrics
  /\ steady \in BOOLEAN

-----------------------------------------------------------------------------
(* The operators of RollingWindow, for both of its instances. *)

\* RollingWindow's operators with the bounds as parameters.
Stop(age, oldest, d) == IF age + d > oldest THEN oldest + 1 ELSE age + d
Shift(w, oldest, d) == [i \in DOMAIN w |-> Stop(w[i], oldest, d)]
First(S) == CHOOSE x \in S : \A y \in S : x <= y
Cut(w, oldest) ==
  LET young == {i \in DOMAIN w : w[i] <= oldest}
  IN IF young = {} THEN <<>> ELSE SubSeq(w, First(young), Len(w))
Limit(w, n) == IF Len(w) > n THEN Tail(w) ELSE w
Added(w, n, oldest) == Limit(Append(Cut(w, oldest), 0), n)

\* No window is out of order as long as its ages are not negative.
LEMMA WindowOperators ==
  ASSUME NEW oldest \in Nat, NEW w \in Seq(0..oldest)
  PROVE  /\ \A d : Window!Aged(w, d) = Shift(w, WindowAge, d)
         /\ \A d : Frames!Aged(w, d) = Shift(w, NarWindow, d)
         /\ Window!Prune(w) = Cut(w, WindowAge)
         /\ Window!Push(w) = Added(w, MaxSamples, WindowAge)
         /\ Frames!Push(w) = Added(w, MaxFrames, NarWindow)
<1>1. ~Window!OutOfOrder(w) /\ ~Frames!OutOfOrder(w)
  <2>1. w # <<>> => w[Len(w)] \in 0..oldest
    OBVIOUS
  <2> QED BY <2>1 DEF Window!OutOfOrder, Frames!OutOfOrder
<1>2. /\ Window!Prune(w) = Cut(w, WindowAge)
      /\ Frames!Prune(w) = Cut(w, NarWindow)
  BY <1>1 DEF Window!Prune, Frames!Prune, Window!From, Frames!From,
              Window!Min, Frames!Min, Cut, First
<1>3. /\ Window!Push(w) = Added(w, MaxSamples, WindowAge)
      /\ Frames!Push(w) = Added(w, MaxFrames, NarWindow)
  BY <1>1, <1>2 DEF Window!Push, Frames!Push, Window!AtMost, Frames!AtMost,
                    Added, Limit
<1>4. /\ \A d : Window!Aged(w, d) = Shift(w, WindowAge, d)
      /\ \A d : Frames!Aged(w, d) = Shift(w, NarWindow, d)
  BY DEF Window!Aged, Frames!Aged, Window!Later, Frames!Later, Shift, Stop
<1> QED BY <1>2, <1>3, <1>4

\* Time goes by for a window, which keeps its samples and their order.
LEMMA ShiftKeeps ==
  ASSUME NEW n \in Nat, NEW oldest \in Nat, NEW d \in Nat,
         NEW w \in History(n, oldest + 1)
  PROVE  Shift(w, oldest, d) \in History(n, oldest + 1)
<1> DEFINE v == Shift(w, oldest, d)
<1>1. w \in Seq(0..(oldest + 1)) /\ Len(w) <= n /\ Ordered(w, Older)
  BY DEF History
<1>2. \A i \in DOMAIN w : w[i] \in 0..(oldest + 1)
  BY <1>1
<1>3. \A i \in DOMAIN w : v[i] = Stop(w[i], oldest, d) /\ v[i] \in 0..(oldest + 1)
  BY <1>2 DEF Shift, Stop
<1>4. v \in Seq(0..(oldest + 1)) /\ Len(v) = Len(w) /\ DOMAIN v = DOMAIN w
  <2>1. DOMAIN w = 1..Len(w) /\ Len(w) \in Nat
    BY <1>1
  <2>2. v \in [1..Len(w) -> 0..(oldest + 1)]
    BY <1>3, <2>1 DEF Shift
  <2> HIDE DEF v
  <2>3. v \in Seq(0..(oldest + 1)) /\ Len(v) = Len(w)
    BY <2>1, <2>2
  <2> QED BY <2>1, <2>2, <2>3
<1> HIDE DEF v
<1>5. Ordered(v, Older)
  <2> SUFFICES ASSUME NEW i \in DOMAIN w, NEW j \in DOMAIN w, i < j
               PROVE  <<v[i], v[j]>> \in Older
    BY <1>4 DEF Ordered
  <2>1. w[i] \in Nat /\ w[j] \in Nat /\ w[i] >= w[j]
    BY <1>1 DEF Ordered, Older
  <2>2. v[i] \in Nat /\ v[j] \in Nat /\ v[i] >= v[j]
    BY <1>3, <2>1 DEF Stop
  <2> QED BY <2>2 DEF Older
<1>6. v \in History(n, oldest + 1)
  BY <1>1, <1>4, <1>5 DEF History
<1> QED BY <1>6 DEF v

\* Prune leaves the samples that are not too old: those behind the first one.
LEMMA CutKeeps ==
  ASSUME NEW n \in Nat, NEW oldest \in Nat, NEW w \in History(n, oldest + 1)
  PROVE  Cut(w, oldest) \in History(n, oldest)
<1> DEFINE young == {i \in DOMAIN w : w[i] <= oldest}
           k == First(young)
           v == SubSeq(w, k, Len(w))
<1>1. /\ w \in Seq(0..(oldest + 1)) /\ Len(w) <= n /\ Ordered(w, Older)
      /\ Len(w) \in Nat /\ DOMAIN w = 1..Len(w)
  BY DEF History
<1>2. CASE young = {}
  <2>1. <<>> \in History(n, oldest)
    BY DEF History, Ordered
  <2> QED BY <1>2, <2>1 DEF Cut
<1>3. CASE young # {}
  <2>1. k \in young
    <3>1. \E x \in young : \A y \in young : x <= y
      <4>1. young \subseteq Nat
        BY <1>1
      <4> HIDE DEF young
      <4> QED BY <1>3, <4>1, LeastNat
    <3> HIDE DEF young
    <3> QED BY <3>1 DEF First
  <2>2. k \in 1..Len(w) /\ w[k] <= oldest
    BY <1>1, <2>1
  <2> HIDE DEF young, k
  <2>3. /\ v \in Seq(0..(oldest + 1)) /\ Len(v) = Len(w) - k + 1
        /\ \A i \in 1..Len(v) : v[i] = w[i + k - 1]
    BY <1>1, <2>2
  <2>4. \A i \in 1..Len(v) : i + k - 1 \in DOMAIN w
    BY <1>1, <2>2, <2>3
  <2> HIDE DEF v
  <2>5. \A i \in 1..Len(v) : v[i] \in 0..oldest
    <3> TAKE i \in 1..Len(v)
    <3> DEFINE j == i + k - 1
    <3>1. j \in DOMAIN w /\ v[i] = w[j]
      BY <2>3, <2>4
    <3>2. j = k \/ k < j
      BY <2>2
    <3>3. w[j] \in Nat /\ w[k] \in Nat /\ w[j] <= w[k]
      <4> HIDE DEF j
      <4>1. w[j] \in 0..(oldest + 1) /\ w[k] \in 0..(oldest + 1) /\ k \in DOMAIN w
        BY <1>1, <2>2, <3>1
      <4>2. k < j => w[k] >= w[j]
        BY <1>1, <3>1, <4>1 DEF Ordered, Older
      <4> QED BY <3>2, <4>1, <4>2
    <3> HIDE DEF j
    <3> QED BY <2>2, <3>1, <3>3
  <2>6. v \in Seq(0..oldest)
    BY <2>3, <2>5
  <2>7. Ordered(v, Older)
    <3> SUFFICES ASSUME NEW i \in 1..Len(v), NEW j \in 1..Len(v), i < j
                 PROVE  <<v[i], v[j]>> \in Older
      BY <2>3 DEF Ordered
    <3>1. i + k - 1 < j + k - 1
      BY <2>2
    <3> QED BY <1>1, <2>3, <2>4, <3>1 DEF Ordered
  <2>8. Len(v) <= n
    BY <1>1, <2>2, <2>3
  <2> QED BY <1>3, <2>6, <2>7, <2>8 DEF Cut, History, v, young, k
<1> QED BY <1>2, <1>3

\* A pushed sample is the last one of a window within its bounds.
LEMMA AddedKeeps ==
  ASSUME NEW n \in Nat \ {0}, NEW oldest \in Nat, NEW w \in History(n, oldest + 1)
  PROVE  Added(w, n, oldest) \in History(n, oldest) /\ EndsNow(Added(w, n, oldest))
<1> DEFINE c == Cut(w, oldest)
           v == Append(c, 0)
<1>1. c \in Seq(0..oldest) /\ Len(c) <= n /\ Ordered(c, Older) /\ Len(c) \in Nat
  BY CutKeeps DEF History
<1> HIDE DEF c
<1>2. /\ v \in Seq(0..oldest) /\ Len(v) = Len(c) + 1 /\ v[Len(v)] = 0 /\ v # <<>>
  BY <1>1
<1>3. Ordered(v, Older)
  <2>1. \A y \in Range(c) : <<y, 0>> \in Older
    BY <1>1 DEF Range, Older
  <2>2. 0 \in 0..oldest
    OBVIOUS
  <2> QED BY <1>1, <2>1, <2>2, AppendOrdered
<1> HIDE DEF v
<1>4. CASE Len(v) > n
  <2>1. /\ Tail(v) \in Seq(0..oldest) /\ Len(Tail(v)) = Len(v) - 1
        /\ Tail(v)[Len(Tail(v))] = v[Len(v)]
    BY <1>1, <1>2, <1>4
  <2>2. Len(Tail(v)) <= n /\ Len(Tail(v)) > 0
    BY <1>1, <1>2, <1>4, <2>1
  <2>3. Tail(v) # <<>>
    <3>1. Len(<<>>) = 0 /\ ~(0 > 0)
      OBVIOUS
    <3> DEFINE u == Tail(v)
    <3> HIDE DEF u
    <3>2. Len(u) > 0 => u # <<>>
      BY <3>1
    <3> QED BY <2>2, <3>2 DEF u
  <2>4. Ordered(Tail(v), Older)
    BY <1>2, <1>3, TailOrdered
  <2>5. Added(w, n, oldest) = Tail(v)
    BY <1>4 DEF Added, Limit, v, c
  <2> QED BY <1>2, <2>1, <2>2, <2>3, <2>4, <2>5 DEF History, EndsNow
<1>5. CASE ~(Len(v) > n)
  <2>1. Added(w, n, oldest) = v
    BY <1>5 DEF Added, Limit, v, c
  <2> QED BY <1>1, <1>2, <1>3, <1>5, <2>1 DEF History, EndsNow
<1> QED BY <1>4, <1>5

\* The stricter bound in age implies the weaker one.
LEMMA HistoryWeaker ==
  ASSUME NEW n \in Nat, NEW oldest \in Nat, NEW w \in History(n, oldest)
  PROVE  w \in History(n, oldest + 1)
<1>1. w \in Seq(0..oldest) /\ \A i \in 1..Len(w) : w[i] \in 0..(oldest + 1)
  BY DEF History
<1>2. w \in Seq(0..(oldest + 1))
  BY <1>1
<1> QED BY <1>2 DEF History

\* The ages of a window never rise.
LEMMA HistoryOrder ==
  ASSUME NEW n, NEW oldest \in Nat, NEW w \in History(n, oldest)
  PROVE  \A i, j \in DOMAIN w : i <= j => w[i] >= w[j]
<1>1. w \in Seq(0..oldest) /\ Ordered(w, Older)
  BY DEF History
<1>2. \A i \in DOMAIN w : i \in Nat /\ w[i] \in Nat
  BY <1>1
<1>3. \A i, j \in DOMAIN w : i < j => w[i] >= w[j]
  BY <1>1 DEF Ordered, Older
<1> QED BY <1>2, <1>3

\* An empty window is one.
LEMMA EmptyHistory ==
  ASSUME NEW n \in Nat, NEW oldest \in Nat
  PROVE  <<>> \in History(n, oldest)
BY DEF History, Ordered

-----------------------------------------------------------------------------
\* A new engine has empty windows.
LEMMA InitInv == Init => Inv
<1> SUFFICES ASSUME Init PROVE Inv
  OBVIOUS
<1>1. /\ started = FALSE /\ lag = 0 /\ windows = [m \in Metrics |-> <<>>]
      /\ counters = None /\ frames = <<>> /\ model = "COLD" /\ total = 0
      /\ fed = {} /\ steady = FALSE
  BY DEF Init, Fresh
<1>2. <<>> \in History(MaxSamples, WindowAge + 1) /\ <<>> \in History(MaxFrames, NarWindow)
  BY EmptyHistory, HealthAssumption
<1>3. 0 \in 0..MaxLag /\ 0 \in 0..MaxTotal
  BY HealthAssumption
<1> QED BY <1>1, <1>2, <1>3 DEF Inv

\* A sample: each window ages, and those of the metrics with a value grow.
LEMMA EvaluateKeeps ==
  ASSUME Inv, NEW s \in Int, NEW observed \in SUBSET Gauges, NEW now \in 0..MaxTotal,
         Evaluate(s, observed, now), lag' <= MaxLag, steady' \in BOOLEAN
  PROVE  Inv'
<1> DEFINE ahead == s - lag
           d == IF started THEN Advance(ahead) ELSE 0
           values == Values(observed, d, now)
<1>1. /\ started' = TRUE
      /\ lag' = IF started THEN d - ahead ELSE 0
      /\ model' = Least({ModelState(Window!Prune(Seen(m, d))) : m \in values})
      /\ windows' = [m \in Metrics |-> IF m \in values THEN Window!Push(Seen(m, d))
                                       ELSE Seen(m, d)]
      /\ counters' = Counters(observed, d, now)
      /\ frames' = Frames!Push(Frames!Aged(frames, d))
      /\ total' = now
      /\ fed' = values
  BY DEF Evaluate
<1>2. ahead \in Int /\ d \in Nat
  BY DEF Inv, Advance
<1>3. values \subseteq Metrics
  BY DEF Values, Metrics
<1>4. lag' \in 0..MaxLag
  BY <1>1, HealthAssumption DEF Inv, Advance
<1> HIDE DEF values, d, ahead
<1>5. ASSUME NEW m \in Metrics
      PROVE  /\ Seen(m, d) \in History(MaxSamples, WindowAge + 1)
             /\ Window!Push(Seen(m, d)) \in History(MaxSamples, WindowAge)
             /\ EndsNow(Window!Push(Seen(m, d)))
  <2> DEFINE w == windows[m]
             v == Shift(w, WindowAge, d)
  <2>0. WindowAge \in Nat /\ WindowAge + 1 \in Nat /\ MaxSamples \in Nat \ {0}
    BY HealthAssumption
  <2>1. w \in History(MaxSamples, WindowAge + 1)
    BY DEF Inv
  <2>2. Seen(m, d) = v
    <3>1. w \in Seq(0..(WindowAge + 1))
      BY <2>1 DEF History
    <3> QED BY <2>0, <3>1, WindowOperators DEF Seen
  <2> HIDE DEF w
  <2>3. v \in History(MaxSamples, WindowAge + 1)
    BY <1>2, <2>0, <2>1, ShiftKeeps
  <2> HIDE DEF v
  <2>4. Window!Push(v) = Added(v, MaxSamples, WindowAge)
    <3>1. v \in Seq(0..(WindowAge + 1))
      BY <2>3 DEF History
    <3> QED BY <2>0, <3>1, WindowOperators
  <2>5. /\ Added(v, MaxSamples, WindowAge) \in History(MaxSamples, WindowAge)
        /\ EndsNow(Added(v, MaxSamples, WindowAge))
    BY <2>0, <2>3, AddedKeeps
  <2> QED BY <2>2, <2>3, <2>4, <2>5
<1>6. windows' \in [Metrics -> History(MaxSamples, WindowAge + 1)]
  <2>1. \A m \in Metrics :
          Window!Push(Seen(m, d)) \in History(MaxSamples, WindowAge + 1)
    BY <1>5, HistoryWeaker, HealthAssumption
  <2> QED BY <1>1, <1>5, <2>1
<1>7. \A m \in fed' : windows'[m] \in History(MaxSamples, WindowAge) /\ EndsNow(windows'[m])
  BY <1>1, <1>3, <1>5
<1>8. frames' \in History(MaxFrames, NarWindow)
  <2> DEFINE v == Shift(frames, NarWindow, d)
  <2>0. NarWindow \in Nat /\ NarWindow + 1 \in Nat /\ MaxFrames \in Nat \ {0}
    BY HealthAssumption
  <2>1. frames \in History(MaxFrames, NarWindow)
    BY DEF Inv
  <2>2. frames \in History(MaxFrames, NarWindow + 1)
    BY <2>0, <2>1, HistoryWeaker
  <2>3. Frames!Aged(frames, d) = v
    <3>1. frames \in Seq(0..NarWindow)
      BY <2>1 DEF History
    <3> QED BY <2>0, <3>1, WindowOperators
  <2>4. v \in History(MaxFrames, NarWindow + 1)
    BY <1>2, <2>0, <2>2, ShiftKeeps
  <2> HIDE DEF v
  <2>5. Frames!Push(v) = Added(v, MaxFrames, NarWindow)
    <3>1. v \in Seq(0..(NarWindow + 1))
      BY <2>4 DEF History
    <3> QED BY <2>0, <3>1, WindowOperators
  <2> QED BY <1>1, <2>0, <2>3, <2>4, <2>5, AddedKeeps
<1>9. counters' \in CounterTypes \cup {None}
  <2>1. CASE Net \in observed /\ (counters = None \/ counters.age + d > 0)
    <3>1. counters' = [total |-> now, age |-> 0]
      BY <1>1, <2>1 DEF Counters
    <3> QED BY <3>1, HealthAssumption DEF CounterTypes
  <2>2. CASE ~(Net \in observed /\ (counters = None \/ counters.age + d > 0))
             /\ counters = None
    BY <1>1, <2>2 DEF Counters
  <2>3. CASE ~(Net \in observed /\ (counters = None \/ counters.age + d > 0))
             /\ counters # None
    <3>1. counters' = [counters EXCEPT !.age = Window!Later(counters.age, d)]
      BY <1>1, <2>3 DEF Counters
    <3>2. counters \in CounterTypes
      BY <2>3 DEF Inv
    <3>3. Window!Later(counters.age, d) \in 0..(WindowAge + 1)
      BY <1>2, <3>2, HealthAssumption DEF CounterTypes, Window!Later
    <3> QED BY <3>1, <3>2, <3>3 DEF CounterTypes
  <2> QED BY <2>1, <2>2, <2>3
<1>10. model' \in {"COLD", "WARMING", "READY"}
  BY <1>1 DEF Least
<1> QED BY <1>1, <1>3, <1>4, <1>6, <1>7, <1>8, <1>9, <1>10 DEF Inv

\* Every step keeps the windows in order.
LEMMA NextInv == ASSUME Inv, [Next]_vars PROVE Inv'
<1>1. CASE AnySample
  <2>1. PICK s \in Steps, optional \in SUBSET (Gauges \ Required),
             now \in (total..MaxTotal) \cup {0} :
          Evaluate(s, Required \cup optional, now)
    BY <1>1 DEF AnySample
  <2>2. /\ s \in Int /\ Required \cup optional \in SUBSET Gauges
        /\ now \in 0..MaxTotal
    BY HealthAssumption DEF Inv
  <2>3. lag' <= MaxLag /\ steady' \in BOOLEAN
    BY <1>1 DEF AnySample, Inv
  <2> DEFINE observed == Required \cup optional
  <2> HIDE DEF observed
  <2>4. observed \in SUBSET Gauges /\ Evaluate(s, observed, now)
    BY <2>1, <2>2 DEF observed
  <2> QED BY <2>2, <2>3, <2>4, EvaluateKeeps
<1>2. ASSUME NEW now \in total..MaxTotal, RegularSample(now) PROVE Inv'
  <2>1. Interval \in Int /\ Gauges \in SUBSET Gauges /\ now \in 0..MaxTotal
    BY HealthAssumption DEF Inv
  <2>2. Evaluate(Interval, Gauges, now) /\ steady' \in BOOLEAN
    BY <1>2 DEF RegularSample, Inv
  <2>3. lag' <= MaxLag
    BY <2>2, HealthAssumption DEF Evaluate, Advance, Inv
  <2> QED BY <2>1, <2>2, <2>3, EvaluateKeeps
<1>3. CASE Evict
  <2>1. <<>> \in History(MaxSamples, WindowAge + 1) /\ <<>> \in History(MaxFrames, NarWindow)
    BY EmptyHistory, HealthAssumption
  <2>2. 0 \in 0..MaxLag
    BY HealthAssumption
  <2> QED BY <1>3, <2>1, <2>2 DEF Evict, Inv
<1>4. CASE Settle
  BY <1>4 DEF Settle, Inv
<1>5. CASE UNCHANGED vars
  BY <1>5 DEF vars, Inv
<1> QED BY <1>1, <1>2, <1>3, <1>4, <1>5 DEF Next

\* Windows and frames stay within their bounds in number and in age, and the
\* event clock is never behind the Worker's, however that clock is set
\* (RollingWindow::Push and Prune, model_timestamp in Evaluate).
THEOREM WindowsBounded == Spec => []TypeOK
<1>1. ASSUME Inv PROVE TypeOK
  <2>1. ASSUME NEW n \in Nat, NEW oldest \in Nat, NEW w \in History(n, oldest)
        PROVE  Len(w) <= n /\ AgesIn(w, oldest)
    BY DEF History, AgesIn
  <2>2. /\ WindowAge \in Nat /\ WindowAge + 1 \in Nat /\ NarWindow \in Nat
        /\ MaxSamples \in Nat /\ MaxFrames \in Nat
    BY HealthAssumption
  <2>3. Len(frames) <= MaxFrames /\ AgesIn(frames, NarWindow)
    BY <1>1, <2>1, <2>2 DEF Inv
  <2>4. ASSUME NEW m \in Metrics
        PROVE  /\ Len(windows[m]) <= MaxSamples
               /\ AgesIn(windows[m], IF m \in fed THEN WindowAge ELSE WindowAge + 1)
    <3>1. windows[m] \in History(MaxSamples, WindowAge + 1)
          /\ (m \in fed => windows[m] \in History(MaxSamples, WindowAge))
      BY <1>1 DEF Inv
    <3> QED BY <2>1, <2>2, <3>1
  <2>5. counters = None \/ (counters.total \in 0..MaxTotal
                            /\ counters.age \in 0..(WindowAge + 1))
    BY <1>1 DEF Inv, CounterTypes
  <2> QED BY <1>1, <2>3, <2>4, <2>5 DEF Inv, TypeOK
<1> QED BY InitInv, NextInv, <1>1, PTL DEF Spec

\* Every value the engine judges enters the window of its metric, in order: for
\* any clock steps of the Worker, Push never refuses a sample.
THEOREM EverySampleCounts == Spec => []SampleCounts
<1>1. ASSUME Inv PROVE SampleCounts
  <2> SUFFICES ASSUME NEW m \in fed
               PROVE  /\ windows[m] # <<>> /\ windows[m][Len(windows[m])] = 0
                      /\ \A i, j \in DOMAIN windows[m] :
                           i <= j => windows[m][i] >= windows[m][j]
    BY DEF SampleCounts
  <2> DEFINE w == windows[m]
  <2>1. w \in History(MaxSamples, WindowAge) /\ EndsNow(w)
    BY <1>1 DEF Inv
  <2> HIDE DEF w
  <2>2. \A i, j \in DOMAIN w : i <= j => w[i] >= w[j]
    BY <2>1, HistoryOrder, HealthAssumption
  <2> QED BY <2>1, <2>2 DEF EndsNow, w
<1> QED BY InitInv, NextInv, <1>1, PTL DEF Spec
=============================================================================
