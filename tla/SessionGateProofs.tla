-------------------------- MODULE SessionGateProofs --------------------------
(***************************************************************************)
(* Proofs about SessionGate for any set of samples, any scores and any     *)
(* bounds of the two deques, and about WorkerStream, which the gate is     *)
(* part of, for any numbers of runs, samples, calls and copies under way.  *)
(*                                                                         *)
(* TypeOK is inductive.  AtMostOnce and InOrder rest on GateInv: every     *)
(* accepted sample would be judged stale now, unless its session was       *)
(* forgotten.  FeedbackIsOwn rests on CacheInv: every cached entry repeats *)
(* a result that was computed.  OwnedTogether is inductive by itself.      *)
(* LiveIsHeard rests on MemoryInv: whatever the gate refuses a sample for  *)
(* is a sample that it has accepted.  What a stream consists of            *)
(* (StreamSamples) is a hypothesis there, not an assumption of the gate's. *)
(***************************************************************************)
EXTENDS WorkerStream, TLAPS

\* What the gate remembers of the accepted samples (Stale reads a stamp as it
\* reads a sample).
GateInv == \A p \in accepted : p.session \notin forgotten => Stale(p)

StampIn(e) == [session |-> e.session, seq |-> e.seq, ts |-> e.ts]

\* Every entry of the cache is the answer the engine gave to that sample.
CacheInv == \A i \in DOMAIN entries :
              [sample |-> StampIn(entries[i]), score |-> entries[i].score]
                \in computed

-----------------------------------------------------------------------------
\* Where the elements of a deque of at most n elements go in a push: they all
\* stay where they are, or they all move down by one and the first is dropped.
LEMMA PushBoundedPlaces ==
  ASSUME NEW S, NEW s \in Seq(S), NEW x \in S, NEW n \in Nat \ {0},
         Len(s) <= n, NEW t, t = PushBounded(s, x, n)
  PROVE  /\ t \in Seq(S) /\ Len(t) \in 1..n /\ t[Len(t)] = x
         /\ \/ Len(t) = Len(s) + 1 /\ \A j \in 1..Len(s) : t[j] = s[j]
            \/ /\ Len(t) = Len(s) /\ Len(s) = n
               /\ \A j \in 2..Len(s) : t[j - 1] = s[j]
<1> DEFINE a == Append(s, x)
<1>1. /\ a \in Seq(S) /\ Len(a) = Len(s) + 1
      /\ \A j \in 1..Len(s) : a[j] = s[j]
      /\ a[Len(s) + 1] = x
  OBVIOUS
<1>2. CASE Len(s) < n
  BY <1>1, <1>2 DEF PushBounded
<1>3. CASE ~(Len(s) < n)
  <2>1. t = Tail(a) /\ Len(s) = n
    BY <1>3 DEF PushBounded
  <2>2. /\ t \in Seq(S) /\ Len(t) = Len(s)
        /\ \A i \in 1..Len(s) : t[i] = a[i + 1]
    BY <1>1, <2>1
  <2>3. t[Len(s)] = x /\ \A j \in 2..Len(s) : t[j - 1] = s[j]
    BY <1>1, <2>1, <2>2
  <2> QED BY <2>1, <2>2, <2>3
<1> QED BY <1>2, <1>3

\* A push keeps the deque's type and its bound.
LEMMA PushBoundedTyped ==
  ASSUME NEW S, NEW s \in Seq(S), NEW x \in S, NEW n \in Nat \ {0},
         Len(s) <= n, NEW t, t = PushBounded(s, x, n)
  PROVE  t \in Seq(S) /\ Len(t) <= n
BY PushBoundedPlaces

\* A push adds the new element ...
LEMMA PushBoundedAdds ==
  ASSUME NEW S, NEW s \in Seq(S), NEW x \in S, NEW n \in Nat \ {0},
         Len(s) <= n, NEW t, t = PushBounded(s, x, n)
  PROVE  \E i \in DOMAIN t : t[i] = x
<1>1. t \in Seq(S) /\ Len(t) \in 1..n /\ t[Len(t)] = x
  BY PushBoundedPlaces
<1>2. Len(t) \in DOMAIN t
  BY <1>1
<1> QED BY <1>1, <1>2

\* ... keeps every other, but for the oldest one of a full deque ...
LEMMA PushBoundedKeeps ==
  ASSUME NEW S, NEW s \in Seq(S), NEW x \in S, NEW n \in Nat \ {0},
         Len(s) <= n, NEW t, t = PushBounded(s, x, n),
         NEW j \in 1..Len(s), Len(s) # n \/ j # 1
  PROVE  \E i \in DOMAIN t : t[i] = s[j]
<1>1. /\ t \in Seq(S) /\ j \in 1..Len(s)
      /\ \/ Len(t) = Len(s) + 1 /\ \A k \in 1..Len(s) : t[k] = s[k]
         \/ /\ Len(t) = Len(s) /\ Len(s) = n
            /\ \A k \in 2..Len(s) : t[k - 1] = s[k]
  BY PushBoundedPlaces
<1>2. CASE Len(t) = Len(s) + 1 /\ \A k \in 1..Len(s) : t[k] = s[k]
  <2>1. j \in DOMAIN t /\ t[j] = s[j]
    BY <1>1, <1>2
  <2> QED BY <2>1
<1>3. CASE Len(t) = Len(s) /\ Len(s) = n /\ \A k \in 2..Len(s) : t[k - 1] = s[k]
  <2>1. j # 1 => j - 1 \in DOMAIN t /\ t[j - 1] = s[j]
    BY <1>1, <1>3
  <2> QED BY <1>3, <2>1
<1> QED BY <1>1, <1>2, <1>3

\* ... and puts nothing else in.
LEMMA PushBoundedOnly ==
  ASSUME NEW S, NEW s \in Seq(S), NEW x \in S, NEW n \in Nat \ {0},
         Len(s) <= n, NEW t, t = PushBounded(s, x, n), NEW i \in DOMAIN t
  PROVE  t[i] = x \/ \E j \in DOMAIN s : t[i] = s[j]
<1>0. /\ t \in Seq(S) /\ Len(t) \in 1..n /\ t[Len(t)] = x
      /\ \/ Len(t) = Len(s) + 1 /\ \A k \in 1..Len(s) : t[k] = s[k]
         \/ /\ Len(t) = Len(s) /\ Len(s) = n
            /\ \A k \in 2..Len(s) : t[k - 1] = s[k]
  BY PushBoundedPlaces
<1>1. /\ i \in 1..Len(t) /\ t[Len(t)] = x
      /\ \/ Len(t) = Len(s) + 1 /\ \A k \in 1..Len(s) : t[k] = s[k]
         \/ /\ Len(t) = Len(s) /\ Len(s) = n
            /\ \A k \in 2..Len(s) : t[k - 1] = s[k]
  BY <1>0
<1>2. CASE Len(t) = Len(s) + 1 /\ \A k \in 1..Len(s) : t[k] = s[k]
  <2>1. i # Len(t) => i \in DOMAIN s /\ t[i] = s[i]
    BY <1>1, <1>2
  <2> QED BY <1>1, <2>1
<1>3. CASE Len(t) = Len(s) /\ \A k \in 2..Len(s) : t[k - 1] = s[k]
  <2>1. i # Len(t) => i + 1 \in DOMAIN s /\ t[i] = s[i + 1]
    BY <1>1, <1>3
  <2> QED BY <1>1, <2>1
<1> QED BY <1>1, <1>2, <1>3

-----------------------------------------------------------------------------
\* A sample carries a well-formed stamp.
LEMMA StampTyped ==
  ASSUME NEW m \in Samples
  PROVE  /\ StampOf(m) \in Stamp
         /\ m.session \in Session /\ m.seq \in Nat /\ m.ts \in Nat
BY SampleAssumption DEF StampOf, Stamp, Session

\* A Manager that has seen no sample of the host is well typed.
LEMMA InitTypeOK == Init => TypeOK
<1> SUFFICES ASSUME Init PROVE TypeOK
  OBVIOUS
<1>1. NoStamp \in Stamp
  BY DEF NoStamp, Stamp, Session
<1>2. /\ <<>> \in Seq(Session \ {NoSession}) /\ <<>> \in Seq(Entry)
      /\ Len(<<>>) <= RetiredPerHost /\ Len(<<>>) <= EntriesPerHost
  BY BoundAssumption
<1> QED BY <1>1, <1>2 DEF Init, TypeOK

\* One step of the shard thread keeps the types and the bounds of the deques.
LEMMA NextTypeOK == TypeOK /\ [Next]_vars => TypeOK'
<1> SUFFICES ASSUME TypeOK, [Next]_vars PROVE TypeOK'
  OBVIOUS
<1> USE BoundAssumption
<1>1. CASE \E m \in Samples : ProcessOne(m)
  <2> PICK m \in Samples : ProcessOne(m)
    BY <1>1
  <2>1. StampOf(m) \in Stamp /\ m.session \in Session
    BY StampTyped
  <2>2. CASE AnswerDuplicate(m)
    <3>1. PICK i \in DOMAIN entries : feedback' = Delivered(m, entries[i])
      BY <2>2 DEF AnswerDuplicate
    <3>2. entries[i].score \in Scores
      <4>1. entries \in Seq(Entry)
        BY DEF TypeOK
      <4>2. entries[i] \in Entry
        BY <4>1
      <4> QED BY <4>2 DEF Entry
    <3>3. feedback' \in SUBSET [sample : Stamp, score : Scores]
      BY <2>1, <3>1, <3>2 DEF Delivered
    <3> QED BY <2>2, <3>3 DEF AnswerDuplicate, TypeOK, cache, history
  <2>3. CASE RejectStale(m)
    BY <2>3 DEF RejectStale, TypeOK, cache, history
  <2>4. CASE RejectInvalid(m)
    BY <2>4 DEF RejectInvalid, TypeOK, cache, history
  <2>5. ASSUME NEW score \in Scores, Accept(m, score) PROVE TypeOK'
    <3>1. CASE ~Identified(m)
      BY <2>5, <3>1 DEF Accept, TypeOK, cache, history
    <3>2. CASE Identified(m)
      <4>1. CacheResult(m, score)
        BY <2>5, <3>2 DEF Accept
      <4> DEFINE e == [session |-> m.session, seq |-> m.seq,
                       ts |-> m.ts, score |-> score]
      <4>2. e \in Entry
        BY StampTyped DEF Entry
      <4>3. entries' \in Seq(Entry) /\ Len(entries') <= EntriesPerHost
        <5>1. entries' = PushBounded(entries, e, EntriesPerHost)
          BY <4>1 DEF CacheResult
        <5> HIDE DEF e
        <5> QED BY <5>1, <4>2, PushBoundedTyped DEF TypeOK
      <4>4. /\ retired' \in Seq(Session \ {NoSession})
            /\ Len(retired') <= RetiredPerHost
            /\ forgotten' \in SUBSET (Session \ {NoSession})
        <5>1. CASE Retires(m)
          <6>1. latest.session \in Session \ {NoSession}
            BY <5>1 DEF Retires, TypeOK, Stamp
          <6>2. retired' = PushBounded(retired, latest.session, RetiredPerHost)
            BY <4>1, <5>1 DEF CacheResult
          <6>3. Len(retired) = RetiredPerHost =>
                  retired[1] \in Session \ {NoSession}
            BY DEF TypeOK
          <6>4. forgotten' \in SUBSET (Session \ {NoSession})
            BY <4>1, <6>3 DEF CacheResult, TypeOK
          <6> QED BY <6>1, <6>2, <6>4, PushBoundedTyped DEF TypeOK
        <5>2. CASE ~Retires(m)
          BY <4>1, <5>2 DEF CacheResult, TypeOK
        <5> QED BY <5>1, <5>2
      <4>5. /\ latest' \in Stamp
            /\ accepted' \in SUBSET Stamp
            /\ computed' \in SUBSET [sample : Stamp, score : Scores]
        BY <2>1, <4>1 DEF CacheResult, TypeOK
      <4>6. feedback' \in SUBSET [sample : Stamp, score : Scores]
        BY <2>1, <2>5, <3>2 DEF Accept, Delivered
      <4> QED BY <2>5, <4>3, <4>4, <4>5, <4>6 DEF Accept, TypeOK
    <3> QED BY <3>1, <3>2
  <2> QED BY <2>2, <2>3, <2>4, <2>5 DEF ProcessOne
<1>2. CASE MaintainShard
  <2>1. NoStamp \in Stamp
    BY DEF NoStamp, Stamp, Session
  <2>2. /\ <<>> \in Seq(Session \ {NoSession}) /\ <<>> \in Seq(Entry)
        /\ Len(<<>>) <= RetiredPerHost /\ Len(<<>>) <= EntriesPerHost
    OBVIOUS
  <2> QED BY <1>2, <2>1, <2>2 DEF MaintainShard, TypeOK
<1>3. CASE RemoveStaleHost
  BY <1>3 DEF RemoveStaleHost, TypeOK, cache, history
<1>4. CASE EngineIdles
  BY <1>4 DEF EngineIdles, TypeOK, cache, history
<1>5. CASE ScoreAges
  BY <1>5 DEF ScoreAges, TypeOK, cache, history
<1>6. CASE UNCHANGED vars
  BY <1>6 DEF vars, TypeOK
<1> QED BY <1>1, <1>2, <1>3, <1>4, <1>5, <1>6 DEF Next

\* TypeOK holds in every reachable state; with it the two deques of a host
\* never outgrow kFeedbackCacheEntriesPerHost and kRetiredSessionsPerHost.
THEOREM TypeCorrect == Spec => []TypeOK
BY InitTypeOK, NextTypeOK, PTL DEF Spec

-----------------------------------------------------------------------------
\* A session the cache remembers as superseded stays in retired_session_ids
\* until it is forgotten, and a superseded live session enters it.
LEMMA RetiredKept ==
  ASSUME TypeOK, NEW m \in Samples, NEW score \in Scores, CacheResult(m, score)
  PROVE  /\ forgotten \subseteq forgotten'
         /\ \A j \in DOMAIN retired :
              \/ \E i \in DOMAIN retired' : retired'[i] = retired[j]
              \/ retired[j] \in forgotten'
         /\ Retires(m) => \E i \in DOMAIN retired' : retired'[i] = latest.session
<1>1. CASE Retires(m)
  <2>1. latest.session \in Session \ {NoSession}
    BY <1>1 DEF Retires, TypeOK, Stamp
  <2>2. retired' = PushBounded(retired, latest.session, RetiredPerHost)
    BY <1>1 DEF CacheResult
  <2>3. forgotten' = IF Len(retired) = RetiredPerHost
                       THEN forgotten \cup {retired[1]} ELSE forgotten
    BY <1>1 DEF CacheResult
  <2>4. /\ retired \in Seq(Session \ {NoSession})
        /\ Len(retired) <= RetiredPerHost
        /\ RetiredPerHost \in Nat \ {0}
    BY BoundAssumption DEF TypeOK
  <2>5. /\ \E i \in DOMAIN retired' : retired'[i] = latest.session
        /\ \A j \in DOMAIN retired :
             \/ \E i \in DOMAIN retired' : retired'[i] = retired[j]
             \/ Len(retired) = RetiredPerHost /\ j = 1
    <3>1. \E i \in DOMAIN retired' : retired'[i] = latest.session
      BY <2>1, <2>2, <2>4, PushBoundedAdds
    <3>2. ASSUME NEW j \in DOMAIN retired,
                 Len(retired) # RetiredPerHost \/ j # 1
          PROVE  \E i \in DOMAIN retired' : retired'[i] = retired[j]
      <4>1. j \in 1..Len(retired)
        BY <2>4
      <4> DEFINE S == Session \ {NoSession}
      <4>2. latest.session \in S /\ retired \in Seq(S)
        BY <2>1, <2>4
      <4> HIDE DEF S
      <4> QED BY <2>2, <2>4, <3>2, <4>1, <4>2, PushBoundedKeeps
    <3> QED BY <3>1, <3>2
  <2> QED BY <2>3, <2>5
<1>2. CASE ~Retires(m)
  BY <1>2 DEF CacheResult
<1> QED BY <1>1, <1>2

\* The order of two samples of a legacy Worker is that of (ts, seq).
LEMMA LexicographicTransitive ==
  ASSUME NEW a \in Stamp, NEW b \in Stamp, NEW c \in Stamp,
         a.ts < b.ts \/ (a.ts = b.ts /\ a.seq <= b.seq),
         ~(c.ts < b.ts \/ (c.ts = b.ts /\ c.seq <= b.seq))
  PROVE  a.ts < c.ts \/ (a.ts = c.ts /\ a.seq < c.seq)
BY DEF Stamp

\* A sample that passes the gate is newer than all that was accepted of its
\* session, and its session, if it had samples before, is the live one.
LEMMA GateOrders ==
  ASSUME TypeOK, GateInv, NEW m \in Samples, Identified(m), PassesGate(m),
         m.session \notin forgotten,
         NEW p \in accepted, p.session = m.session
  PROVE  Newer(m, p) /\ latest.session = m.session
<1>1. Stale(p) /\ ~Stale(m)
  BY DEF GateInv, PassesGate
<1>2. /\ p \in Stamp /\ latest \in Stamp /\ StampOf(m) \in Stamp
      /\ m.seq \in Nat /\ m.ts \in Nat
  BY StampTyped DEF TypeOK
<1>3. CASE Modern(m)
  <2>1. latest.session = m.session /\ p.seq <= latest.seq /\ ~(m.seq <= latest.seq)
    BY <1>1, <1>3 DEF Stale, Modern
  <2> QED BY <1>2, <1>3, <2>1 DEF Newer, Modern, Stamp
<1>4. CASE ~Modern(m)
  <2>1. /\ latest.session = NoSession /\ m.session = NoSession
        /\ p.ts < latest.ts \/ (p.ts = latest.ts /\ p.seq <= latest.seq)
        /\ ~(m.ts < latest.ts \/ (m.ts = latest.ts /\ m.seq <= latest.seq))
    BY <1>1, <1>4 DEF Stale, Modern
  <2>2. p.ts < m.ts \/ (p.ts = m.ts /\ p.seq < m.seq)
    BY <1>2, <2>1, LexicographicTransitive DEF StampOf
  <2> QED BY <1>2, <2>1, <2>2 DEF Newer, Stamp
<1> QED BY <1>3, <1>4

\* Putting a sample in the cache keeps the gate shut for the earlier ones.
LEMMA CacheResultKeepsGate ==
  ASSUME TypeOK, GateInv, NEW m \in Samples, NEW score \in Scores,
         Identified(m), PassesGate(m), CacheResult(m, score)
  PROVE  GateInv'
<1> SUFFICES ASSUME NEW p \in accepted', p.session \notin forgotten'
             PROVE  Stale(p)'
  BY DEF GateInv
<1>1. /\ latest' = StampOf(m) /\ accepted' = accepted \cup {StampOf(m)}
      /\ m.session \in Session /\ m.seq \in Nat /\ m.ts \in Nat
      /\ StampOf(m) \in Stamp
  BY StampTyped DEF CacheResult
<1>2. CASE p = StampOf(m)
  BY <1>1, <1>2 DEF Stale, Modern, StampOf
<1>3. CASE p \in accepted
  <2>1. p.session \notin forgotten /\ Stale(p)
    BY <1>3, RetiredKept DEF GateInv
  <2>2. p \in Stamp /\ latest \in Stamp /\ ~Stale(m)
    BY <1>3 DEF TypeOK, PassesGate
  <2>3. CASE Modern(p)
    <3>1. CASE \E j \in DOMAIN retired : retired[j] = p.session
      <4>1. \E i \in DOMAIN retired' : retired'[i] = p.session
        BY <3>1, RetiredKept
      <4> QED BY <2>3, <4>1 DEF Stale, Modern
    <3>2. CASE latest.session = p.session /\ p.seq <= latest.seq
      <4>1. CASE Retires(m)
        BY <2>3, <3>2, <4>1, RetiredKept DEF Stale, Modern
      <4>2. CASE ~Retires(m)
        <5>1. m.session = latest.session /\ Modern(m)
          BY <2>2, <2>3, <3>2, <4>2 DEF Retires, Modern, Stale
        <5>2. ~(m.seq <= latest.seq)
          BY <2>2, <5>1 DEF Stale
        <5>3. p.seq <= m.seq
          BY <1>1, <2>2, <3>2, <5>2 DEF Stamp
        <5> QED BY <1>1, <2>3, <3>2, <5>1, <5>3 DEF Stale, Modern, StampOf
      <4> QED BY <4>1, <4>2
    <3> QED BY <2>1, <2>3, <3>1, <3>2 DEF Stale
  <2>4. CASE ~Modern(p)
    <3>1. CASE Modern(m)
      BY <1>1, <2>4, <3>1 DEF Stale, Modern, StampOf
    <3>2. CASE ~Modern(m)
      <4>1. /\ latest.session = NoSession /\ m.session = NoSession
            /\ p.ts < latest.ts \/ (p.ts = latest.ts /\ p.seq <= latest.seq)
            /\ ~(m.ts < latest.ts \/ (m.ts = latest.ts /\ m.seq <= latest.seq))
        BY <2>1, <2>2, <2>4, <3>2 DEF Stale, Modern
      <4>2. p.ts < m.ts \/ (p.ts = m.ts /\ p.seq < m.seq)
        BY <1>1, <2>2, <4>1, LexicographicTransitive DEF StampOf
      <4>3. p.ts < m.ts \/ (p.ts = m.ts /\ p.seq <= m.seq)
        BY <1>1, <2>2, <4>2 DEF Stamp
      <4> QED BY <1>1, <2>4, <4>3 DEF Stale, Modern, StampOf
    <3> QED BY <3>1, <3>2
  <2> QED BY <2>3, <2>4
<1> QED BY <1>1, <1>2, <1>3

\* One step of the shard thread keeps what the gate remembers.
LEMMA NextGateInv == TypeOK /\ GateInv /\ [Next]_vars => GateInv'
<1> SUFFICES ASSUME TypeOK, GateInv, [Next]_vars PROVE GateInv'
  OBVIOUS
<1>1. ASSUME NEW m \in Samples, NEW score \in Scores, Accept(m, score)
      PROVE  GateInv'
  <2>1. CASE Identified(m)
    <3>1. CacheResult(m, score) /\ PassesGate(m)
      BY <1>1, <2>1 DEF Accept
    <3> QED BY <2>1, <3>1, CacheResultKeepsGate
  <2>2. CASE ~Identified(m)
    BY <1>1, <2>2 DEF Accept, cache, history, GateInv, Stale
  <2> QED BY <2>1, <2>2
<1>2. CASE MaintainShard
  BY <1>2 DEF MaintainShard, GateInv
<1>3. CASE UNCHANGED <<cache, history>>
  BY <1>3 DEF cache, history, GateInv, Stale
<1>4. \/ \E m \in Samples, score \in Scores : Accept(m, score)
      \/ MaintainShard
      \/ UNCHANGED <<cache, history>>
  BY DEF Next, ProcessOne, AnswerDuplicate, RejectStale, RejectInvalid,
         RemoveStaleHost, EngineIdles, ScoreAges, vars, cache, history
<1> QED BY <1>1, <1>2, <1>3, <1>4

\* In every reachable state the gate is shut for all that was accepted.
THEOREM GateCorrect == Spec => [](TypeOK /\ GateInv)
<1>1. Init => TypeOK /\ GateInv
  BY InitTypeOK DEF Init, GateInv
<1>2. TypeOK /\ GateInv /\ [Next]_vars => (TypeOK /\ GateInv)'
  BY NextTypeOK, NextGateInv
<1> QED BY <1>1, <1>2, PTL DEF Spec

\* A sample is accepted at most once: no retry, however late, of an accepted
\* sample passes the gate while its session is remembered.
THEOREM AcceptedAtMostOnce == Spec => []AtMostOnce
<1>1. GateInv => AtMostOnce
  <2> SUFFICES ASSUME GateInv, NEW m \in Samples, Identified(m),
                      StampOf(m) \in accepted, m.session \notin forgotten
               PROVE  ~PassesGate(m)
    BY DEF AtMostOnce
  <2>1. Stale(StampOf(m))
    BY DEF GateInv, StampOf
  <2>2. Stale(m)
    BY <2>1 DEF Stale, Modern, StampOf
  <2> QED BY <2>2 DEF PassesGate
<1> QED BY <1>1, GateCorrect, PTL

\* The samples of a session are accepted in the order they were taken, and a
\* session that was left is not returned to.
THEOREM AcceptedInOrder == Spec => InOrder
<1> DEFINE Ordered ==
      \A m \in accepted' \ accepted :
        m.session \notin forgotten =>
          /\ \A p \in accepted : p.session = m.session => Newer(m, p)
          /\ (\E p \in accepted : p.session = m.session)
               => latest.session = m.session
<1>1. TypeOK /\ GateInv /\ [Next]_vars => Ordered
  <2> SUFFICES ASSUME TypeOK, GateInv, [Next]_vars,
                      NEW a \in accepted' \ accepted,
                      a.session \notin forgotten,
                      NEW p \in accepted, p.session = a.session
               PROVE  Newer(a, p) /\ latest.session = a.session
    OBVIOUS
  <2>1. PICK m \in Samples, score \in Scores : Accept(m, score)
    BY DEF Next, ProcessOne, AnswerDuplicate, RejectStale, RejectInvalid,
           RemoveStaleHost, EngineIdles, ScoreAges, MaintainShard, vars,
           history
  <2>2. Identified(m) /\ PassesGate(m) /\ accepted' = accepted \cup {StampOf(m)}
    BY <2>1 DEF Accept, CacheResult, history
  <2>3. a = StampOf(m)
    BY <2>2
  <2>4. Newer(m, p) /\ latest.session = m.session
    BY <2>2, <2>3, GateOrders DEF StampOf
  <2> QED BY <2>3, <2>4 DEF Newer, StampOf
<1>2. TypeOK /\ GateInv /\ [Next]_vars => [Ordered]_vars
  BY <1>1
<1> HIDE DEF Ordered
<1>3. Spec => [][Ordered]_vars
  BY <1>2, GateCorrect, PTL DEF Spec
<1> QED BY <1>3 DEF InOrder, Ordered

-----------------------------------------------------------------------------
\* One step of the shard thread keeps the cache and the last answer faithful.
LEMMA NextCacheInv ==
  TypeOK /\ CacheInv /\ FeedbackIsOwn /\ [Next]_vars
    => CacheInv' /\ FeedbackIsOwn'
<1> SUFFICES ASSUME TypeOK, CacheInv, FeedbackIsOwn, [Next]_vars
             PROVE  CacheInv' /\ FeedbackIsOwn'
  OBVIOUS
<1>1. ASSUME NEW m \in Samples, AnswerDuplicate(m)
      PROVE  CacheInv' /\ FeedbackIsOwn'
  <2>1. PICK i \in DOMAIN entries : /\ Matches(entries[i], m)
                                    /\ feedback' = Delivered(m, entries[i])
    BY <1>1 DEF AnswerDuplicate
  <2>2. UNCHANGED <<entries, computed>>
    BY <1>1 DEF AnswerDuplicate, cache, history
  <2>3. entries[i].ts = m.ts => StampIn(entries[i]) = StampOf(m)
    BY <2>1 DEF Matches, StampIn, StampOf
  <2>4. FeedbackIsOwn'
    BY <2>1, <2>2, <2>3 DEF FeedbackIsOwn, CacheInv, Delivered
  <2> QED BY <2>2, <2>4 DEF CacheInv
<1>2. ASSUME NEW m \in Samples, NEW score \in Scores, Accept(m, score)
      PROVE  CacheInv' /\ FeedbackIsOwn'
  <2>1. CASE ~Identified(m)
    BY <1>2, <2>1 DEF Accept, cache, history, CacheInv, FeedbackIsOwn
  <2>2. CASE Identified(m)
    <3> DEFINE e == [session |-> m.session, seq |-> m.seq, ts |-> m.ts,
                     score |-> score]
               c == [sample |-> StampOf(m), score |-> score]
    <3>1. /\ entries' = PushBounded(entries, e, EntriesPerHost)
          /\ computed' = computed \cup {c}
      BY <1>2, <2>2 DEF Accept, CacheResult
    <3>2. feedback' \subseteq {c}
      BY <1>2, <2>2 DEF Accept, Delivered
    <3>3. e \in Entry /\ StampIn(e) = StampOf(m) /\ e.score = score
      BY StampTyped DEF Entry, StampIn, StampOf
    <3>4. ASSUME NEW i \in DOMAIN entries'
          PROVE  [sample |-> StampIn(entries'[i]), score |-> entries'[i].score]
                   \in computed'
      <4> HIDE DEF e
      <4>1. entries \in Seq(Entry) /\ Len(entries) <= EntriesPerHost
        BY DEF TypeOK
      <4>2. entries'[i] = e \/ \E j \in DOMAIN entries : entries'[i] = entries[j]
        BY <3>1, <3>3, <4>1, BoundAssumption, PushBoundedOnly
      <4>3. CASE entries'[i] = e
        BY <3>1, <3>3, <4>3
      <4>4. CASE \E j \in DOMAIN entries : entries'[i] = entries[j]
        BY <3>1, <4>4 DEF CacheInv
      <4> QED BY <4>2, <4>3, <4>4
    <3> QED BY <3>1, <3>2, <3>4 DEF CacheInv, FeedbackIsOwn, StampIn
  <2> QED BY <2>1, <2>2
<1>3. CASE MaintainShard
  BY <1>3 DEF MaintainShard, CacheInv, FeedbackIsOwn
<1>4. CASE UNCHANGED <<cache, history>> /\ feedback' \in {{}, feedback}
  BY <1>4 DEF cache, history, CacheInv, FeedbackIsOwn, StampIn
<1>5. \/ \E m \in Samples : AnswerDuplicate(m)
      \/ \E m \in Samples, score \in Scores : Accept(m, score)
      \/ MaintainShard
      \/ UNCHANGED <<cache, history>> /\ feedback' \in {{}, feedback}
  BY DEF Next, ProcessOne, RejectStale, RejectInvalid, RemoveStaleHost,
         EngineIdles, ScoreAges, vars, cache, history
<1> QED BY <1>1, <1>2, <1>3, <1>4, <1>5

\* Feedback is never a result the engine did not compute for that sample.
THEOREM FeedbackCorrect == Spec => []FeedbackIsOwn
<1>1. Init => CacheInv /\ FeedbackIsOwn
  BY DEF Init, CacheInv, FeedbackIsOwn
<1> QED BY <1>1, TypeCorrect, NextCacheInv, PTL DEF Spec

-----------------------------------------------------------------------------
\* No entry of the feedback cache outlives the health engine of its host.
THEOREM HostOwnedTogether == Spec => []OwnedTogether
<1>1. Init => OwnedTogether
  BY DEF Init, OwnedTogether
<1>2. OwnedTogether /\ [Next]_vars => OwnedTogether'
  <2> SUFFICES ASSUME OwnedTogether, [Next]_vars PROVE OwnedTogether'
    OBVIOUS
  <2>1. ASSUME NEW m \in Samples, ProcessOne(m) PROVE OwnedTogether'
    <3>1. CASE AnswerDuplicate(m) \/ RejectStale(m) \/ RejectInvalid(m)
      BY <3>1 DEF AnswerDuplicate, RejectStale, RejectInvalid, cache,
                  OwnedTogether
    <3>2. CASE \E score \in Scores : Accept(m, score)
      <4>1. engine' = "active" /\ perf' = TRUE
        BY <3>2 DEF Accept
      <4> QED BY <4>1 DEF OwnedTogether
    <3> QED BY <2>1, <3>1, <3>2 DEF ProcessOne
  <2>2. CASE MaintainShard
    BY <2>2 DEF MaintainShard, OwnedTogether
  <2>3. CASE RemoveStaleHost \/ EngineIdles \/ ScoreAges \/ UNCHANGED vars
    BY <2>3 DEF RemoveStaleHost, EngineIdles, ScoreAges, vars, cache,
                OwnedTogether
  <2> QED BY <2>1, <2>2, <2>3 DEF Next
<1> QED BY <1>1, <1>2, PTL DEF Spec

-----------------------------------------------------------------------------
(* The gate at the end of a Worker's stream. *)

\* What is sent, and any copy of it, is a sample of some run.
NetworkInv ==
  /\ run \in Runs /\ sending \in 0..MaxSeq
  /\ \A c \in network : c.session \in Runs /\ c.seq \in 1..MaxSeq

\* What the gate refuses a sample for is a sample it has accepted.
MemoryInv ==
  /\ latest = NoStamp \/ latest \in accepted
  /\ \A i \in DOMAIN retired :
       retired[i] # latest.session /\ \E p \in accepted : p.session = retired[i]
  /\ \A i \in DOMAIN entries :
       \E p \in accepted : p.session = entries[i].session /\ p.seq = entries[i].seq

StreamInv == StreamSamples /\ TypeOK /\ NetworkInv /\ MemoryInv

-----------------------------------------------------------------------------
\* Every sample is of a modern Worker, and identified.
LEMMA SamplesOfRuns ==
  ASSUME StreamSamples, NEW r \in Runs, NEW n \in 1..MaxSeq
  PROVE  SampleOf(r, n) \in Samples /\ r # NoSession
BY DEF StreamSamples

\* A Manager that has just started remembers nothing.
LEMMA Forgetful ==
  ASSUME latest = NoStamp, retired = <<>>, entries = <<>>, accepted = {}
  PROVE  MemoryInv
BY DEF MemoryInv

\* The sample that is accepted becomes the latest, and the session it takes the
\* place of had been accepted before (cache_result).
LEMMA CacheResultRemembers ==
  ASSUME TypeOK, MemoryInv, NEW m \in Samples, m.session # NoSession,
         PassesGate(m), Identified(m), NEW score \in Scores, CacheResult(m, score)
  PROVE  MemoryInv'
<1> DEFINE e == [session |-> m.session, seq |-> m.seq, ts |-> m.ts, score |-> score]
<1>1. /\ latest' = StampOf(m) /\ StampOf(m) \in accepted'
      /\ accepted \subseteq accepted' /\ latest'.session = m.session
      /\ StampOf(m).session = m.session /\ StampOf(m).seq = m.seq
  BY DEF CacheResult, StampOf
<1>2. \A i \in DOMAIN retired : retired[i] # m.session
  BY DEF PassesGate, Stale, Modern
<1>3. ASSUME NEW i \in DOMAIN retired'
      PROVE  retired'[i] # latest'.session /\ \E p \in accepted' : p.session = retired'[i]
  <2>1. ASSUME NEW j \in DOMAIN retired, retired'[i] = retired[j]
        PROVE  retired'[i] # latest'.session /\ \E p \in accepted' : p.session = retired'[i]
    BY <1>1, <1>2, <2>1 DEF MemoryInv
  <2>2. CASE ~Retires(m)
    BY <2>1, <2>2 DEF CacheResult
  <2>3. CASE Retires(m)
    <3>1. retired' = PushBounded(retired, latest.session, RetiredPerHost)
      BY <2>3 DEF CacheResult
    <3> DEFINE S == Session \ {NoSession}
    <3>2. /\ retired \in Seq(S) /\ Len(retired) <= RetiredPerHost
          /\ latest.session \in S /\ RetiredPerHost \in Nat \ {0}
      BY <2>3, BoundAssumption DEF TypeOK, Stamp, Retires
    <3> HIDE DEF S
    <3>3. retired'[i] = latest.session \/ \E j \in DOMAIN retired : retired'[i] = retired[j]
      BY <3>1, <3>2, PushBoundedOnly
    <3>4. CASE retired'[i] = latest.session
      <4>1. latest \in accepted
        BY <2>3 DEF MemoryInv, Retires, NoStamp
      <4> QED BY <1>1, <2>3, <3>4, <4>1 DEF Retires
    <3> QED BY <2>1, <3>3, <3>4
  <2> QED BY <2>2, <2>3
<1>4. ASSUME NEW i \in DOMAIN entries'
      PROVE  \E p \in accepted' :
               p.session = entries'[i].session /\ p.seq = entries'[i].seq
  <2>1. entries' = PushBounded(entries, e, EntriesPerHost)
    BY DEF CacheResult
  <2>2. e \in Entry
    BY StampTyped DEF Entry, StampOf, Stamp
  <2>3. /\ entries \in Seq(Entry) /\ Len(entries) <= EntriesPerHost
        /\ EntriesPerHost \in Nat \ {0}
    BY BoundAssumption DEF TypeOK
  <2>4. entries'[i] = e \/ \E j \in DOMAIN entries : entries'[i] = entries[j]
    BY <2>1, <2>2, <2>3, PushBoundedOnly
  <2>5. e.session = m.session /\ e.seq = m.seq
    OBVIOUS
  <2> QED BY <1>1, <2>4, <2>5 DEF MemoryInv
<1> QED BY <1>1, <1>3, <1>4 DEF MemoryInv

\* The gate's turn for one copy.
LEMMA ProcessOneRemembers ==
  ASSUME TypeOK, MemoryInv, NEW m \in Samples, m.session # NoSession, ProcessOne(m)
  PROVE  MemoryInv'
<1>1. CASE UNCHANGED <<cache, history>>
  BY <1>1 DEF MemoryInv, cache, history
<1>2. ASSUME NEW score \in Scores, Accept(m, score) PROVE MemoryInv'
  <2>1. CASE Identified(m)
    BY <1>2, <2>1, CacheResultRemembers DEF Accept
  <2>2. CASE ~Identified(m)
    BY <1>1, <1>2, <2>2 DEF Accept
  <2> QED BY <2>1, <2>2
<1> QED BY <1>1, <1>2 DEF ProcessOne, AnswerDuplicate, RejectStale, RejectInvalid

-----------------------------------------------------------------------------
\* The first run has begun and nothing is under way.
LEMMA StreamInitInv == StreamSamples /\ StreamInit => StreamInv
<1> SUFFICES ASSUME StreamSamples, StreamInit PROVE StreamInv
  OBVIOUS
<1>1. TypeOK
  BY InitTypeOK DEF StreamInit
<1>2. NetworkInv
  BY StreamAssumption DEF StreamInit, NetworkInv, Runs
<1>3. MemoryInv
  BY Forgetful DEF StreamInit, Init
<1> QED BY <1>1, <1>2, <1>3 DEF StreamInv

\* Every step of Worker, network and Manager keeps the invariant.
LEMMA StreamStep == StreamInv /\ [StreamNext]_streamVars => StreamInv'
<1> SUFFICES ASSUME StreamInv, [StreamNext]_streamVars PROVE StreamInv'
  OBVIOUS
<1> USE DEF StreamInv
<1>0. StreamSamples /\ StreamSamples'
  BY DEF StreamSamples, SampleOf, Runs
<1>1. ASSUME UNCHANGED gate PROVE TypeOK' /\ MemoryInv'
  BY <1>1 DEF TypeOK, MemoryInv, gate
<1>2. ASSUME NEW n \in 1..MaxSeq, NEW a, Call(n, a) PROVE StreamInv'
  <2>1. TypeOK' /\ MemoryInv'
    BY <1>1, <1>2 DEF Call
  <2>2. NetworkInv'
    BY <1>2 DEF Call, NetworkInv
  <2> QED BY <1>0, <2>1, <2>2
<1>3. CASE SendNext
  BY <1>2, <1>3 DEF SendNext
<1>4. CASE Retry
  <2>1. sending \in 1..MaxSeq
    BY <1>4, StreamAssumption DEF Retry, NetworkInv
  <2> QED BY <1>2, <1>4, <2>1 DEF Retry
<1>5. CASE WorkerRestart
  <2>1. TypeOK' /\ MemoryInv'
    BY <1>1, <1>5 DEF WorkerRestart
  <2>2. NetworkInv'
    BY <1>5, StreamAssumption DEF WorkerRestart, NetworkInv, Runs
  <2> QED BY <1>0, <2>1, <2>2
<1>6. CASE Deliver
  <2>1. PICK c \in network : /\ ProcessOne(SampleOf(c.session, c.seq))
                             /\ network' = network \ {c}
                             /\ UNCHANGED <<worker, restarts>>
    BY <1>6 DEF Deliver
  <2> DEFINE m == SampleOf(c.session, c.seq)
  <2>2. m \in Samples /\ m.session # NoSession
    BY <1>0, SamplesOfRuns DEF NetworkInv, SampleOf
  <2>3. TypeOK'
    BY <2>1, <2>2, NextTypeOK DEF Next
  <2>4. MemoryInv'
    BY <2>1, <2>2, ProcessOneRemembers
  <2>5. NetworkInv'
    BY <2>1 DEF NetworkInv, worker
  <2> QED BY <1>0, <2>3, <2>4, <2>5
<1>7. CASE Lose
  <2>1. TypeOK' /\ MemoryInv'
    BY <1>1, <1>7 DEF Lose
  <2>2. NetworkInv'
    BY <1>7 DEF Lose, NetworkInv, worker
  <2> QED BY <1>0, <2>1, <2>2
<1>8. CASE ManagerRestart
  <2>1. Init'
    BY <1>8 DEF ManagerRestart, Init
  <2>2. TypeOK' /\ MemoryInv'
    BY <2>1, InitTypeOK, Forgetful, PTL DEF Init
  <2>3. NetworkInv'
    BY <1>8 DEF ManagerRestart, NetworkInv, worker
  <2> QED BY <1>0, <2>2, <2>3
<1>9. CASE Idles
  <2>1. TypeOK'
    BY <1>9, NextTypeOK DEF Idles, Next
  <2>2. MemoryInv' /\ NetworkInv'
    BY <1>9 DEF Idles, EngineIdles, MemoryInv, NetworkInv, cache, history, worker
  <2> QED BY <1>0, <2>1, <2>2
<1>10. CASE Maintains
  <2>1. TypeOK'
    BY <1>10, NextTypeOK DEF Maintains, Next
  <2>2. MemoryInv' /\ NetworkInv'
    BY <1>10 DEF Maintains, MaintainShard, MemoryInv, NetworkInv, worker
  <2> QED BY <1>0, <2>1, <2>2
<1>11. CASE UNCHANGED streamVars
  <2>1. TypeOK' /\ MemoryInv'
    BY <1>1, <1>11 DEF streamVars
  <2>2. NetworkInv'
    BY <1>11 DEF streamVars, worker, NetworkInv
  <2> QED BY <1>0, <2>1, <2>2
<1> QED BY <1>3, <1>4, <1>5, <1>6, <1>7, <1>8, <1>9, <1>10, <1>11 DEF StreamNext

\* A copy of the live run that is newer than all the gate has accepted of it passes,
\* after any restarts, losses and repetitions, however few sessions and results the
\* Manager remembers, unless a late sample of another run was accepted after them.
THEOREM LiveRunIsHeard == StreamSamples /\ StreamSpec => []LiveIsHeard
<1>1. StreamInv => LiveIsHeard
  <2> SUFFICES ASSUME StreamInv, Heard = {} \/ latest.session = run,
                      NEW c \in network, c.session = run,
                      \A p \in Heard : c.seq > p.seq
               PROVE  PassesGate(SampleOf(c.session, c.seq))
    BY DEF LiveIsHeard
  <2> DEFINE m == SampleOf(c.session, c.seq)
  <2>1. m.session = run /\ m.seq = c.seq /\ run # NoSession /\ c.seq \in Nat
    <3>1. run \in Runs /\ c.seq \in 1..MaxSeq /\ MaxSeq \in Nat
      BY StreamAssumption DEF StreamInv, NetworkInv
    <3>2. run # NoSession
      BY <3>1 DEF StreamInv, StreamSamples
    <3>3. m.session = run /\ m.seq = c.seq
      BY DEF SampleOf
    <3>4. c.seq \in Nat
      BY <3>1
    <3> QED BY <3>2, <3>3, <3>4
  <2>2. \A p \in accepted : p.session = run => p.seq \in Nat /\ c.seq > p.seq
    BY DEF Heard, StreamInv, TypeOK, Stamp
  <2> HIDE DEF m
  <2>3. ~Duplicate(m)
    <3> SUFFICES ASSUME NEW i \in DOMAIN entries, Matches(entries[i], m) PROVE FALSE
      BY DEF Duplicate
    <3>1. PICK p \in accepted : p.session = entries[i].session /\ p.seq = entries[i].seq
      BY DEF StreamInv, MemoryInv
    <3> QED BY <2>1, <2>2, <3>1 DEF Matches
  <2>4. \A i \in DOMAIN retired : retired[i] # run
    BY DEF StreamInv, MemoryInv, Heard
  <2>5. ~(latest.session = run /\ c.seq <= latest.seq)
    <3>1. latest.session = run => latest \in accepted
      BY <2>1 DEF StreamInv, MemoryInv, NoStamp
    <3> QED BY <2>1, <2>2, <3>1
  <2>6. ~Stale(m)
    BY <2>1, <2>4, <2>5 DEF Stale, Modern
  <2> QED BY <2>3, <2>6 DEF PassesGate, m
<1> QED BY <1>1, StreamInitInv, StreamStep, PTL DEF StreamSpec
=============================================================================
