---------------------------- MODULE AlertsProofs ----------------------------
(***************************************************************************)
(* Proofs about Alerts for any episodes, ranks of severity and sizes of    *)
(* the Map, the queue and a page.                                          *)
(*                                                                         *)
(* What remember, analyze and poll do is a function of the memory, so the  *)
(* inductive invariant is a set of memories that every such function stays *)
(* in: one entry per key, nothing above what was told, and an analysis     *)
(* counted as attached exactly where its entry says so.  A poll remembers  *)
(* many incidents in one step.  That it breaks no acknowledgement rests on *)
(* an induction over them: each is listed once (PollInv), so an entry      *)
(* shows what it showed before the poll or what its incident brought, and  *)
(* the incident that is analysed in the same step brings nothing else.     *)
(***************************************************************************)
EXTENDS Alerts, QueueItemsProofs, FiniteSetTheorems

\* What running says of a key.
Marks == {"no", "attached", "detached"}

\* The types of what a memory consists of.
Fields == [alerts : Seq(Entry), running : [Episodes -> Marks],
           told : [Episodes -> 0..MaxSeverity], evicted : SUBSET Episodes]

\* TypeOK's uniqueness of keys, SeverityAnnounced and part of AnalysesAlive, of
\* any memory.
OneEntryEach(m) ==
  \A i, j \in DOMAIN m.alerts : m.alerts[i].key = m.alerts[j].key => i = j

Announced(m) ==
  \A i \in DOMAIN m.alerts : m.alerts[i].severity <= m.told[m.alerts[i].key]

Analysed(m) ==
  \A i \in DOMAIN m.alerts :
    m.alerts[i].ai = "analyzing" <=> m.running[m.alerts[i].key] = "attached"

\* An analysis that is attached has its entry in alerts.
Attached(m) ==
  \A e \in Episodes : m.running[e] = "attached" => Known(m, e)

Sound(m) == OneEntryEach(m) /\ Announced(m) /\ Analysed(m) /\ Attached(m)

\* Memories with at most n entries.
Memories(n) == {m \in Fields : Sound(m) /\ Len(m.alerts) <= n}

\* The index of a key that is known.
LEMMA IndexOfKnown ==
  ASSUME NEW m, NEW k, Known(m, k)
  PROVE  Index(m, k) \in DOMAIN m.alerts /\ m.alerts[Index(m, k)].key = k
BY DEF Known, Index

\* What Update changes.
LEMMA UpdateFields ==
  ASSUME NEW m \in Fields, NEW s \in Snapshot, Known(m, s.key),
         NEW i, i = Index(m, s.key), NEW u, u = Update(m, s)
  PROVE  /\ u \in Fields
         /\ u.running = m.running /\ u.evicted = m.evicted
         /\ i \in DOMAIN m.alerts /\ m.alerts[i].key = s.key
         /\ DOMAIN u.alerts = DOMAIN m.alerts /\ Len(u.alerts) = Len(m.alerts)
         /\ \A j \in DOMAIN m.alerts : j # i => u.alerts[j] = m.alerts[j]
         /\ u.alerts[i].key = s.key /\ u.alerts[i].severity = s.severity
         /\ u.alerts[i].ai = m.alerts[i].ai
         /\ u.alerts[i].ack <=> (m.alerts[i].ack /\ ~(s.severity > m.alerts[i].severity))
         /\ \A e \in Episodes : e # s.key => u.told[e] = m.told[e]
         /\ u.told[s.key] >= m.told[s.key]
         /\ s.severity > m.alerts[i].severity => u.told[s.key] >= s.severity
<1> DEFINE old == m.alerts[i]
           b == Escalated(m, s)
           new == [old EXCEPT !.severity = s.severity, !.active = s.active,
                              !.ack = old.ack /\ ~b]
           t == IF b THEN Highest(m.told[s.key], s.severity) ELSE m.told[s.key]
<1>1. i \in DOMAIN m.alerts /\ old.key = s.key /\ old \in Entry
  <2>1. i \in DOMAIN m.alerts /\ old.key = s.key
    BY IndexOfKnown
  <2>2. m.alerts \in Seq(Entry)
    BY DEF Fields
  <2> QED BY <2>1, <2>2
<1>2. b <=> s.severity > old.severity
  BY DEF Escalated
<1>3. s.key \in Episodes /\ s.severity \in Severity /\ s.active \in BOOLEAN
  BY DEF Snapshot
<1>4. new \in Entry /\ new.key = s.key /\ new.severity = s.severity /\ new.ai = old.ai
  BY <1>1, <1>3 DEF Entry
<1>5. new.ack <=> (old.ack /\ ~b)
  BY <1>1 DEF Entry
<1>6. m.told[s.key] \in 0..MaxSeverity
  BY <1>3 DEF Fields
<1>7. /\ t \in 0..MaxSeverity /\ t >= m.told[s.key]
      /\ s.severity > old.severity => t >= s.severity
  BY <1>2, <1>3, <1>6, AlertsAssumption DEF Highest, Severity
<1>8. u = [m EXCEPT !.alerts[i] = new, !.told[s.key] = t]
  BY DEF Update
<1> HIDE DEF new, t, b
<1>9. /\ u.alerts = [m.alerts EXCEPT ![i] = new]
      /\ u.told = [m.told EXCEPT ![s.key] = t]
      /\ u.running = m.running /\ u.evicted = m.evicted
  BY <1>8 DEF Fields
<1>10. u.alerts \in Seq(Entry) /\ Len(u.alerts) = Len(m.alerts)
  <2>1. m.alerts \in Seq(Entry)
    BY DEF Fields
  <2> QED BY <1>1, <1>4, <1>9, <2>1
<1>11. u.told \in [Episodes -> 0..MaxSeverity]
  BY <1>7, <1>9 DEF Fields
<1>12. u \in Fields
  BY <1>8, <1>9, <1>10, <1>11 DEF Fields
<1>13. m.told \in [Episodes -> 0..MaxSeverity]
  BY DEF Fields
<1> QED BY <1>1, <1>2, <1>3, <1>4, <1>5, <1>7, <1>9, <1>10, <1>12, <1>13

\* What remember leaves behind where m was: every entry is either that of the
\* incident or one of before, and only what is pushed out is gone.
Remembered(m, s, n) ==
  /\ Known(n, s.key)
  /\ \A e \in Episodes : m.running[e] # "no" => n.running[e] # "no"
  /\ m.evicted \subseteq n.evicted
  /\ \A k \in Episodes : Known(m, k) => k \in n.evicted \/ Known(n, k)
  /\ \A j \in DOMAIN n.alerts : n.alerts[j].key # s.key =>
       \E i \in DOMAIN m.alerts : n.alerts[j] = m.alerts[i]
  /\ \A j \in DOMAIN n.alerts : n.alerts[j].key = s.key =>
       /\ n.alerts[j].severity = s.severity
       /\ Known(m, s.key) =>
            (n.alerts[j].ack <=>
               (/\ m.alerts[Index(m, s.key)].ack
                /\ ~(s.severity > m.alerts[Index(m, s.key)].severity)))

\* The elements of a sequence of entries.
LEMMA EntryTyped ==
  ASSUME NEW m \in Fields, NEW i \in DOMAIN m.alerts
  PROVE  /\ m.alerts[i] \in Entry /\ m.alerts[i].key \in Episodes
         /\ m.alerts[i].severity \in Nat /\ m.alerts[i].ack \in BOOLEAN
         /\ m.running[m.alerts[i].key] \in Marks
         /\ m.told[m.alerts[i].key] \in Nat
<1>1. m.alerts \in Seq(Entry) /\ m.alerts[i] \in Entry
  BY DEF Fields
<1>2. m.alerts[i].key \in Episodes /\ m.alerts[i].severity \in Severity
      /\ m.alerts[i].ack \in BOOLEAN
  BY <1>1 DEF Entry
<1> QED BY <1>1, <1>2, AlertsAssumption DEF Severity, Fields

\* remember of an episode that has an entry.
LEMMA UpdateRemembers ==
  ASSUME NEW n \in Nat, NEW m \in Memories(n), NEW s \in Snapshot, Known(m, s.key)
  PROVE  Update(m, s) \in Memories(n) /\ Remembered(m, s, Update(m, s))
<1> DEFINE i == Index(m, s.key)
           u == Update(m, s)
<1>1. /\ m \in Fields /\ Len(m.alerts) <= n
      /\ OneEntryEach(m) /\ Announced(m) /\ Analysed(m) /\ Attached(m)
  BY DEF Memories, Sound
<1>2. s.key \in Episodes /\ s.severity \in Nat
  BY AlertsAssumption DEF Snapshot, Severity
<1>3. /\ u \in Fields
      /\ u.running = m.running /\ u.evicted = m.evicted
      /\ i \in DOMAIN m.alerts /\ m.alerts[i].key = s.key
      /\ DOMAIN u.alerts = DOMAIN m.alerts /\ Len(u.alerts) = Len(m.alerts)
      /\ \A j \in DOMAIN m.alerts : j # i => u.alerts[j] = m.alerts[j]
      /\ u.alerts[i].key = s.key /\ u.alerts[i].severity = s.severity
      /\ u.alerts[i].ai = m.alerts[i].ai
      /\ u.alerts[i].ack <=> (m.alerts[i].ack /\ ~(s.severity > m.alerts[i].severity))
      /\ \A e \in Episodes : e # s.key => u.told[e] = m.told[e]
      /\ u.told[s.key] >= m.told[s.key]
      /\ s.severity > m.alerts[i].severity => u.told[s.key] >= s.severity
  BY <1>1, UpdateFields
<1> HIDE DEF u, i
<1>4. \A j \in DOMAIN m.alerts : u.alerts[j].key = m.alerts[j].key
  BY <1>3
<1>5. OneEntryEach(u)
  BY <1>1, <1>3, <1>4 DEF OneEntryEach
<1>6. Announced(u)
  <2> SUFFICES ASSUME NEW j \in DOMAIN m.alerts
               PROVE  u.alerts[j].severity <= u.told[u.alerts[j].key]
    BY <1>3 DEF Announced
  <2>1. m.alerts[j].key \in Episodes /\ m.alerts[j].severity \in Nat
        /\ m.told[m.alerts[j].key] \in Nat
    BY <1>1, EntryTyped
  <2>2. m.alerts[j].severity <= m.told[m.alerts[j].key]
    BY <1>1 DEF Announced
  <2>3. CASE j # i
    <3>1. m.alerts[j].key # s.key
      BY <1>1, <1>3, <2>3 DEF OneEntryEach
    <3> QED BY <1>3, <2>1, <2>2, <2>3, <3>1
  <2>4. CASE j = i
    <3>1. u.told[s.key] \in Nat
      BY <1>2, <1>3, AlertsAssumption DEF Fields
    <3> QED BY <1>2, <1>3, <2>1, <2>2, <2>4, <3>1
  <2> QED BY <2>3, <2>4
<1>7. Analysed(u)
  BY <1>1, <1>3, <1>4 DEF Analysed
<1>8. \A k \in Episodes : Known(m, k) => Known(u, k)
  BY <1>3, <1>4 DEF Known
<1>9. Attached(u)
  BY <1>1, <1>3, <1>8 DEF Attached
<1>10. u \in Memories(n)
  BY <1>1, <1>3, <1>5, <1>6, <1>7, <1>9 DEF Memories, Sound
<1>11. \A j \in DOMAIN u.alerts : u.alerts[j].key = s.key => j = i
  BY <1>3, <1>5 DEF OneEntryEach
<1>12. Remembered(m, s, u)
  <2>1. Known(u, s.key)
    BY <1>2, <1>8
  <2>2. \A j \in DOMAIN u.alerts : u.alerts[j].key # s.key =>
          \E a \in DOMAIN m.alerts : u.alerts[j] = m.alerts[a]
    BY <1>3
  <2>3. \A j \in DOMAIN u.alerts : u.alerts[j].key = s.key =>
          /\ u.alerts[j].severity = s.severity
          /\ u.alerts[j].ack <=> (m.alerts[i].ack /\ ~(s.severity > m.alerts[i].severity))
    BY <1>3, <1>11
  <2> QED BY <1>3, <1>8, <2>1, <2>2, <2>3 DEF Remembered, i
<1> QED BY <1>10, <1>12 DEF u

\* The oldest entry makes room for one that came after it.
LEMMA EvictRemembers ==
  ASSUME NEW m \in Memories(MaxAlerts + 1), NEW n, n = Evict(m)
  PROVE  /\ n \in Memories(MaxAlerts)
         /\ \A e \in Episodes : m.running[e] # "no" => n.running[e] # "no"
         /\ m.evicted \subseteq n.evicted
         /\ \A k \in Episodes : Known(m, k) => k \in n.evicted \/ Known(n, k)
         /\ \A j \in DOMAIN n.alerts :
              \E i \in DOMAIN m.alerts : n.alerts[j] = m.alerts[i]
         /\ m.alerts # <<>> => n.alerts # <<>>
                               /\ n.alerts[Len(n.alerts)] = m.alerts[Len(m.alerts)]
<1>1. /\ m \in Fields /\ Len(m.alerts) <= MaxAlerts + 1
      /\ OneEntryEach(m) /\ Announced(m) /\ Analysed(m) /\ Attached(m)
  BY DEF Memories, Sound
<1>2. m.alerts \in Seq(Entry) /\ MaxAlerts \in Nat \ {0}
  BY <1>1, AlertsAssumption DEF Fields
<1>3. CASE Len(m.alerts) <= MaxAlerts
  <2>1. n = m
    BY <1>3 DEF Evict
  <2> QED BY <1>1, <1>2, <1>3, <2>1 DEF Memories, Sound
<1>4. CASE Len(m.alerts) = MaxAlerts + 1
  <2> DEFINE k == m.alerts[1].key
             run == IF m.running[k] = "attached" THEN "detached" ELSE m.running[k]
  <2>1. 1 \in DOMAIN m.alerts /\ k \in Episodes /\ m.running[k] \in Marks
    <3>1. 1 \in DOMAIN m.alerts
      BY <1>2, <1>4
    <3> QED BY <1>1, <3>1, EntryTyped
  <2>2. n = [m EXCEPT !.alerts = Tail(m.alerts), !.running[k] = run,
                      !.evicted = m.evicted \cup {k}]
    BY <1>2, <1>4 DEF Evict
  <2>3. run \in Marks /\ run # "attached" /\ (m.running[k] # "no" => run # "no")
    BY <2>1 DEF Marks
  <2> HIDE DEF run
  <2>4. /\ n.alerts = Tail(m.alerts) /\ n.running = [m.running EXCEPT ![k] = run]
        /\ n.evicted = m.evicted \cup {k} /\ n.told = m.told
    BY <2>2 DEF Fields
  <2>5. /\ Tail(m.alerts) \in Seq(Entry) /\ Len(Tail(m.alerts)) = MaxAlerts
        /\ \A j \in 1..MaxAlerts : Tail(m.alerts)[j] = m.alerts[j + 1]
        /\ DOMAIN Tail(m.alerts) = 1..MaxAlerts /\ DOMAIN m.alerts = 1..(MaxAlerts + 1)
    BY <1>2, <1>4
  <2>6. n.running \in [Episodes -> Marks] /\ n.evicted \in SUBSET Episodes
    BY <1>1, <2>1, <2>3, <2>4 DEF Fields
  <2>7. n \in Fields
    BY <1>1, <2>2, <2>4, <2>5, <2>6 DEF Fields
  <2>8. /\ DOMAIN n.alerts = 1..MaxAlerts /\ Len(n.alerts) = MaxAlerts
        /\ \A j \in 1..MaxAlerts : j + 1 \in DOMAIN m.alerts
                                   /\ n.alerts[j] = m.alerts[j + 1]
    BY <1>2, <2>4, <2>5
  <2>9. \A j \in 1..MaxAlerts : n.alerts[j].key \in Episodes \ {k}
    <3> TAKE j \in 1..MaxAlerts
    <3>1. j + 1 \in DOMAIN m.alerts /\ n.alerts[j] = m.alerts[j + 1] /\ j + 1 # 1
      BY <2>8, <1>2
    <3>2. m.alerts[j + 1].key \in Episodes
      BY <1>1, <3>1, EntryTyped
    <3>3. m.alerts[j + 1].key # k
      BY <1>1, <2>1, <3>1 DEF OneEntryEach
    <3> QED BY <3>1, <3>2, <3>3
  <2>10. \A e \in Episodes \ {k} : n.running[e] = m.running[e]
    BY <1>1, <2>4 DEF Fields
  <2>11. n.running[k] = run
    BY <1>1, <2>1, <2>4 DEF Fields
  <2> HIDE DEF k
  <2>12. OneEntryEach(n)
    <3> SUFFICES ASSUME NEW a \in 1..MaxAlerts, NEW b \in 1..MaxAlerts,
                        n.alerts[a].key = n.alerts[b].key
                 PROVE  a = b
      BY <2>8 DEF OneEntryEach
    <3>1. /\ a + 1 \in DOMAIN m.alerts /\ b + 1 \in DOMAIN m.alerts
          /\ m.alerts[a + 1].key = m.alerts[b + 1].key
      BY <2>8
    <3>2. a + 1 = b + 1
      BY <1>1, <3>1 DEF OneEntryEach
    <3> QED BY <1>2, <3>2
  <2>13. Announced(n)
    BY <1>1, <2>4, <2>8 DEF Announced
  <2>14. Analysed(n)
    <3> SUFFICES ASSUME NEW j \in 1..MaxAlerts
                 PROVE  n.alerts[j].ai = "analyzing"
                          <=> n.running[n.alerts[j].key] = "attached"
      BY <2>8 DEF Analysed
    <3>1. j + 1 \in DOMAIN m.alerts /\ n.alerts[j] = m.alerts[j + 1]
      BY <2>8
    <3>2. n.running[n.alerts[j].key] = m.running[n.alerts[j].key]
      BY <2>9, <2>10
    <3> QED BY <1>1, <3>1, <3>2 DEF Analysed
  <2>15. \A e \in Episodes \ {k} : Known(m, e) => Known(n, e)
    <3> SUFFICES ASSUME NEW e \in Episodes \ {k}, NEW i \in DOMAIN m.alerts,
                        m.alerts[i].key = e
                 PROVE  Known(n, e)
      BY DEF Known
    <3>1. i # 1
      BY DEF k
    <3>2. i - 1 \in 1..MaxAlerts /\ (i - 1) + 1 = i
      BY <1>2, <2>5, <3>1
    <3>3. n.alerts[i - 1] = m.alerts[i]
      BY <2>8, <3>2
    <3> QED BY <2>8, <3>2, <3>3 DEF Known
  <2>16. Attached(n)
    BY <1>1, <2>3, <2>10, <2>11, <2>15 DEF Attached
  <2>17. n \in Memories(MaxAlerts)
    BY <1>2, <2>7, <2>8, <2>12, <2>13, <2>14, <2>16 DEF Memories, Sound
  <2>18. \A e \in Episodes : m.running[e] # "no" => n.running[e] # "no"
    BY <2>3, <2>10, <2>11
  <2>19. n.alerts # <<>> /\ n.alerts[Len(n.alerts)] = m.alerts[Len(m.alerts)]
    BY <1>2, <1>4, <2>8
  <2> QED BY <2>4, <2>8, <2>15, <2>17, <2>18, <2>19
<1> QED BY <1>1, <1>2, <1>3, <1>4

\* remember of an episode that has no entry.
LEMMA CreateRemembers ==
  ASSUME NEW m \in Memories(MaxAlerts), NEW s \in Snapshot, ~Known(m, s.key),
         NEW initial \in BOOLEAN
  PROVE  /\ Create(m, s, initial) \in Memories(MaxAlerts)
         /\ Remembered(m, s, Create(m, s, initial))
<1> DEFINE k == s.key
           x == [key |-> k, severity |-> s.severity, active |-> s.active,
                 ack |-> initial, ai |-> "pending"]
           t == Highest(m.told[k], s.severity)
           c == [m EXCEPT !.alerts = Append(m.alerts, x), !.told[k] = t]
           n == Create(m, s, initial)
           last == Len(m.alerts) + 1
<1>1. /\ m \in Fields /\ Len(m.alerts) <= MaxAlerts
      /\ OneEntryEach(m) /\ Announced(m) /\ Analysed(m) /\ Attached(m)
  BY DEF Memories, Sound
<1>2. m.alerts \in Seq(Entry) /\ MaxAlerts \in Nat \ {0} /\ MaxSeverity \in Nat
  BY <1>1, AlertsAssumption DEF Fields
<1>3. k \in Episodes /\ s.severity \in Severity /\ s.severity \in Nat
  BY AlertsAssumption DEF Snapshot, Severity
<1>4. m.told[k] \in 0..MaxSeverity /\ m.told[k] \in Nat
  BY <1>1, <1>2, <1>3 DEF Fields
<1>5. t \in 0..MaxSeverity /\ t >= m.told[k] /\ t >= s.severity
  BY <1>2, <1>3, <1>4 DEF Highest, Severity
<1>6. x \in Entry /\ x.key = k /\ x.severity = s.severity /\ x.ai # "analyzing"
  BY <1>3 DEF Entry, Snapshot
<1>7. n = Evict(c)
  BY DEF Create
<1> HIDE DEF t, x, n
<1>8. /\ c.alerts = Append(m.alerts, x) /\ c.told = [m.told EXCEPT ![k] = t]
      /\ c.running = m.running /\ c.evicted = m.evicted
  BY DEF Fields
<1>9. c \in Fields
  <2>1. Append(m.alerts, x) \in Seq(Entry)
    BY <1>2, <1>6
  <2>2. [m.told EXCEPT ![k] = t] \in [Episodes -> 0..MaxSeverity]
    BY <1>1, <1>5 DEF Fields
  <2> QED BY <1>1, <1>8, <2>1, <2>2 DEF Fields
<1>10. /\ DOMAIN m.alerts = 1..Len(m.alerts) /\ DOMAIN c.alerts = 1..last
       /\ Len(c.alerts) = last /\ c.alerts[last] = x /\ last \in 1..last
       /\ \A j \in DOMAIN m.alerts : j \in 1..last /\ c.alerts[j] = m.alerts[j]
       /\ \A j \in 1..last : j = last \/ j \in DOMAIN m.alerts
  BY <1>2, <1>6, <1>8
<1> HIDE DEF c, last
<1>11. \A j \in DOMAIN m.alerts : m.alerts[j].key # k
  BY DEF Known
<1>12. OneEntryEach(c)
  BY <1>1, <1>6, <1>10, <1>11 DEF OneEntryEach
<1>13. Announced(c)
  <2> SUFFICES ASSUME NEW j \in 1..last
               PROVE  c.alerts[j].severity <= c.told[c.alerts[j].key]
    BY <1>10 DEF Announced
  <2>1. CASE j = last
    <3>1. c.told[k] = t
      BY <1>1, <1>3, <1>8 DEF Fields
    <3> QED BY <1>2, <1>3, <1>5, <1>6, <1>10, <2>1, <3>1
  <2>2. CASE j \in DOMAIN m.alerts
    <3>1. m.alerts[j].key \in Episodes
      BY <1>1, <2>2, EntryTyped
    <3>2. c.told[m.alerts[j].key] = m.told[m.alerts[j].key]
      BY <1>1, <1>8, <1>11, <2>2, <3>1 DEF Fields
    <3> QED BY <1>1, <1>10, <2>2, <3>2 DEF Announced
  <2> QED BY <1>10, <2>1, <2>2
<1>14. m.running[k] # "attached"
  BY <1>1, <1>3 DEF Attached
<1>15. Analysed(c)
  <2> SUFFICES ASSUME NEW j \in 1..last
               PROVE  c.alerts[j].ai = "analyzing"
                        <=> m.running[c.alerts[j].key] = "attached"
    BY <1>8, <1>10 DEF Analysed
  <2>1. CASE j = last
    BY <1>6, <1>10, <1>14, <2>1
  <2>2. CASE j \in DOMAIN m.alerts
    BY <1>1, <1>10, <2>2 DEF Analysed
  <2> QED BY <1>10, <2>1, <2>2
<1>16. \A e \in Episodes : Known(m, e) => Known(c, e)
  BY <1>10 DEF Known
<1>17. Attached(c)
  BY <1>1, <1>8, <1>16 DEF Attached
<1>18. c \in Memories(MaxAlerts + 1)
  <2>1. Len(c.alerts) <= MaxAlerts + 1
    BY <1>1, <1>2, <1>10 DEF last
  <2> QED BY <1>9, <1>12, <1>13, <1>15, <1>17, <2>1 DEF Memories, Sound
<1>19. /\ n \in Memories(MaxAlerts)
       /\ \A e \in Episodes : c.running[e] # "no" => n.running[e] # "no"
       /\ c.evicted \subseteq n.evicted
       /\ \A e \in Episodes : Known(c, e) => e \in n.evicted \/ Known(n, e)
       /\ \A j \in DOMAIN n.alerts : \E i \in DOMAIN c.alerts : n.alerts[j] = c.alerts[i]
       /\ c.alerts # <<>> => n.alerts # <<>>
                             /\ n.alerts[Len(n.alerts)] = c.alerts[Len(c.alerts)]
  BY <1>7, <1>18, EvictRemembers
<1>20. Known(n, k)
  <2>1. c.alerts # <<>>
    BY <1>10
  <2>2. n.alerts # <<>> /\ n.alerts[Len(n.alerts)] = x
    BY <1>10, <1>19, <2>1
  <2>3. n.alerts \in Seq(Entry)
    BY <1>19 DEF Memories, Fields
  <2>4. Len(n.alerts) \in DOMAIN n.alerts
    BY <2>2, <2>3
  <2> QED BY <1>6, <2>2, <2>4 DEF Known
<1>21. ASSUME NEW j \in DOMAIN n.alerts
       PROVE  n.alerts[j] = x \/ \E i \in DOMAIN m.alerts : n.alerts[j] = m.alerts[i]
  BY <1>10, <1>19
<1>22. Remembered(m, s, n)
  <2>1. \A j \in DOMAIN n.alerts : n.alerts[j].key # k =>
          \E i \in DOMAIN m.alerts : n.alerts[j] = m.alerts[i]
    BY <1>6, <1>21
  <2>2. \A j \in DOMAIN n.alerts : n.alerts[j].key = k => n.alerts[j].severity = s.severity
    BY <1>6, <1>11, <1>21
  <2>3. \A e \in Episodes : Known(m, e) => e \in n.evicted \/ Known(n, e)
    BY <1>16, <1>19
  <2> QED BY <1>8, <1>19, <1>20, <2>1, <2>2, <2>3 DEF Remembered
<1> QED BY <1>19, <1>22 DEF n

\* remember, whatever the episode.
LEMMA RememberRemembers ==
  ASSUME NEW m \in Memories(MaxAlerts), NEW s \in Snapshot, NEW initial \in BOOLEAN
  PROVE  /\ Remember(m, s, initial) \in Memories(MaxAlerts)
         /\ Remembered(m, s, Remember(m, s, initial))
<1>1. CASE Known(m, s.key)
  <2>1. MaxAlerts \in Nat
    BY AlertsAssumption
  <2>2. Remember(m, s, initial) = Update(m, s)
    BY <1>1 DEF Remember
  <2> QED BY <1>1, <2>1, <2>2, UpdateRemembers
<1>2. CASE ~Known(m, s.key)
  <2>1. Remember(m, s, initial) = Create(m, s, initial)
    BY <1>2 DEF Remember
  <2> QED BY <1>2, <2>1, CreateRemembers
<1> QED BY <1>1, <1>2

\* An entry of before that is acknowledged, and is not any more, got worse, or
\* was pushed out in between.
AckHeld(m, n) ==
  \A i \in DOMAIN m.alerts, j \in DOMAIN n.alerts :
    /\ m.alerts[i].key = n.alerts[j].key
    /\ m.alerts[i].ack /\ ~n.alerts[j].ack
    => \/ n.alerts[j].severity > m.alerts[i].severity
       \/ m.alerts[i].key \in n.evicted

\* One incident that is remembered breaks no acknowledgement.
LEMMA RememberedHolds ==
  ASSUME NEW m \in Memories(MaxAlerts), NEW s \in Snapshot, NEW n,
         Remembered(m, s, n)
  PROVE  AckHeld(m, n)
<1> SUFFICES ASSUME NEW i \in DOMAIN m.alerts, NEW j \in DOMAIN n.alerts,
                    m.alerts[i].key = n.alerts[j].key,
                    m.alerts[i].ack, ~n.alerts[j].ack
             PROVE  n.alerts[j].severity > m.alerts[i].severity
  BY DEF AckHeld
<1>1. OneEntryEach(m)
  BY DEF Memories, Sound
<1>2. CASE n.alerts[j].key = s.key
  <2>1. Known(m, s.key)
    BY <1>2 DEF Known
  <2>2. Index(m, s.key) = i
    BY <1>1, <1>2, <2>1, IndexOfKnown DEF OneEntryEach
  <2> QED BY <1>2, <2>1, <2>2 DEF Remembered
<1>3. CASE n.alerts[j].key # s.key
  <2>1. PICK a \in DOMAIN m.alerts : n.alerts[j] = m.alerts[a]
    BY <1>3 DEF Remembered
  <2>2. a = i
    BY <1>1, <2>1 DEF OneEntryEach
  <2> QED BY <2>1, <2>2
<1> QED BY <1>2, <1>3

\* The same entries as far as acknowledgements are concerned.
Alike(m, n) ==
  /\ n.evicted = m.evicted
  /\ DOMAIN n.alerts = DOMAIN m.alerts
  /\ \A j \in DOMAIN m.alerts : /\ n.alerts[j].key = m.alerts[j].key
                                /\ n.alerts[j].severity = m.alerts[j].severity
                                /\ n.alerts[j].ack = m.alerts[j].ack

\* A mark of the analysis on an entry, and in running.
Marked(m, i, k, ai, mark) == [m EXCEPT !.alerts[i].ai = ai, !.running[k] = mark]

\* An entry and running are marked alike.
LEMMA MarkAlike ==
  ASSUME NEW m \in Memories(MaxAlerts), NEW i \in DOMAIN m.alerts,
         NEW ai \in {"pending", "analyzing", "done"}, NEW mark \in Marks,
         ai = "analyzing" <=> mark = "attached",
         NEW n, n = Marked(m, i, m.alerts[i].key, ai, mark)
  PROVE  /\ n \in Memories(MaxAlerts) /\ Alike(m, n)
         /\ n.running = [m.running EXCEPT ![m.alerts[i].key] = mark]
<1> DEFINE k == m.alerts[i].key
           x == [m.alerts[i] EXCEPT !.ai = ai]
<1>1. /\ m \in Fields /\ Len(m.alerts) <= MaxAlerts
      /\ OneEntryEach(m) /\ Announced(m) /\ Analysed(m) /\ Attached(m)
  BY DEF Memories, Sound
<1>2. m.alerts \in Seq(Entry) /\ m.alerts[i] \in Entry /\ k \in Episodes
  BY <1>1, EntryTyped DEF Fields
<1>3. /\ x \in Entry /\ x.key = k /\ x.severity = m.alerts[i].severity
      /\ x.ack = m.alerts[i].ack /\ x.ai = ai
  BY <1>2 DEF Entry
<1>4. /\ n.alerts = [m.alerts EXCEPT ![i] = x] /\ n.told = m.told
      /\ n.running = [m.running EXCEPT ![k] = mark] /\ n.evicted = m.evicted
  BY DEF Fields, Marked
<1>5. [m.alerts EXCEPT ![i] = x] \in Seq(Entry)
      /\ [m.running EXCEPT ![k] = mark] \in [Episodes -> Marks]
  BY <1>1, <1>2, <1>3 DEF Fields
<1>6. n \in Fields
  BY <1>1, <1>4, <1>5 DEF Fields, Marked
<1> HIDE DEF x
<1>7. /\ DOMAIN n.alerts = DOMAIN m.alerts /\ Len(n.alerts) = Len(m.alerts)
      /\ n.alerts[i] = x
      /\ \A j \in DOMAIN m.alerts : j # i => n.alerts[j] = m.alerts[j]
  BY <1>2, <1>4, <1>5
<1>8. \A j \in DOMAIN m.alerts : /\ n.alerts[j].key = m.alerts[j].key
                                 /\ n.alerts[j].severity = m.alerts[j].severity
                                 /\ n.alerts[j].ack = m.alerts[j].ack
  BY <1>3, <1>7
<1>9. n.running[k] = mark /\ \A e \in Episodes : e # k => n.running[e] = m.running[e]
  BY <1>1, <1>2, <1>4 DEF Fields
<1>10. OneEntryEach(n) /\ Announced(n)
  BY <1>1, <1>4, <1>7, <1>8 DEF OneEntryEach, Announced
<1>11. Analysed(n)
  <2> SUFFICES ASSUME NEW j \in DOMAIN m.alerts
               PROVE  n.alerts[j].ai = "analyzing"
                        <=> n.running[m.alerts[j].key] = "attached"
    BY <1>7, <1>8 DEF Analysed
  <2>1. CASE j = i
    BY <1>3, <1>7, <1>9, <2>1
  <2>2. CASE j # i
    <3>1. m.alerts[j].key \in Episodes /\ m.alerts[j].key # k
      BY <1>1, <2>2, EntryTyped DEF OneEntryEach
    <3> QED BY <1>1, <1>7, <1>9, <2>2, <3>1 DEF Analysed
  <2> QED BY <2>1, <2>2
<1>12. Attached(n)
  <2> SUFFICES ASSUME NEW e \in Episodes, n.running[e] = "attached" PROVE Known(n, e)
    BY DEF Attached
  <2>1. CASE e = k
    BY <1>7, <1>8, <2>1 DEF Known
  <2>2. CASE e # k
    <3>1. Known(m, e)
      BY <1>1, <1>9, <2>2 DEF Attached
    <3> QED BY <1>7, <1>8, <3>1 DEF Known
  <2> QED BY <2>1, <2>2
<1>13. n \in Memories(MaxAlerts)
  BY <1>1, <1>6, <1>7, <1>10, <1>11, <1>12 DEF Memories, Sound
<1> QED BY <1>4, <1>7, <1>8, <1>13 DEF Alike

\* Resolve rewrites who is active and nothing else.
LEMMA ResolveAlike ==
  ASSUME NEW m \in Memories(MaxAlerts), NEW n, n = Resolve(m)
  PROVE  n \in Memories(MaxAlerts) /\ Alike(m, n) /\ n.running = m.running
<1>1. /\ m \in Fields /\ Len(m.alerts) <= MaxAlerts
      /\ OneEntryEach(m) /\ Announced(m) /\ Analysed(m) /\ Attached(m)
  BY DEF Memories, Sound
<1>2. CASE ~initialized
  BY <1>2 DEF Resolve, Alike
<1>3. CASE initialized
  <2> DEFINE over(j) == [m.alerts[j] EXCEPT
                           !.active = @ /\ \E s \in poll.active : s.key = m.alerts[j].key]
             s == [j \in DOMAIN m.alerts |-> over(j)]
  <2>1. n = [m EXCEPT !.alerts = s]
    BY <1>3 DEF Resolve
  <2>2. m.alerts \in Seq(Entry)
    BY <1>1 DEF Fields
  <2>3. ASSUME NEW j \in DOMAIN m.alerts
        PROVE  /\ over(j) \in Entry /\ over(j).key = m.alerts[j].key
               /\ over(j).severity = m.alerts[j].severity
               /\ over(j).ack = m.alerts[j].ack /\ over(j).ai = m.alerts[j].ai
    <3>1. m.alerts[j] \in Entry
      BY <2>2
    <3> QED BY <3>1 DEF Entry
  <2> HIDE DEF over
  <2>4. s \in Seq(Entry) /\ DOMAIN s = DOMAIN m.alerts /\ Len(s) = Len(m.alerts)
    BY <2>2, <2>3
  <2>5. \A j \in DOMAIN m.alerts :
          /\ s[j].key = m.alerts[j].key /\ s[j].severity = m.alerts[j].severity
          /\ s[j].ack = m.alerts[j].ack /\ s[j].ai = m.alerts[j].ai
    BY <2>3
  <2> HIDE DEF s
  <2>6. n.alerts = s /\ n.told = m.told /\ n.running = m.running /\ n.evicted = m.evicted
    BY <1>1, <2>1 DEF Fields
  <2>7. n \in Fields
    BY <1>1, <2>1, <2>4 DEF Fields
  <2>8. OneEntryEach(n) /\ Announced(n)
    BY <1>1, <2>4, <2>5, <2>6 DEF OneEntryEach, Announced
  <2>9. Analysed(n)
    BY <1>1, <2>4, <2>5, <2>6 DEF Analysed
  <2>10. Attached(n)
    BY <1>1, <2>4, <2>5, <2>6 DEF Attached, Known
  <2>11. n \in Memories(MaxAlerts)
    BY <1>1, <2>4, <2>6, <2>7, <2>8, <2>9, <2>10 DEF Memories, Sound
  <2> QED BY <2>4, <2>5, <2>6, <2>11 DEF Alike
<1> QED BY <1>2, <1>3

\* analyze remembers, and what it does then leaves the acknowledgements alone.
LEMMA AnalyzeRemembers ==
  ASSUME NEW m \in Memories(MaxAlerts), NEW s \in Snapshot, NEW again \in BOOLEAN,
         NEW n, n = Analyze(m, s, again)
  PROVE  /\ n \in Memories(MaxAlerts)
         /\ \E r \in Memories(MaxAlerts) : Remembered(m, s, r) /\ Alike(r, n)
         /\ \A e \in Episodes : m.running[e] # "no" => n.running[e] # "no"
         /\ again => n.running[s.key] # "no"
<1> DEFINE r == Remember(m, s, TRUE)
           i == Index(r, s.key)
<1>1. r \in Memories(MaxAlerts) /\ Remembered(m, s, r)
  BY RememberRemembers
<1>2. s.key \in Episodes
  BY DEF Snapshot
<1>3. Known(r, s.key) /\ \A e \in Episodes : m.running[e] # "no" => r.running[e] # "no"
  BY <1>1 DEF Remembered
<1>4. i \in DOMAIN r.alerts /\ r.alerts[i].key = s.key
  BY <1>3, IndexOfKnown
<1>5. r \in Fields
  BY <1>1 DEF Memories
<1>6. n = IF r.running[s.key] # "no" \/ (~again /\ r.alerts[i].ai = "done") THEN r
          ELSE Marked(r, i, s.key, "analyzing", "attached")
  BY DEF Analyze, Marked
<1> HIDE DEF r, i
<1>7. CASE r.running[s.key] # "no" \/ (~again /\ r.alerts[i].ai = "done")
  <2>1. n = r
    BY <1>6, <1>7
  <2> QED BY <1>1, <1>3, <1>7, <2>1 DEF Alike
<1>8. CASE ~(r.running[s.key] # "no" \/ (~again /\ r.alerts[i].ai = "done"))
  <2>1. n = Marked(r, i, r.alerts[i].key, "analyzing", "attached")
    BY <1>4, <1>6, <1>8
  <2>2. "attached" \in Marks
    BY DEF Marks
  <2>3. /\ n \in Memories(MaxAlerts) /\ Alike(r, n)
        /\ n.running = [r.running EXCEPT ![s.key] = "attached"]
    BY <1>1, <1>4, <2>1, <2>2, MarkAlike
  <2>4. /\ n.running[s.key] = "attached"
        /\ \A e \in Episodes : e # s.key => n.running[e] = r.running[e]
    BY <1>2, <1>5, <2>3 DEF Fields
  <2>5. \A e \in Episodes : m.running[e] # "no" => n.running[e] # "no"
    BY <1>3, <2>4
  <2> QED BY <1>1, <2>3, <2>4, <2>5
<1> QED BY <1>7, <1>8

-----------------------------------------------------------------------------
(* Incidents that are remembered one after the other. *)

\* No two incidents are of one episode.
Distinct(merged) ==
  \A p, q \in DOMAIN merged : merged[p].key = merged[q].key => p = q

\* x takes no acknowledgement of m away without being worse.
Justified(m, x) ==
  \A a \in DOMAIN m.alerts :
    m.alerts[a].key = x.key /\ m.alerts[a].ack
      => x.ack \/ x.severity > m.alerts[a].severity

\* What has become of the memory m when the first i of the incidents are
\* remembered: the entry of an episode that was not among them is that of m, and
\* the entry of one that was shows what it was remembered with.
Through(m, merged, i, n) ==
  /\ \A k \in Episodes : Known(m, k) => k \in n.evicted \/ Known(n, k)
  /\ \A j \in DOMAIN n.alerts :
       \/ n.alerts[j].key \in n.evicted
       \/ /\ Justified(m, n.alerts[j])
          /\ \/ /\ \A p \in 1..i : merged[p].key # n.alerts[j].key
                /\ \A a \in DOMAIN m.alerts : m.alerts[a].key = n.alerts[j].key =>
                     /\ m.alerts[a].ack = n.alerts[j].ack
                     /\ m.alerts[a].severity = n.alerts[j].severity
             \/ \E p \in 1..i : /\ merged[p].key = n.alerts[j].key
                                /\ merged[p].severity = n.alerts[j].severity

\* At first nothing has become of it.
LEMMA ThroughNone ==
  ASSUME NEW m \in Memories(MaxAlerts), NEW merged
  PROVE  Through(m, merged, 0, m)
<1>1. OneEntryEach(m)
  BY DEF Memories, Sound
<1> QED BY <1>1 DEF Through, Justified, OneEntryEach

\* Through says nothing of what Alike leaves open.
LEMMA ThroughAlike ==
  ASSUME NEW m, NEW merged, NEW i, NEW n, NEW o, Through(m, merged, i, n), Alike(n, o)
  PROVE  Through(m, merged, i, o)
<1>1. \A k : Known(n, k) => Known(o, k)
  BY DEF Alike, Known
<1>2. ASSUME NEW j \in DOMAIN n.alerts, Justified(m, n.alerts[j])
      PROVE  Justified(m, o.alerts[j])
  BY <1>2 DEF Alike, Justified
<1> QED BY <1>1, <1>2 DEF Through, Alike

\* One more incident is remembered, the next or one of those before.
LEMMA ThroughNext ==
  ASSUME NEW m \in Memories(MaxAlerts), NEW merged \in Seq(Snapshot), Distinct(merged),
         NEW i \in 0..Len(merged), NEW p \in 1..Len(merged), p <= i + 1,
         NEW n \in Memories(MaxAlerts), Through(m, merged, i, n),
         NEW o, Remembered(n, merged[p], o),
         NEW h \in 0..Len(merged), h = IF p = i + 1 THEN p ELSE i
  PROVE  Through(m, merged, h, o)
<1> DEFINE s == merged[p]
<1>1. OneEntryEach(m) /\ OneEntryEach(n) /\ m \in Fields /\ n \in Fields
  BY DEF Memories, Sound
<1>2. s \in Snapshot /\ s.key \in Episodes /\ s.severity \in Nat
  <2>1. s \in Snapshot
    OBVIOUS
  <2> QED BY <2>1, AlertsAssumption DEF Snapshot, Severity
<1>3. p \in 1..h /\ 1..i \subseteq 1..h /\ \A q \in 1..h : q \in 1..i \/ q = p
  OBVIOUS
<1>4. \A k \in Episodes : Known(m, k) => k \in o.evicted \/ Known(o, k)
  BY DEF Through, Remembered
<1>5. ASSUME NEW j \in DOMAIN o.alerts, o.alerts[j].key \notin o.evicted,
             o.alerts[j].key # s.key
      PROVE  /\ Justified(m, o.alerts[j])
             /\ \/ /\ \A q \in 1..h : merged[q].key # o.alerts[j].key
                   /\ \A a \in DOMAIN m.alerts : m.alerts[a].key = o.alerts[j].key =>
                        /\ m.alerts[a].ack = o.alerts[j].ack
                        /\ m.alerts[a].severity = o.alerts[j].severity
                \/ \E q \in 1..h : /\ merged[q].key = o.alerts[j].key
                                   /\ merged[q].severity = o.alerts[j].severity
  <2>1. PICK b \in DOMAIN n.alerts : o.alerts[j] = n.alerts[b]
    BY <1>5 DEF Remembered
  <2>2. n.alerts[b].key \notin n.evicted
    BY <1>5, <2>1 DEF Remembered
  <2> QED BY <1>3, <1>5, <2>1, <2>2 DEF Through
<1>6. ASSUME NEW j \in DOMAIN o.alerts, o.alerts[j].key \notin o.evicted,
             o.alerts[j].key = s.key
      PROVE  /\ Justified(m, o.alerts[j])
             /\ \E q \in 1..h : /\ merged[q].key = o.alerts[j].key
                                /\ merged[q].severity = o.alerts[j].severity
  <2>1. o.alerts[j].severity = s.severity
    BY <1>6 DEF Remembered
  <2>2. ASSUME NEW a \in DOMAIN m.alerts, m.alerts[a].key = s.key,
               m.alerts[a].ack, ~o.alerts[j].ack
        PROVE  s.severity > m.alerts[a].severity
    <3> DEFINE b == Index(n, s.key)
    <3>1. s.key \notin n.evicted
      BY <1>6 DEF Remembered
    <3>2. Known(m, s.key)
      BY <2>2 DEF Known
    <3>3. Known(n, s.key)
      BY <1>2, <3>1, <3>2 DEF Through
    <3>4. b \in DOMAIN n.alerts /\ n.alerts[b].key = s.key
      BY <3>3, IndexOfKnown
    <3>5. o.alerts[j].ack <=> (n.alerts[b].ack /\ ~(s.severity > n.alerts[b].severity))
      BY <1>6, <3>3 DEF Remembered
    <3> HIDE DEF b
    <3>6. /\ Justified(m, n.alerts[b])
          /\ \/ /\ \A q \in 1..i : merged[q].key # s.key
                /\ \A c \in DOMAIN m.alerts : m.alerts[c].key = s.key =>
                     /\ m.alerts[c].ack = n.alerts[b].ack
                     /\ m.alerts[c].severity = n.alerts[b].severity
             \/ \E q \in 1..i : /\ merged[q].key = s.key
                                /\ merged[q].severity = n.alerts[b].severity
      BY <3>1, <3>4 DEF Through
    <3>7. n.alerts[b].ack \in BOOLEAN /\ n.alerts[b].severity \in Nat
      BY <1>1, <3>4, EntryTyped
    <3>8. CASE \A c \in DOMAIN m.alerts : m.alerts[c].key = s.key =>
                     /\ m.alerts[c].ack = n.alerts[b].ack
                     /\ m.alerts[c].severity = n.alerts[b].severity
      BY <2>2, <3>5, <3>8
    <3>9. CASE \E q \in 1..i : /\ merged[q].key = s.key
                               /\ merged[q].severity = n.alerts[b].severity
      <4>1. s.severity = n.alerts[b].severity
        BY <3>9 DEF Distinct
      <4>2. ~n.alerts[b].ack
        BY <1>2, <2>2, <3>5, <4>1
      <4> QED BY <2>2, <3>4, <3>6, <4>1, <4>2 DEF Justified
    <3> QED BY <3>6, <3>8, <3>9
  <2>3. Justified(m, o.alerts[j])
    BY <1>6, <2>1, <2>2 DEF Justified
  <2> QED BY <1>3, <1>6, <2>1, <2>3
<1> QED BY <1>4, <1>5, <1>6 DEF Through

\* After all of them the acknowledgements stand.
LEMMA ThroughHolds ==
  ASSUME NEW m, NEW merged, NEW i, NEW n, Through(m, merged, i, n)
  PROVE  AckHeld(m, n)
BY DEF Through, Justified, AckHeld

\* What Merge has of its memory and of the news after some of the incidents.
Accounts == [memory : Memories(MaxAlerts), fresh : Seq(Snapshot)]
Begin == [memory |-> Memory, fresh |-> <<>>]

\* f is the account after each of the incidents.
RunningAccount(f, merged) ==
  f[0] = Begin /\ \A i \in 1..Len(merged) : f[i] = See(f[i - 1], merged[i])

\* One incident: what is news is the incident itself.
LEMMA SeeRemembers ==
  ASSUME initialized \in BOOLEAN, NEW acc \in Accounts, NEW s \in Snapshot
  PROVE  /\ See(acc, s) \in Accounts
         /\ Remembered(acc.memory, s, See(acc, s).memory)
         /\ See(acc, s).fresh \in {acc.fresh, Append(acc.fresh, s)}
<1> DEFINE r == Remember(acc.memory, s, ~initialized)
           new == See(acc, s).fresh
<1>1. acc.memory \in Memories(MaxAlerts) /\ acc.fresh \in Seq(Snapshot)
  BY DEF Accounts
<1>2. r \in Memories(MaxAlerts) /\ Remembered(acc.memory, s, r)
  BY <1>1, RememberRemembers
<1>3. See(acc, s).memory = r /\ See(acc, s) = [memory |-> r, fresh |-> new]
  BY DEF See
<1>4. new \in {acc.fresh, Append(acc.fresh, s)}
  BY DEF See
<1> HIDE DEF r, new
<1>5. new \in Seq(Snapshot)
  <2>1. Append(acc.fresh, s) \in Seq(Snapshot)
    BY <1>1
  <2> QED BY <1>1, <1>4, <2>1
<1>6. See(acc, s) \in Accounts
  BY <1>2, <1>3, <1>5 DEF Accounts
<1> QED BY <1>2, <1>3, <1>4, <1>6 DEF new

\* Seen is what the running account ends with.
LEMMA SeenOf ==
  ASSUME initialized \in BOOLEAN, Memory \in Memories(MaxAlerts),
         NEW merged \in Seq(Snapshot)
  PROVE  \E f \in [0..Len(merged) -> Accounts] :
           RunningAccount(f, merged) /\ Seen(merged) = f[Len(merged)]
<1> DEFINE Is(f) == f = [i \in 0..Len(merged) |->
                           IF i = 0 THEN Begin ELSE See(f[i - 1], merged[i])]
           step == [i \in 1..Len(merged) |-> [v \in Accounts |-> See(v, merged[i])]]
           seen == CHOOSE f : Is(f)
<1>1. step \in StepFunctions(Len(merged), Accounts)
  <2>1. \A i \in 1..Len(merged), v \in Accounts : See(v, merged[i]) \in Accounts
    <3> TAKE i \in 1..Len(merged), v \in Accounts
    <3>1. merged[i] \in Snapshot
      OBVIOUS
    <3> QED BY <3>1, SeeRemembers
  <2> QED BY <2>1 DEF StepFunctions
<1>2. PICK f : Follows(f, Len(merged), Accounts, Begin, step)
  <2>1. Len(merged) \in Nat /\ Begin \in Accounts
    BY DEF Begin, Accounts
  <2> HIDE DEF step
  <2> QED BY <1>1, <2>1, Recursion
<1>3. f \in [0..Len(merged) -> Accounts] /\ f[0] = Begin
  BY <1>2 DEF Follows
<1>4. ASSUME NEW i \in 1..Len(merged) PROVE f[i] = See(f[i - 1], merged[i])
  <2>1. i - 1 \in 0..Len(merged)
    OBVIOUS
  <2>2. f[i - 1] \in Accounts
    <3> HIDE DEF Is
    <3> QED BY <1>3, <2>1, Zenon
  <2>3. f[i] = step[i][f[i - 1]]
    BY <1>2 DEF Follows
  <2> QED BY <2>2, <2>3
<1>5. RunningAccount(f, merged)
  BY <1>3, <1>4 DEF RunningAccount
<1>6. Is(f)
  <2>1. \A i \in 0..Len(merged) :
          f[i] = IF i = 0 THEN Begin ELSE See(f[i - 1], merged[i])
    <3> TAKE i \in 0..Len(merged)
    <3>1. CASE i = 0
      BY <3>1, <1>3
    <3>2. CASE i \in 1..Len(merged)
      BY <3>2, <1>4
    <3> QED BY <3>1, <3>2
  <2> QED BY <1>3, <2>1
<1>7. Is(seen)
  <2> HIDE DEF Is
  <2> QED BY <1>6, Zenon
<1>8. Seen(merged) = seen[Len(merged)]
  BY DEF Seen, Begin
<1> HIDE DEF seen
<1>9. \A i \in 0..Len(merged) : seen[i] = f[i]
  <2>1. seen = [i \in 0..Len(merged) |->
                  IF i = 0 THEN Begin ELSE See(seen[i - 1], merged[i])]
    BY <1>7
  <2>2. seen[0] = f[0] /\ Len(merged) \in Nat
    BY <1>3, <2>1
  <2>3. \A i \in 1..Len(merged) : seen[i - 1] = f[i - 1] => seen[i] = f[i]
    <3> TAKE i \in 1..Len(merged)
    <3>1. i \in 0..Len(merged) /\ i # 0
      OBVIOUS
    <3>2. seen[i] = See(seen[i - 1], merged[i])
      BY <2>1, <3>1
    <3> QED BY <1>4, <3>2
  <2> QED BY <2>2, <2>3, Agree
<1> QED BY <1>3, <1>5, <1>8, <1>9

\* What the incidents leave of the memory, and where the news are from.
LEMMA SeenThrough ==
  ASSUME initialized \in BOOLEAN, Memory \in Memories(MaxAlerts),
         NEW merged \in Seq(Snapshot), Distinct(merged),
         NEW acc, acc = Seen(merged)
  PROVE  /\ acc \in Accounts
         /\ Through(Memory, merged, Len(merged), acc.memory)
         /\ \A e \in Episodes : running[e] # "no" => acc.memory.running[e] # "no"
         /\ \A q \in DOMAIN acc.fresh : \E p \in 1..Len(merged) : acc.fresh[q] = merged[p]
<1> DEFINE m == Memory
           n == Len(merged)
<1>1. PICK f \in [0..n -> Accounts] :
        RunningAccount(f, merged) /\ Seen(merged) = f[n]
  BY SeenOf
<1> DEFINE After(i) ==
             /\ Through(m, merged, i, f[i].memory)
             /\ \A e \in Episodes : m.running[e] # "no" => f[i].memory.running[e] # "no"
             /\ \A q \in DOMAIN f[i].fresh : \E p \in 1..n : f[i].fresh[q] = merged[p]
           N == {i \in Nat : i <= n => After(i)}
<1>2. 0 \in N
  <2>1. f[0].memory = m /\ f[0].fresh = <<>>
    BY <1>1 DEF RunningAccount, Begin
  <2>2. Through(m, merged, 0, m)
    BY ThroughNone
  <2> HIDE DEF m
  <2> QED BY <2>1, <2>2
<1>3. ASSUME NEW k \in Nat, k \in N PROVE k + 1 \in N
  <2> SUFFICES ASSUME k + 1 <= n PROVE After(k + 1)
    OBVIOUS
  <2> DEFINE i == k + 1
             a == f[k]
             b == f[i]
  <2>1. n \in Nat /\ k \in 0..n /\ i \in 1..n /\ i \in 0..n /\ i - 1 = k
    OBVIOUS
  <2>2. a \in Accounts /\ b \in Accounts
    BY <1>1, <2>1
  <2>3. a.memory \in Memories(MaxAlerts) /\ b.memory \in Memories(MaxAlerts)
        /\ a.fresh \in Seq(Snapshot)
    BY <2>2 DEF Accounts
  <2>4. After(k)
    BY <1>3, <2>1
  <2>5. merged[i] \in Snapshot
    BY <2>1
  <2>6. b = See(a, merged[i])
    BY <1>1, <2>1 DEF RunningAccount
  <2> HIDE DEF n
  <2>7. /\ Remembered(a.memory, merged[i], b.memory)
        /\ b.fresh \in {a.fresh, Append(a.fresh, merged[i])}
    BY <2>2, <2>5, <2>6, SeeRemembers
  <2>8. Through(m, merged, i, b.memory)
    <3> HIDE DEF m, a, b
    <3>1. Through(m, merged, k, a.memory)
      BY <2>4 DEF a
    <3>2. i = k + 1 /\ m \in Memories(MaxAlerts) /\ n = Len(merged)
      BY DEF m, n
    <3> HIDE DEF i
    <3>3. i \in 1..Len(merged) /\ k \in 0..Len(merged) /\ i \in 0..Len(merged) /\ i <= k + 1
          /\ i = IF i = k + 1 THEN i ELSE k
      BY <2>1, <3>2
    <3> QED BY <2>3, <2>7, <3>1, <3>2, <3>3, ThroughNext
  <2>9. \A e \in Episodes : m.running[e] # "no" => b.memory.running[e] # "no"
    BY <2>4, <2>7 DEF Remembered
  <2>10. \A q \in DOMAIN b.fresh : \E p \in 1..n : b.fresh[q] = merged[p]
    <3> HIDE DEF m, a, b, i
    <3>1. \A q \in DOMAIN a.fresh : \E p \in 1..n : a.fresh[q] = merged[p]
      BY <2>4 DEF a
    <3>2. CASE b.fresh = a.fresh
      BY <3>1, <3>2
    <3>3. CASE b.fresh = Append(a.fresh, merged[i])
      <4>1. \A q \in DOMAIN b.fresh : \/ q \in DOMAIN a.fresh /\ b.fresh[q] = a.fresh[q]
                                      \/ b.fresh[q] = merged[i]
        BY <2>3, <2>5, <3>3
      <4> QED BY <2>1, <3>1, <4>1
    <3> QED BY <2>7, <3>2, <3>3
  <2> QED BY <2>8, <2>9, <2>10
<1>4. n \in N
  <2>1. n \in Nat
    OBVIOUS
  <2> HIDE DEF N, n
  <2> QED BY <1>2, <1>3, <2>1, NatSetInduction
<1>5. n \in Nat /\ n \in 0..n
  OBVIOUS
<1>6. After(n)
  <2>1. n <= n
    BY <1>5
  <2> HIDE DEF After, n
  <2> QED BY <1>4, <2>1
<1>7. acc = f[n] /\ acc \in Accounts
  BY <1>1, <1>5
<1>8. m.running = running
  BY DEF Memory
<1> QED BY <1>6, <1>7, <1>8

-----------------------------------------------------------------------------
(* The inductive invariant. *)

\* The memory as the last step that changed it left it.
Now == [alerts |-> alerts, running |-> running, told |-> told, evicted |-> renewed]

\* No episode is listed twice in what a poll has read.
PollInv ==
  /\ poll \in [step : {"idle", "recent", "merge"}, active : SUBSET Snapshot,
               recent : Seq(Snapshot)]
  /\ \A s, t \in poll.active : s.key = t.key => s = t
  /\ Distinct(poll.recent)

\* What waits has somebody who works on it.
QueueInv ==
  /\ pending \in Seq(Snapshot) /\ Len(pending) <= MaxPending
  /\ draining \in Episodes \cup {None}
  /\ pending # <<>> => draining # None
  /\ draining # None => running[draining] # "no"

\* The types of what is left.
Others ==
  /\ incidents \in [Episodes -> [severity : 0..MaxSeverity, active : BOOLEAN]]
  /\ initialized \in BOOLEAN
  /\ asked \in Snapshot \cup {None}
  /\ events \in 0..MaxEvents

\* The inductive invariant.
Inv == PollInv /\ QueueInv /\ Others /\ Now \in Memories(MaxAlerts)

\* A step begins with a memory that is as sound as the last one left it.
LEMMA MemoryOfNow ==
  ASSUME Now \in Memories(MaxAlerts)
  PROVE  Memory \in Memories(MaxAlerts)
<1>1. /\ Now.alerts = alerts /\ Now.running = running /\ Now.told = told
      /\ Memory.alerts = alerts /\ Memory.running = running /\ Memory.told = told
      /\ Memory = [alerts |-> alerts, running |-> running, told |-> told, evicted |-> {}]
  BY DEF Now, Memory
<1>2. Memory \in Fields
  BY <1>1 DEF Memories, Fields
<1>3. Sound(Memory) /\ Len(Memory.alerts) <= MaxAlerts
  BY <1>1 DEF Memories, Sound, OneEntryEach, Announced, Analysed, Attached, Known
<1> QED BY <1>2, <1>3 DEF Memories

\* What the bounds are.
LEMMA Bounds ==
  /\ MaxEpisodes \in Nat /\ MaxEvents \in Nat
  /\ MaxSeverity \in Nat \ {0} /\ MaxAlerts \in Nat \ {0}
  /\ MaxPending \in Nat \ {0} /\ PageSize \in Nat \ {0}
  /\ None \notin Episodes
BY AlertsAssumption DEF Episodes

\* UpTo keeps the first elements where they are.
LEMMA UpToFirst ==
  ASSUME NEW S, NEW s \in Seq(S), NEW n \in Nat, NEW t, t = UpTo(n, s)
  PROVE  /\ t \in Seq(S) /\ Len(t) <= n /\ Len(t) <= Len(s)
         /\ DOMAIN t \subseteq DOMAIN s /\ \A i \in DOMAIN t : t[i] = s[i]
BY DEF UpTo

\* Where the elements of a concatenation are.
LEMMA ConcatPlaces ==
  ASSUME NEW S, NEW a \in Seq(S), NEW b \in Seq(S), NEW t, t = a \o b
  PROVE  /\ t \in Seq(S) /\ Len(t) = Len(a) + Len(b)
         /\ DOMAIN t = 1..(Len(a) + Len(b))
         /\ \A p \in DOMAIN t :
              \/ p \in DOMAIN a /\ t[p] = a[p]
              \/ /\ p - Len(a) \in 1..Len(b) /\ t[p] = b[p - Len(a)]
                 /\ p \notin DOMAIN a
<1>1. t \in Seq(S) /\ Len(t) = Len(a) + Len(b) /\ DOMAIN t = 1..(Len(a) + Len(b))
  OBVIOUS
<1>2. ASSUME NEW p \in 1..(Len(a) + Len(b))
      PROVE  t[p] = IF p <= Len(a) THEN a[p] ELSE b[p - Len(a)]
  OBVIOUS
<1>3. DOMAIN a = 1..Len(a) /\ Len(a) \in Nat /\ Len(b) \in Nat
  OBVIOUS
<1> QED BY <1>1, <1>2, <1>3

\* What is known of an episode that has started.
LEMMA SnapshotTyped ==
  ASSUME Others, NEW e \in Started
  PROVE  SnapshotOf(e) \in Snapshot /\ SnapshotOf(e).key = e
<1>1. e \in Episodes /\ incidents[e].severity > 0
  BY DEF Started
<1>2. incidents[e] \in [severity : 0..MaxSeverity, active : BOOLEAN]
  BY <1>1 DEF Others
<1>3. incidents[e].severity \in Severity
  BY <1>1, <1>2, Bounds DEF Severity
<1> QED BY <1>1, <1>2, <1>3 DEF SnapshotOf, Snapshot

\* A page of recent episodes lists each at most once.
LEMMA RecentTyped ==
  ASSUME Others, NEW recent \in RecentOnes
  PROVE  recent \in Seq(Snapshot) /\ Distinct(recent)
<1> DEFINE all == [i \in Episodes |-> MaxEpisodes + 1 - i]
           R == {q \in Episodes \X Episodes : q[1] > q[2]}
           listed(S) == [i \in DOMAIN UpTo(PageSize, Among(all, S)) |->
                          SnapshotOf(Among(all, S)[i])]
<1> DEFINE closed == {e \in Started : ~incidents[e].active}
           young(old, last) == {e \in Started \ old : e <= last}
<1>0. RecentOnes = {listed(young(old, last)) : old \in SUBSET closed, last \in 0..MaxEpisodes}
  BY DEF RecentOnes
<1>1. PICK keep \in SUBSET Started : recent = listed(keep)
  <2> HIDE DEF listed, closed, young
  <2>1. PICK old \in SUBSET closed, last \in 0..MaxEpisodes :
          recent = listed(young(old, last))
    BY <1>0
  <2>2. young(old, last) \in SUBSET Started
    BY DEF young
  <2> QED BY <2>1, <2>2
<1> DEFINE list == Among(all, keep)
           page == UpTo(PageSize, list)
<1>2. all \in Seq(Episodes)
  BY Bounds DEF Episodes
<1>3. Ordered(all, R)
  BY Bounds DEF Ordered, Episodes
<1> HIDE DEF all, R
<1>4. list \in Seq(Episodes) /\ Ordered(list, R) /\ Range(list) = Range(all) \cap keep
  BY <1>2, <1>3, AmongType, AmongOrdered, AmongElements
<1> HIDE DEF list
<1>5. /\ page \in Seq(Episodes) /\ DOMAIN page \subseteq DOMAIN list
      /\ \A i \in DOMAIN page : page[i] = list[i]
  BY <1>4, Bounds, UpToFirst
<1>6. recent = [i \in DOMAIN page |-> SnapshotOf(page[i])]
  BY <1>1, <1>5 DEF list
<1> HIDE DEF page
<1>7. \A i \in DOMAIN page : page[i] \in Started
  BY <1>4, <1>5 DEF Range
<1>8. /\ DOMAIN recent = DOMAIN page
      /\ \A i \in DOMAIN page : recent[i] \in Snapshot /\ recent[i].key = page[i]
  BY <1>6, <1>7, SnapshotTyped
<1>9. recent \in Seq(Snapshot)
  <2>1. DOMAIN page = 1..Len(page) /\ Len(page) \in Nat
    BY <1>5
  <2>2. recent \in [1..Len(page) -> Snapshot]
    BY <1>6, <1>8, <2>1
  <2> QED BY <2>1, <2>2
<1>10. ASSUME NEW a \in DOMAIN recent, NEW b \in DOMAIN recent, recent[a].key = recent[b].key
       PROVE  a = b
  <2>1. a \in DOMAIN list /\ b \in DOMAIN list /\ list[a] = list[b]
    BY <1>5, <1>8, <1>10
  <2>2. list[a] \in Episodes /\ a \in Int /\ b \in Int
    BY <1>4, <2>1
  <2>3. \A i, j \in DOMAIN list : i < j => list[i] > list[j]
    BY <1>4 DEF Ordered, R
  <2> QED BY <2>1, <2>2, <2>3 DEF Episodes
<1> QED BY <1>9, <1>10 DEF Distinct

\* The active incidents are one for each active episode.
LEMMA ActiveTyped ==
  ASSUME Others
  PROVE  /\ ActiveOnes \subseteq Snapshot
         /\ \A s, t \in ActiveOnes : s.key = t.key => s = t
<1>1. \A s \in ActiveOnes : \E e \in Started : s = SnapshotOf(e)
  BY DEF ActiveOnes
<1>2. \A s \in ActiveOnes : s \in Snapshot /\ s = SnapshotOf(s.key)
  BY <1>1, SnapshotTyped
<1> QED BY <1>2

\* The incidents a poll remembers, each once.
LEMMA MergedTyped ==
  ASSUME PollInv, NEW merged \in Merged
  PROVE  merged \in Seq(Snapshot) /\ Distinct(merged)
<1> DEFINE ActiveOf(k) == {s \in poll.active : s.key = k}
           pick(i) == IF ActiveOf(poll.recent[i].key) = {} THEN poll.recent[i]
                      ELSE CHOOSE s \in ActiveOf(poll.recent[i].key) : TRUE
           listed == {poll.recent[i].key : i \in DOMAIN poll.recent}
           first == [i \in DOMAIN poll.recent |-> pick(i)]
           left == {s \in poll.active : s.key \notin listed}
<1>1. PICK rest \in SetToSeqs(left) : merged = first \o rest
  BY DEF Merged
<1>2. poll.active \subseteq Snapshot /\ poll.recent \in Seq(Snapshot)
  BY DEF PollInv
<1>3. ASSUME NEW i \in DOMAIN poll.recent
      PROVE  pick(i) \in Snapshot /\ pick(i).key = poll.recent[i].key
  <2>1. CASE ActiveOf(poll.recent[i].key) = {}
    BY <1>2, <2>1
  <2>2. CASE ActiveOf(poll.recent[i].key) # {}
    <3>1. pick(i) \in ActiveOf(poll.recent[i].key)
      BY <2>2
    <3> HIDE DEF pick
    <3> QED BY <1>2, <3>1
  <2> QED BY <2>1, <2>2
<1>4. /\ first \in Seq(Snapshot) /\ DOMAIN first = DOMAIN poll.recent
      /\ \A i \in DOMAIN poll.recent : first[i].key = poll.recent[i].key
  <2> HIDE DEF pick
  <2>1. DOMAIN poll.recent = 1..Len(poll.recent) /\ Len(poll.recent) \in Nat
    BY <1>2
  <2>2. first \in [1..Len(poll.recent) -> Snapshot]
    BY <1>3, <2>1
  <2> QED BY <1>3, <2>1, <2>2
<1> HIDE DEF first
<1>5. Cardinality(left) \in Nat
  <2> DEFINE f == [s \in left |-> s.key]
  <2>1. f \in [left -> Episodes] /\ IsInjective(f)
    BY <1>2 DEF IsInjective, PollInv, Snapshot
  <2>2. IsFiniteSet(Episodes)
    BY Bounds, FS_Interval DEF Episodes
  <2> HIDE DEF f
  <2>3. f \in Injection(left, Episodes)
    BY <2>1 DEF Injection
  <2>4. IsFiniteSet(left)
    BY <2>2, <2>3, FS_Injection
  <2> QED BY <2>4, FS_CardinalityType
<1> DEFINE c == Cardinality(left)
<1> HIDE DEF c
<1>6. /\ rest \in [1..c -> left]
      /\ \A i, j \in 1..c : i # j => rest[i] # rest[j]
  BY DEF SetToSeqs, c
<1>7. c \in Nat
  BY <1>5 DEF c
<1>8. left \subseteq Snapshot
  BY <1>2
<1>9. \A s, t \in left : s.key = t.key => s = t
  BY DEF PollInv
<1>10. \A s \in left, i \in DOMAIN first : s.key # first[i].key
  BY <1>4
<1> HIDE DEF left
<1>11. rest \in Seq(Snapshot) /\ Len(rest) = c /\ DOMAIN rest = 1..c
  BY <1>6, <1>7, <1>8
<1>12. /\ merged \in Seq(Snapshot) /\ DOMAIN merged = 1..(Len(first) + c)
       /\ \A p \in DOMAIN merged :
            \/ p \in DOMAIN first /\ merged[p] = first[p]
            \/ /\ p - Len(first) \in 1..c /\ merged[p] = rest[p - Len(first)]
               /\ p \notin DOMAIN first
  BY <1>1, <1>4, <1>11, ConcatPlaces
<1>13. \A i, j \in DOMAIN first : first[i].key = first[j].key => i = j
  BY <1>4 DEF PollInv, Distinct
<1>14. \A i, j \in 1..c : rest[i].key = rest[j].key => i = j
  BY <1>6, <1>9
<1>15. \A i \in 1..c, j \in DOMAIN first : rest[i].key # first[j].key
  BY <1>6, <1>10
<1>16. ASSUME NEW p \in DOMAIN merged, NEW q \in DOMAIN merged, merged[p].key = merged[q].key
       PROVE  p = q
  <2>1. p \in Int /\ q \in Int /\ Len(first) \in Int
    BY <1>4, <1>7, <1>12
  <2>2. CASE p \in DOMAIN first /\ q \in DOMAIN first
    BY <1>12, <1>13, <1>16, <2>2
  <2>3. CASE p \notin DOMAIN first /\ q \notin DOMAIN first
    <3>1. p - Len(first) = q - Len(first)
      BY <1>12, <1>14, <1>16, <2>3
    <3> QED BY <2>1, <3>1
  <2>4. CASE p \in DOMAIN first /\ q \notin DOMAIN first
    BY <1>12, <1>15, <1>16, <2>4
  <2>5. CASE p \notin DOMAIN first /\ q \in DOMAIN first
    BY <1>12, <1>15, <1>16, <2>5
  <2> QED BY <2>2, <2>3, <2>4, <2>5
<1> QED BY <1>12, <1>16 DEF Distinct

-----------------------------------------------------------------------------
(* The steps. *)

\* A memory that remembers what was pushed out only where it is known again.
Trim(m) == [alerts |-> m.alerts, running |-> m.running, told |-> m.told,
            evicted |-> {k \in m.evicted : Known(m, k)}]

\* What is kept is the memory.
LEMMA KeepsAll ==
  ASSUME NEW m \in Memories(MaxAlerts), Keeps(m)
  PROVE  /\ Now' = Trim(m) /\ running' = m.running
         /\ Now' \in Memories(MaxAlerts)
         /\ \A n : AckHeld(n, m) => AckHeld(n, Now')
<1>1. Now' = Trim(m) /\ running' = m.running
  BY DEF Keeps, Now, Trim
<1>2. /\ Trim(m).alerts = m.alerts /\ Trim(m).running = m.running
      /\ Trim(m).told = m.told /\ Trim(m).evicted = {k \in m.evicted : Known(m, k)}
  BY DEF Trim
<1>3. Trim(m) \in Fields
  BY DEF Memories, Fields, Trim
<1>4. Sound(Trim(m)) /\ Len(Trim(m).alerts) <= MaxAlerts
  BY <1>2 DEF Memories, Sound, OneEntryEach, Announced, Analysed, Attached, Known
<1>5. \A n : AckHeld(n, m) => AckHeld(n, Trim(m))
  BY <1>2 DEF AckHeld, Known
<1>6. Trim(m) \in Memories(MaxAlerts)
  BY <1>3, <1>4 DEF Memories
<1> QED BY <1>1, <1>5, <1>6

\* What of Inv a step that leaves the memory alone has to look at.
LEMMA MemoryStays ==
  ASSUME Inv, UNCHANGED memory
  PROVE  Now' \in Memories(MaxAlerts) /\ AckHeld(Memory, Now')
<1>1. Now' = Now /\ Now.alerts = Memory.alerts
  BY DEF memory, Memory, Now
<1>2. OneEntryEach(Memory)
  BY MemoryOfNow DEF Inv, Memories, Sound
<1> QED BY <1>1, <1>2 DEF Inv, AckHeld, OneEntryEach

\* drain: nothing is left to do, or the first of what waits is analysed.
LEMMA DrainKeeps ==
  ASSUME NEW m \in Memories(MaxAlerts), NEW waiting \in Seq(Snapshot),
         Len(waiting) <= MaxPending, Drain(m, waiting)
  PROVE  /\ QueueInv' /\ Now' \in Memories(MaxAlerts)
         /\ \E n : /\ \A l : AckHeld(l, n) => AckHeld(l, Now')
                  /\ \/ n = m
                     \/ /\ waiting # <<>>
                        /\ \E r \in Memories(MaxAlerts) :
                             Remembered(m, waiting[1], r) /\ Alike(r, n)
<1>1. CASE waiting = <<>>
  <2>1. Keeps(m) /\ pending' = <<>> /\ draining' = None
    BY <1>1 DEF Drain
  <2>2. Now' \in Memories(MaxAlerts) /\ \A l : AckHeld(l, m) => AckHeld(l, Now')
    BY <2>1, KeepsAll
  <2>3. QueueInv'
    BY <2>1, Bounds DEF QueueInv
  <2> QED BY <2>2, <2>3
<1>2. CASE waiting # <<>>
  <2> DEFINE s == waiting[1]
             n == Analyze(m, s, TRUE)
  <2>1. Keeps(n) /\ pending' = Tail(waiting) /\ draining' = s.key
    <3>1. Head(waiting) = s
      BY <1>2
    <3>2. /\ \E analyzing \in {Analyze(m, Head(waiting), TRUE)} : Keeps(analyzing)
          /\ pending' = Tail(waiting) /\ draining' = Head(waiting).key
      BY <1>2, Zenon DEF Drain
    <3> HIDE DEF s
    <3> QED BY <3>1, <3>2, Zenon
  <2>2. s \in Snapshot /\ s.key \in Episodes
    <3>1. s \in Snapshot
      BY <1>2
    <3> QED BY <3>1 DEF Snapshot
  <2> HIDE DEF s
  <2>3. /\ n \in Memories(MaxAlerts) /\ n.running[s.key] # "no"
        /\ \E r \in Memories(MaxAlerts) : Remembered(m, s, r) /\ Alike(r, n)
    <3>1. TRUE \in BOOLEAN
      OBVIOUS
    <3> QED BY <2>2, <3>1, AnalyzeRemembers
  <2> HIDE DEF n
  <2>4. /\ Now' \in Memories(MaxAlerts) /\ running' = n.running
        /\ \A l : AckHeld(l, n) => AckHeld(l, Now')
    BY <2>1, <2>3, KeepsAll
  <2>5. Tail(waiting) \in Seq(Snapshot) /\ Len(Tail(waiting)) <= MaxPending
    BY <1>2, Bounds
  <2>6. QueueInv'
    BY <2>1, <2>2, <2>3, <2>4, <2>5, Bounds DEF QueueInv
  <2> QED BY <1>2, <2>3, <2>4, <2>6 DEF s
<1> QED BY <1>1, <1>2

\* The end of a poll.
LEMMA MergeKeeps ==
  ASSUME Inv, Merge
  PROVE  Inv' /\ AckHeld(Memory, Now')
<1>1. PICK merged \in Merged :
        \E seen \in {Seen(merged)} : \E m \in {Resolve(seen.memory)} :
          IF draining = None THEN Drain(m, Queued(seen.fresh))
          ELSE Keeps(m) /\ pending' = Queued(seen.fresh) /\ UNCHANGED draining
  BY Zenon DEF Merge
<1> DEFINE acc == Seen(merged)
           m == Resolve(acc.memory)
           n == Len(merged)
<1>2. IF draining = None THEN Drain(m, Queued(acc.fresh))
      ELSE Keeps(m) /\ pending' = Queued(acc.fresh) /\ UNCHANGED draining
  BY <1>1, Zenon
<1>3. merged \in Seq(Snapshot) /\ Distinct(merged)
  BY MergedTyped DEF Inv
<1>4. /\ acc \in Accounts
      /\ Through(Memory, merged, n, acc.memory)
      /\ \A e \in Episodes : running[e] # "no" => acc.memory.running[e] # "no"
      /\ \A q \in DOMAIN acc.fresh : \E p \in 1..n : acc.fresh[q] = merged[p]
  BY <1>3, MemoryOfNow, SeenThrough DEF Inv, Others
<1> HIDE DEF acc
<1>5. acc.memory \in Memories(MaxAlerts) /\ acc.fresh \in Seq(Snapshot)
  BY <1>4 DEF Accounts
<1>6. /\ m \in Memories(MaxAlerts) /\ Alike(acc.memory, m)
      /\ m.running = acc.memory.running
  BY <1>5, ResolveAlike
<1> HIDE DEF m
<1>7. Through(Memory, merged, n, m)
  BY <1>4, <1>6, ThroughAlike
<1>8. pending \in Seq(Snapshot) /\ Memory \in Memories(MaxAlerts)
  BY MemoryOfNow DEF Inv, QueueInv
<1> DEFINE waiting == Queued(acc.fresh)
<1>9. /\ waiting \in Seq(Snapshot) /\ Len(waiting) <= MaxPending
      /\ DOMAIN waiting \subseteq DOMAIN (pending \o acc.fresh)
      /\ \A i \in DOMAIN waiting : waiting[i] = (pending \o acc.fresh)[i]
  <2>1. pending \o acc.fresh \in Seq(Snapshot)
    BY <1>5, <1>8
  <2> DEFINE all == pending \o acc.fresh
  <2>2. waiting = UpTo(MaxPending, all)
    BY DEF Queued
  <2> HIDE DEF all, waiting
  <2>3. all \in Seq(Snapshot) /\ MaxPending \in Nat
    BY <2>1, Bounds DEF all
  <2>4. /\ waiting \in Seq(Snapshot) /\ Len(waiting) <= MaxPending
        /\ DOMAIN waiting \subseteq DOMAIN all
        /\ \A i \in DOMAIN waiting : waiting[i] = all[i]
    BY <2>2, <2>3, UpToFirst
  <2> QED BY <2>4 DEF all
<1> HIDE DEF waiting
<1>10. Others' /\ PollInv'
  <2>1. poll' = Idle /\ initialized' = TRUE /\ UNCHANGED <<incidents, asked, events>>
    BY DEF Merge
  <2>2. Idle \in [step : {"idle", "recent", "merge"}, active : SUBSET Snapshot,
                  recent : Seq(Snapshot)] /\ Idle.active = {} /\ Idle.recent = <<>>
    BY DEF Idle
  <2> QED BY <2>1, <2>2 DEF Inv, Others, PollInv, Distinct
<1>11. QueueInv' /\ Now' \in Memories(MaxAlerts) /\ AckHeld(Memory, Now')
  <2>1. CASE draining # None
    <3>1. Keeps(m) /\ pending' = waiting /\ draining' = draining
      BY <1>2, <2>1 DEF waiting
    <3>2. /\ Now' \in Memories(MaxAlerts) /\ running' = m.running
          /\ \A l : AckHeld(l, m) => AckHeld(l, Now')
      BY <1>6, <3>1, KeepsAll
    <3>3. draining \in Episodes /\ running[draining] # "no"
      BY <2>1 DEF Inv, QueueInv
    <3>4. QueueInv'
      BY <1>4, <1>6, <1>9, <2>1, <3>1, <3>2, <3>3 DEF QueueInv
    <3> QED BY <1>6, <1>7, <3>2, <3>4, ThroughHolds
  <2>2. CASE draining = None
    <3>1. Drain(m, waiting)
      BY <1>2, <2>2 DEF waiting
    <3>2. QueueInv' /\ Now' \in Memories(MaxAlerts)
      BY <1>6, <1>9, <3>1, DrainKeeps
    <3> HIDE DEF waiting
    <3>5. PICK o : /\ \A l : AckHeld(l, o) => AckHeld(l, Now')
                   /\ \/ o = m
                      \/ /\ waiting # <<>>
                         /\ \E r \in Memories(MaxAlerts) :
                              Remembered(m, waiting[1], r) /\ Alike(r, o)
      BY <1>6, <1>9, <3>1, DrainKeeps
    <3> USE DEF waiting
    <3>3. CASE o = m
      BY <1>7, <3>2, <3>3, <3>5, ThroughHolds
    <3>4. CASE waiting # <<>> /\ \E r \in Memories(MaxAlerts) :
                 Remembered(m, waiting[1], r) /\ Alike(r, o)
      <4>1. PICK r \in Memories(MaxAlerts) :
              Remembered(m, waiting[1], r) /\ Alike(r, o)
        BY <3>4
      <4>2. pending = <<>>
        BY <2>2 DEF Inv, QueueInv
      <4>3. 1 \in DOMAIN waiting
        BY <1>9, <3>4
      <4>4. 1 \in DOMAIN acc.fresh /\ waiting[1] = acc.fresh[1]
        <5>1. pending \o acc.fresh = acc.fresh
          BY <1>5, <4>2
        <5> QED BY <1>9, <4>3, <5>1
      <4>5. PICK p \in 1..n : waiting[1] = merged[p]
        BY <1>4, <4>4
      <4>6. Through(Memory, merged, n, r)
        <5>1. /\ n \in 0..Len(merged) /\ p \in 1..Len(merged) /\ p <= n + 1
              /\ n = IF p = n + 1 THEN p ELSE n
          BY <1>3
        <5>2. Remembered(m, merged[p], r)
          BY <4>1, <4>5
        <5> HIDE DEF n
        <5> QED BY <1>3, <1>6, <1>7, <1>8, <5>1, <5>2, ThroughNext
      <4>7. Through(Memory, merged, n, o)
        BY <4>1, <4>6, ThroughAlike
      <4> QED BY <3>2, <3>5, <4>7, ThroughHolds
    <3> QED BY <3>3, <3>4, <3>5
  <2> QED BY <2>1, <2>2
<1> QED BY <1>10, <1>11 DEF Inv

\* A step that leaves the dashboard's memory and queue alone.
LEMMA RestKeeps ==
  ASSUME Inv, UNCHANGED <<memory, queue>>
  PROVE  QueueInv' /\ Now' \in Memories(MaxAlerts) /\ AckHeld(Memory, Now')
<1>1. QueueInv'
  BY DEF Inv, QueueInv, queue, memory
<1> QED BY <1>1, MemoryStays

\* An analysis ends.
LEMMA FinishKeeps ==
  ASSUME Inv, NEW k \in Episodes, Finish(k)
  PROVE  Inv' /\ AckHeld(Memory, Now')
<1> DEFINE m == Memory
           ended == [Memory EXCEPT !.running[k] = "no"]
           i == Index(Memory, k)
           n == IF running[k] = "attached" THEN [ended EXCEPT !.alerts[i].ai = "done"]
                ELSE ended
<1>1. /\ m \in Memories(MaxAlerts) /\ m \in Fields /\ Sound(m)
      /\ m.running = running /\ running[k] # "no"
  BY MemoryOfNow DEF Inv, Memories, Memory, Finish
<1>2. IF draining = k THEN Drain(n, pending) ELSE Keeps(n) /\ UNCHANGED queue
  BY DEF Finish
<1>3. /\ n \in Memories(MaxAlerts) /\ Alike(m, n)
      /\ n.running = [running EXCEPT ![k] = "no"]
  <2> HIDE DEF m
  <2>1. CASE running[k] = "attached"
    <3>1. Known(m, k)
      BY <1>1, <2>1 DEF Sound, Attached
    <3>2. i \in DOMAIN m.alerts /\ m.alerts[i].key = k
      BY <3>1, IndexOfKnown DEF m
    <3>3. n = Marked(m, i, m.alerts[i].key, "done", "no")
      BY <1>1, <2>1, <3>2 DEF Marked, m, Fields
    <3>4. "no" \in Marks
      BY DEF Marks
    <3> HIDE DEF i, n
    <3> QED BY <1>1, <3>2, <3>3, <3>4, MarkAlike
  <2>2. CASE running[k] # "attached"
    <3>1. n = [m EXCEPT !.running[k] = "no"]
      BY <2>2 DEF m
    <3> HIDE DEF n
    <3>2. /\ n.alerts = m.alerts /\ n.told = m.told /\ n.evicted = m.evicted
          /\ n.running = [running EXCEPT ![k] = "no"]
      BY <1>1, <3>1 DEF Fields
    <3>3. n.running \in [Episodes -> Marks]
      BY <1>1, <3>2 DEF Fields, Marks
    <3>4. n \in Fields
      BY <1>1, <3>1, <3>2, <3>3 DEF Fields
    <3>5. \A e \in Episodes : n.running[e] = "attached" <=> m.running[e] = "attached"
      BY <1>1, <2>2, <3>2 DEF Fields
    <3>6. \A j \in DOMAIN m.alerts : m.alerts[j].key \in Episodes
      BY <1>1, EntryTyped
    <3>7. OneEntryEach(n) /\ Announced(n)
      BY <1>1, <3>2 DEF Sound, OneEntryEach, Announced
    <3>8. Analysed(n)
      BY <1>1, <3>2, <3>5, <3>6 DEF Sound, Analysed
    <3>9. Attached(n)
      BY <1>1, <3>2, <3>5 DEF Sound, Attached, Known
    <3>10. n \in Memories(MaxAlerts)
      BY <1>1, <3>2, <3>4, <3>7, <3>8, <3>9 DEF Memories, Sound
    <3> QED BY <3>2, <3>10 DEF Alike
  <2> QED BY <2>1, <2>2
<1> HIDE DEF n, i, ended
<1>4. Others' /\ PollInv'
  BY DEF Finish, Inv, Others, PollInv
<1>5. m \in Memories(MaxAlerts) /\ OneEntryEach(m)
  BY <1>1 DEF Sound
<1>6. \A o : Alike(m, o) => AckHeld(m, o)
  BY <1>5 DEF Alike, AckHeld, OneEntryEach
<1>7. CASE draining # k
  <2>1. Keeps(n) /\ UNCHANGED queue
    BY <1>2, <1>7
  <2>2. /\ Now' \in Memories(MaxAlerts) /\ running' = n.running
        /\ \A l : AckHeld(l, n) => AckHeld(l, Now')
    BY <1>3, <2>1, KeepsAll
  <2>3. QueueInv'
    <3>1. \A e \in Episodes : e # k => running'[e] = running[e]
      BY <1>1, <1>3, <2>2 DEF Fields
    <3> QED BY <1>7, <2>1, <3>1 DEF Inv, QueueInv, queue
  <2> QED BY <1>3, <1>4, <1>6, <2>2, <2>3 DEF Inv
<1>8. CASE draining = k
  <2>1. Drain(n, pending)
    BY <1>2, <1>8
  <2>2. pending \in Seq(Snapshot) /\ Len(pending) <= MaxPending
    BY DEF Inv, QueueInv
  <2>3. QueueInv' /\ Now' \in Memories(MaxAlerts)
    BY <1>3, <2>1, <2>2, DrainKeeps
  <2>6. PICK o : /\ \A l : AckHeld(l, o) => AckHeld(l, Now')
                 /\ \/ o = n
                    \/ /\ pending # <<>>
                       /\ \E r \in Memories(MaxAlerts) :
                            Remembered(n, pending[1], r) /\ Alike(r, o)
    BY <1>3, <2>1, <2>2, DrainKeeps
  <2>4. CASE o = n
    BY <1>3, <1>4, <1>6, <2>3, <2>4, <2>6 DEF Inv
  <2>5. CASE pending # <<>> /\ \E r \in Memories(MaxAlerts) :
               Remembered(n, pending[1], r) /\ Alike(r, o)
    <3>1. PICK r \in Memories(MaxAlerts) :
            Remembered(n, pending[1], r) /\ Alike(r, o)
      BY <2>5
    <3>2. pending[1] \in Snapshot
      BY <2>2, <2>5
    <3>3. AckHeld(n, r)
      BY <1>3, <3>1, <3>2, RememberedHolds
    <3>4. AckHeld(m, o)
      <4> HIDE DEF m
      <4> QED BY <1>3, <3>1, <3>3 DEF AckHeld, Alike
    <3> QED BY <1>4, <2>3, <2>6, <3>4 DEF Inv
  <2> QED BY <2>4, <2>5, <2>6
<1> QED BY <1>7, <1>8

\* What a user asked to have analysed is analysed.
LEMMA AnalyzeAskedKeeps ==
  ASSUME Inv, AnalyzeAsked
  PROVE  Inv' /\ AckHeld(Memory, Now')
<1> DEFINE m == Memory
<1>1. PICK again \in BOOLEAN : Keeps(Analyze(m, asked, again))
  BY DEF AnalyzeAsked
<1> DEFINE n == Analyze(m, asked, again)
<1>2. asked \in Snapshot /\ m \in Memories(MaxAlerts) /\ m.running = running
  BY MemoryOfNow DEF Inv, Others, AnalyzeAsked, Memory
<1> HIDE DEF m
<1>3. /\ n \in Memories(MaxAlerts)
      /\ \E r \in Memories(MaxAlerts) : Remembered(m, asked, r) /\ Alike(r, n)
      /\ \A e \in Episodes : m.running[e] # "no" => n.running[e] # "no"
  BY <1>2, AnalyzeRemembers
<1>4. Keeps(n)
  BY <1>1
<1> HIDE DEF n
<1>5. /\ Now' \in Memories(MaxAlerts) /\ running' = n.running
      /\ \A l : AckHeld(l, n) => AckHeld(l, Now')
  BY <1>3, <1>4, KeepsAll
<1>6. PICK r \in Memories(MaxAlerts) : Remembered(m, asked, r) /\ Alike(r, n)
  BY <1>3
<1>7. AckHeld(m, r)
  BY <1>2, <1>6, RememberedHolds
<1>8. AckHeld(m, n)
  BY <1>6, <1>7 DEF AckHeld, Alike
<1>9. QueueInv'
  BY <1>2, <1>3, <1>5, Bounds DEF AnalyzeAsked, Inv, QueueInv, queue
<1>10. Others' /\ PollInv'
  BY DEF AnalyzeAsked, Inv, Others, PollInv
<1> QED BY <1>3, <1>5, <1>8, <1>9, <1>10 DEF Inv, m

\* A user acknowledges.
LEMMA AcknowledgeKeeps ==
  ASSUME Inv, NEW k \in Episodes, Acknowledge(k)
  PROVE  Inv' /\ AckHeld(Memory, Now')
<1> DEFINE m == Memory
           i == Index(m, k)
           n == [m EXCEPT !.alerts[i].ack = TRUE]
           x == [m.alerts[i] EXCEPT !.ack = TRUE]
<1>1. /\ m \in Memories(MaxAlerts) /\ m \in Fields /\ Len(m.alerts) <= MaxAlerts
      /\ OneEntryEach(m) /\ Announced(m) /\ Analysed(m) /\ Attached(m)
      /\ m.running = running
  BY MemoryOfNow DEF Inv, Memories, Sound, Memory
<1>2. Known(m, k) /\ Keeps(n)
  BY DEF Acknowledge
<1> HIDE DEF m
<1>3. i \in DOMAIN m.alerts
  BY <1>2, IndexOfKnown
<1> HIDE DEF i
<1>4. m.alerts \in Seq(Entry) /\ m.alerts[i] \in Entry
  BY <1>1, <1>3 DEF Fields
<1>5. /\ x \in Entry /\ x.key = m.alerts[i].key /\ x.ack
      /\ x.severity = m.alerts[i].severity /\ x.ai = m.alerts[i].ai
  BY <1>4 DEF Entry
<1>6. n.alerts = [m.alerts EXCEPT ![i] = x] /\ n.told = m.told
      /\ n.running = m.running /\ n.evicted = m.evicted
  BY <1>1 DEF Fields
<1>7. [m.alerts EXCEPT ![i] = x] \in Seq(Entry)
  BY <1>3, <1>4, <1>5
<1>8. n \in Fields
  BY <1>1, <1>6, <1>7 DEF Fields
<1> HIDE DEF x, n
<1>9. /\ DOMAIN n.alerts = DOMAIN m.alerts /\ Len(n.alerts) = Len(m.alerts)
      /\ n.alerts[i] = x
      /\ \A j \in DOMAIN m.alerts : j # i => n.alerts[j] = m.alerts[j]
  BY <1>3, <1>4, <1>6, <1>7
<1>10. \A j \in DOMAIN m.alerts : /\ n.alerts[j].key = m.alerts[j].key
                                  /\ n.alerts[j].severity = m.alerts[j].severity
                                  /\ n.alerts[j].ai = m.alerts[j].ai
                                  /\ m.alerts[j].ack => n.alerts[j].ack
  BY <1>5, <1>9
<1>11. OneEntryEach(n) /\ Announced(n)
  BY <1>1, <1>6, <1>9, <1>10 DEF OneEntryEach, Announced
<1>12. Analysed(n)
  BY <1>1, <1>6, <1>9, <1>10 DEF Analysed
<1>13. Attached(n)
  BY <1>1, <1>6, <1>9, <1>10 DEF Attached, Known
<1>14. n \in Memories(MaxAlerts)
  BY <1>1, <1>8, <1>9, <1>11, <1>12, <1>13 DEF Memories, Sound
<1>15. /\ Now' \in Memories(MaxAlerts) /\ running' = n.running
       /\ \A l : AckHeld(l, n) => AckHeld(l, Now')
  BY <1>2, <1>14, KeepsAll
<1>16. AckHeld(m, n)
  BY <1>1, <1>9, <1>10 DEF AckHeld, OneEntryEach
<1>17. QueueInv'
  BY <1>1, <1>6, <1>15 DEF Acknowledge, Inv, QueueInv, queue
<1>18. Others' /\ PollInv'
  BY DEF Acknowledge, Inv, Others, PollInv
<1> QED BY <1>14, <1>15, <1>16, <1>17, <1>18 DEF Inv, m

\* Nothing has been heard of the Manager.
LEMMA InitInv == Init => Inv
<1> SUFFICES ASSUME Init PROVE Inv
  OBVIOUS
<1>1. PollInv
  BY DEF Init, Idle, PollInv, Distinct
<1>2. QueueInv
  BY Bounds DEF Init, QueueInv
<1>3. Others
  <2>1. [severity |-> 0, active |-> FALSE] \in [severity : 0..MaxSeverity, active : BOOLEAN]
    BY Bounds
  <2>2. incidents \in [Episodes -> [severity : 0..MaxSeverity, active : BOOLEAN]]
    BY <2>1 DEF Init
  <2>3. events = 0 /\ initialized = FALSE /\ asked = None
    BY DEF Init
  <2>4. events \in 0..MaxEvents
    BY <2>3, Bounds
  <2> QED BY <2>2, <2>3, <2>4 DEF Others
<1>4. Now \in Memories(MaxAlerts)
  <2>1. Now = [alerts |-> <<>>, running |-> [e \in Episodes |-> "no"],
               told |-> [e \in Episodes |-> 0], evicted |-> {}]
    BY DEF Init, Now
  <2>2. Now \in Fields
    BY <2>1, Bounds DEF Fields, Marks
  <2>3. Sound(Now) /\ Len(Now.alerts) <= MaxAlerts
    BY <2>1, Bounds DEF Sound, OneEntryEach, Announced, Analysed, Attached
  <2> QED BY <2>2, <2>3 DEF Memories
<1> QED BY <1>1, <1>2, <1>3, <1>4 DEF Inv

\* An action of the bound on events.
LEMMA EventTyped == Others /\ (Event \/ UNCHANGED events) => events' \in 0..MaxEvents
BY Bounds DEF Others, Event

\* Every step keeps the invariant and the acknowledgements.
LEMMA Step == Inv /\ [Next]_vars => Inv' /\ AckHeld(Memory, Now')
<1> SUFFICES ASSUME Inv, [Next]_vars PROVE Inv' /\ AckHeld(Memory, Now')
  OBVIOUS
<1>1. CASE GetActiveDiagnosis
  <2>1. UNCHANGED <<incidents, memory, queue, initialized, asked>>
    BY <1>1 DEF GetActiveDiagnosis
  <2>2. events' \in 0..MaxEvents
    BY <1>1, EventTyped DEF GetActiveDiagnosis, Inv
  <2>3. poll' = [Idle EXCEPT !.step = "recent", !.active = ActiveOnes]
        \/ poll' = [Idle EXCEPT !.step = "recent"]
    BY <1>1 DEF GetActiveDiagnosis
  <2>4. PollInv'
    <3>1. ActiveOnes \subseteq Snapshot /\ \A s, t \in ActiveOnes : s.key = t.key => s = t
      BY ActiveTyped DEF Inv
    <3> DEFINE heard(S) == [step |-> "recent", active |-> S, recent |-> <<>>]
    <3>2. poll' = heard(ActiveOnes) \/ poll' = heard({})
      BY <2>3 DEF Idle
    <3>3. ASSUME NEW S \in SUBSET Snapshot, \A s, t \in S : s.key = t.key => s = t,
                 poll' = heard(S)
          PROVE  PollInv'
      BY <3>3 DEF PollInv, Distinct
    <3> HIDE DEF heard
    <3>4. CASE poll' = heard(ActiveOnes)
      BY <3>1, <3>3, <3>4
    <3>5. CASE poll' = heard({})
      BY <3>3, <3>5
    <3> QED BY <3>2, <3>4, <3>5
  <2>5. Others'
    BY <2>1, <2>2 DEF Inv, Others
  <2> QED BY <2>1, <2>4, <2>5, RestKeeps DEF Inv
<1>2. CASE GetIncidents
  <2>1. PICK recent \in RecentOnes \cup {<<>>} :
          poll' = [poll EXCEPT !.step = "merge", !.recent = recent]
    BY <1>2 DEF GetIncidents
  <2>2. UNCHANGED <<incidents, memory, queue, initialized, asked, events>>
    BY <1>2 DEF GetIncidents
  <2>3. recent \in Seq(Snapshot) /\ Distinct(recent)
    <3>1. CASE recent = <<>>
      BY <3>1 DEF Distinct
    <3>2. CASE recent \in RecentOnes
      BY <3>2, RecentTyped DEF Inv
    <3> QED BY <3>1, <3>2
  <2>4. PollInv'
    BY <2>1, <2>3 DEF Inv, PollInv
  <2>5. Others'
    BY <2>2 DEF Inv, Others
  <2> QED BY <2>2, <2>4, <2>5, RestKeeps DEF Inv
<1>3. CASE Merge
  BY <1>3, MergeKeeps
<1>4. CASE AnalyzeAsked
  BY <1>4, AnalyzeAskedKeeps
<1>5. ASSUME NEW e \in Episodes, Finish(e) PROVE Inv' /\ AckHeld(Memory, Now')
  BY <1>5, FinishKeeps
<1>6. ASSUME NEW e \in Episodes, Ask(e) PROVE Inv' /\ AckHeld(Memory, Now')
  <2>1. UNCHANGED <<incidents, memory, queue, initialized, poll>>
    BY <1>6 DEF Ask
  <2>2. asked' \in Snapshot
    <3>1. e \in Started /\ asked' = SnapshotOf(e)
      BY <1>6 DEF Ask
    <3> QED BY <3>1, SnapshotTyped DEF Inv
  <2>3. events' \in 0..MaxEvents
    BY <1>6, EventTyped DEF Ask, Inv
  <2>4. Others' /\ PollInv'
    BY <2>1, <2>2, <2>3 DEF Inv, Others, PollInv
  <2> QED BY <2>1, <2>4, RestKeeps DEF Inv
<1>7. ASSUME NEW e \in Episodes, Acknowledge(e) PROVE Inv' /\ AckHeld(Memory, Now')
  BY <1>7, AcknowledgeKeeps
<1>8. ASSUME Manages, incidents' \in [Episodes -> [severity : 0..MaxSeverity, active : BOOLEAN]],
             Event \/ UNCHANGED events
      PROVE  Inv' /\ AckHeld(Memory, Now')
  <2>1. UNCHANGED <<memory, queue, initialized, poll, asked>>
    BY <1>8 DEF Manages
  <2>2. events' \in 0..MaxEvents
    BY <1>8, EventTyped DEF Inv
  <2>3. Others' /\ PollInv'
    BY <1>8, <2>1, <2>2 DEF Inv, Others, PollInv
  <2> QED BY <2>1, <2>3, RestKeeps DEF Inv
<1>9. incidents \in [Episodes -> [severity : 0..MaxSeverity, active : BOOLEAN]]
      /\ Severity \subseteq 0..MaxSeverity
  BY Bounds DEF Inv, Others, Severity
<1>10. ASSUME NEW e \in Episodes, Start(e) PROVE Inv' /\ AckHeld(Memory, Now')
  <2>1. PICK s \in Severity :
          incidents' = [incidents EXCEPT ![e] = [severity |-> s, active |-> TRUE]]
    BY <1>10 DEF Start
  <2> QED BY <1>8, <1>9, <1>10, <2>1 DEF Start
<1>11. ASSUME NEW e \in Episodes, Rate(e) PROVE Inv' /\ AckHeld(Memory, Now')
  <2>1. PICK s \in Severity : incidents' = [incidents EXCEPT ![e].severity = s]
    BY <1>11 DEF Rate
  <2> QED BY <1>8, <1>9, <1>11, <2>1 DEF Rate
<1>12. ASSUME NEW e \in Episodes, Close(e) PROVE Inv' /\ AckHeld(Memory, Now')
  BY <1>8, <1>9, <1>12 DEF Close
<1>13. CASE UNCHANGED vars
  <2>1. UNCHANGED <<incidents, memory, queue, initialized, poll, asked, events>>
    BY <1>13 DEF vars
  <2>2. Others' /\ PollInv'
    BY <2>1 DEF Inv, Others, PollInv
  <2> QED BY <2>1, <2>2, RestKeeps DEF Inv
<1> QED BY <1>1, <1>2, <1>3, <1>4, <1>5, <1>6, <1>7, <1>10, <1>11, <1>12, <1>13
        DEF Next, Poll

\* The invariant says of the memory what the run's invariants say of alerts.
LEMMA InvSays == Inv => TypeOK /\ SeverityAnnounced /\ AnalysesAlive
<1> SUFFICES ASSUME Inv PROVE TypeOK /\ SeverityAnnounced /\ AnalysesAlive
  OBVIOUS
<1>1. /\ Now.alerts = alerts /\ Now.running = running
      /\ Now.told = told /\ Now.evicted = renewed
  BY DEF Now
<1>2. /\ Now \in Fields /\ Len(Now.alerts) <= MaxAlerts
      /\ OneEntryEach(Now) /\ Announced(Now) /\ Analysed(Now)
  BY DEF Inv, Memories, Sound
<1>3. /\ alerts \in Seq(Entry) /\ running \in [Episodes -> Marks]
      /\ told \in [Episodes -> 0..MaxSeverity] /\ renewed \subseteq Episodes
  BY <1>1, <1>2 DEF Fields
<1>4. TypeOK
  BY <1>1, <1>2, <1>3 DEF Inv, TypeOK, Others, PollInv, QueueInv, OneEntryEach, Marks
<1>5. SeverityAnnounced
  BY <1>1, <1>2 DEF SeverityAnnounced, Announced
<1>6. AnalysesAlive
  BY <1>1, <1>2 DEF AnalysesAlive, Analysed, Inv, QueueInv
<1> QED BY <1>4, <1>5, <1>6

\* Every behaviour satisfies the invariant.
LEMMA Always == Spec => []Inv
BY InitInv, Step, PTL DEF Spec

\* Whatever the Manager reports, and whatever is evicted, dropped or analysed
\* late, the Map and the queue stay within their bounds and a key has one entry.
THEOREM AlertsBounded == Spec => []TypeOK
BY Always, InvSays, PTL

\* No entry ever shows a severity that nobody was told of.
THEOREM NothingWorseInSilence == Spec => []SeverityAnnounced
BY Always, InvSays, PTL

\* What waits is worked on, drain awaits an analysis that runs, and an entry says
\* that it is being analysed exactly while it is.
THEOREM AnalysesKeptAlive == Spec => []AnalysesAlive
BY Always, InvSays, PTL

\* An acknowledgement stands until the severity shown rises, unless the episode is
\* pushed out and taken for new within one step.
THEOREM AcknowledgementsStand == Spec => AckStands
<1>1. AckHeld(Memory, Now') =>
        (\A i \in DOMAIN alerts, j \in DOMAIN alerts' :
           /\ alerts[i].key = alerts'[j].key
           /\ alerts[i].ack /\ ~alerts'[j].ack
           => \/ alerts'[j].severity > alerts[i].severity
              \/ alerts[i].key \in renewed')
  BY DEF AckHeld, Memory, Now
<1>2. Inv /\ [Next]_vars =>
        [\A i \in DOMAIN alerts, j \in DOMAIN alerts' :
           /\ alerts[i].key = alerts'[j].key
           /\ alerts[i].ack /\ ~alerts'[j].ack
           => \/ alerts'[j].severity > alerts[i].severity
              \/ alerts[i].key \in renewed']_vars
  BY Step, <1>1
<1> QED BY <1>2, Always, PTL DEF Spec, AckStands
=============================================================================
