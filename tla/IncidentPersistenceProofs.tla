---------------------- MODULE IncidentPersistenceProofs ----------------------
(***************************************************************************)
(* Proofs about IncidentPersistence and its readers for any hosts, bounds  *)
(* and capacities.                                                         *)
(*                                                                         *)
(* The inductive invariant follows an observation on its way from known,   *)
(* the last one of each start, through handing, queue and saver to rows:   *)
(* what is nearer to the row is not newer (PipeInv, RowsInv), the newest   *)
(* task of a start is its last observation unless that one was dropped     *)
(* (NewestInv), and what has arrived is durable or pending (FlagInv).      *)
(***************************************************************************)
EXTENDS IncidentReaders, TLAPS

\* a may be overwritten by b: of incidents and rows of one start.
NotNewer(a, b) == a.rev <= b.rev /\ (~a.active => ~b.active)

\* Ids and starts are given to one incident of a run, starts also of all runs.
IdsInv ==
  /\ nextId <= opened + 1
  /\ \A s \in Starts : known[s] # None =>
       known[s].start = s /\ known[s].id < nextId /\ s <= opened
  /\ \A s, t \in Starts :
       known[s] # None /\ known[t] # None /\ known[s].id = known[t].id => s = t
  /\ \A s \in Starts : rows[s] # None => s <= opened

\* The store holds last observations.
StoreInv ==
  /\ \A h \in Hosts : active[h] # None =>
       active[h].active /\ active[h].host = h /\ known[active[h].start] = active[h]
  /\ \A i \in DOMAIN history :
       ~history[i].active /\ known[history[i].start] = history[i]
  /\ \A i, j \in DOMAIN history : history[i].start = history[j].start => i = j

\* A task x under way is of an incident of this run and not newer than known.
Carries(x) ==
  /\ known[x.start] # None
  /\ x.id = known[x.start].id
  /\ x.host = known[x.start].host
  /\ NotNewer(x, known[x.start])

PipeInv ==
  /\ \A h \in Hosts : handing[h] # None =>
       handing[h].host = h /\ known[handing[h].start] = handing[h]
  /\ \A i \in DOMAIN queue : Carries(queue[i])
  /\ \A i, j \in DOMAIN queue :
       i < j /\ queue[i].start = queue[j].start => NotNewer(queue[i], queue[j])
  /\ saver # None => Carries(saver.incident)
  /\ saver # None => \A i \in DOMAIN queue :
       queue[i].start = saver.incident.start => NotNewer(saver.incident, queue[i])

RowsInv ==
  \A s \in Starts : rows[s] # None =>
    /\ known[s] # None => NotNewer(rows[s], known[s])
    /\ \A i \in DOMAIN queue : queue[i].start = s => NotNewer(rows[s], queue[i])
    /\ saver # None /\ saver.incident.start = s => NotNewer(rows[s], saver.incident)

Handed(s) == \E h \in Hosts : handing[h] # None /\ handing[h].start = s

NewestInv ==
  \A s \in Starts : s \notin dropped /\ ~Handed(s) =>
    /\ \A i \in DOMAIN queue :
         queue[i].start = s /\ (\A j \in DOMAIN queue : i < j => queue[j].start # s)
           => queue[i] = known[s]
    /\ /\ saver # None /\ saver.incident.start = s
       /\ \A j \in DOMAIN queue : queue[j].start # s
       => saver.incident = known[s]

SavedInv ==
  saver # None /\ saver.step = "saved" =>
    rows[saver.incident.start] = RowOf(saver.incident)

FlagInv ==
  initialized => \A s \in Starts :
    known[s] # None /\ ~OnItsWay(s) /\ s \notin dropped =>
      Durable(s) \/ known[s].id \in pending

Inv == /\ TypeOK
       /\ IdsInv /\ StoreInv /\ PipeInv /\ RowsInv
       /\ NewestInv /\ SavedInv /\ FlagInv

-----------------------------------------------------------------------------
\* An operator of the model on None-able values: what is not None is typed.
LEMMA Typed ==
  ASSUME TypeOK
  PROVE  /\ \A h \in Hosts : active[h] # None => active[h] \in Incident
         /\ \A h \in Hosts : handing[h] # None => handing[h] \in Incident
         /\ \A i \in DOMAIN queue : queue[i] \in Incident
         /\ \A i \in DOMAIN history : history[i] \in Incident
         /\ saver # None => saver \in Saving /\ saver.incident \in Incident
         /\ \A s \in Starts : known[s] # None => known[s] \in Incident
         /\ \A s \in Starts : rows[s] # None => rows[s] \in Row
BY DEF TypeOK, Saving

\* A Manager that has just started holds nothing.
LEMMA InitInv == Init => Inv
<1> SUFFICES ASSUME Init PROVE Inv
  OBVIOUS
<1> USE IncidentAssumption DEF Init, Nobody
<1>1. TypeOK
  <2>1. /\ history \in Seq(Incident) /\ Len(history) <= MaxHistory
        /\ queue \in Seq(Incident) /\ Len(queue) <= QueueCapacity
    OBVIOUS
  <2>2. nextId \in 1..(MaxIncidents + 1) /\ opened \in 0..MaxIncidents
        /\ crashes \in 0..MaxCrashes
    OBVIOUS
  <2>3. /\ active \in [Hosts -> Incident \cup {None}]
        /\ handing \in [Hosts -> Incident \cup {None}]
        /\ rows \in [Starts -> Row \cup {None}]
        /\ known \in [Starts -> Incident \cup {None}]
    OBVIOUS
  <2> QED BY <2>1, <2>2, <2>3, Zenon DEF TypeOK
<1>2. IdsInv /\ StoreInv /\ PipeInv /\ RowsInv
  BY DEF IdsInv, StoreInv, PipeInv, RowsInv
<1>3. NewestInv /\ SavedInv /\ FlagInv
  BY DEF NewestInv, SavedInv, FlagInv
<1> QED BY <1>1, <1>2, <1>3 DEF Inv

-----------------------------------------------------------------------------
(* Observe *)

\* What an observation hands over continues its incident or starts a new one.
Observed(h, x) ==
  /\ x \in Incident /\ x.host = h
  /\ handing' = [handing EXCEPT ![h] = x]
  /\ known' = [known EXCEPT ![x.start] = x]
  /\ IF known[x.start] = None
       THEN /\ x.start = opened + 1 /\ opened' = opened + 1
            /\ x.id = nextId /\ nextId' = nextId + 1
       ELSE /\ known[x.start].host = h /\ known[x.start].active
            /\ x.id = known[x.start].id /\ NotNewer(known[x.start], x)
            /\ UNCHANGED <<opened, nextId>>

\* An anomalous sample of a host without incident opens one (IncidentStore::Observe).
LEMMA OpenObserves ==
  ASSUME Inv, NEW h \in Hosts, Open(h)
  PROVE  \E x \in Incident :
           /\ Observed(h, x) /\ x.active /\ known[x.start] = None
           /\ active' = [active EXCEPT ![h] = x] /\ history' = history
<1> DEFINE x == [id |-> nextId, host |-> h, start |-> opened + 1, rev |-> 1,
                 active |-> TRUE]
<1>1. opened + 1 \in Starts /\ nextId \in Starts
  BY IncidentAssumption DEF Inv, TypeOK, IdsInv, Starts, Open
<1>2. x \in Incident
  BY <1>1, IncidentAssumption DEF Incident
<1>3. known[opened + 1] = None
  BY <1>1 DEF Inv, TypeOK, IdsInv
<1>4. /\ active' = [active EXCEPT ![h] = x] /\ history' = history
      /\ handing' = [handing EXCEPT ![h] = x]
      /\ known' = [known EXCEPT ![opened + 1] = x]
      /\ nextId' = nextId + 1 /\ opened' = opened + 1
  BY DEF Open, Hands
<1> QED BY <1>2, <1>3, <1>4 DEF Observed

\* An anomalous sample of a host with an incident updates it.
LEMMA ContinueObserves ==
  ASSUME Inv, NEW h \in Hosts, Continue(h)
  PROVE  \E x \in Incident :
           /\ Observed(h, x) /\ x.active /\ known[x.start] # None
           /\ active[h] # None /\ x.start = active[h].start
           /\ active' = [active EXCEPT ![h] = x] /\ history' = history
<1> DEFINE a == active[h]
           n == IF a.rev < MaxRev THEN a.rev + 1 ELSE a.rev
           x == [a EXCEPT !.rev = n]
<1>1. a # None /\ a \in Incident
  BY DEF Inv, TypeOK, Continue
<1>2. /\ a.active /\ a.host = h /\ known[a.start] = a
  BY <1>1 DEF Inv, StoreInv
<1>3. x \in Incident /\ x.start = a.start /\ x.id = a.id /\ x.host = h /\ x.active
      /\ x.rev >= a.rev /\ a.rev \in Nat /\ x.rev \in Nat
  BY <1>1, <1>2, IncidentAssumption DEF Incident
<1>4. NotNewer(known[x.start], x)
  BY <1>1, <1>2, <1>3 DEF NotNewer
<1>5. /\ active' = [active EXCEPT ![h] = x] /\ history' = history
      /\ handing' = [handing EXCEPT ![h] = x]
      /\ known' = [known EXCEPT ![x.start] = x]
      /\ UNCHANGED <<nextId, opened>>
  BY <1>3 DEF Continue, Hands
<1> QED BY <1>1, <1>2, <1>3, <1>4, <1>5 DEF Observed

\* A recovered sample ends the host's incident.
LEMMA RecoverObserves ==
  ASSUME Inv, NEW h \in Hosts, Recover(h)
  PROVE  \E x \in Incident :
           /\ Observed(h, x) /\ ~x.active /\ known[x.start] # None
           /\ active[h] # None /\ x.start = active[h].start
           /\ active' = [active EXCEPT ![h] = None] /\ AddHistory(x)
<1> DEFINE a == active[h]
           x == [a EXCEPT !.active = FALSE]
<1>1. a # None /\ a \in Incident
  BY DEF Inv, TypeOK, Recover
<1>2. /\ a.active /\ a.host = h /\ known[a.start] = a
  BY <1>1 DEF Inv, StoreInv
<1>3. x \in Incident /\ x.start = a.start /\ x.id = a.id /\ x.host = h
      /\ x.active = FALSE /\ x.rev = a.rev /\ a.rev \in Nat
  <2>1. x \in Incident
    BY <1>1, Zenon DEF Incident
  <2>2. /\ x.start = a.start /\ x.id = a.id /\ x.host = a.host
        /\ x.active = FALSE /\ x.rev = a.rev
    BY <1>1 DEF Incident
  <2>3. a.rev \in Nat
    BY <1>1, IncidentAssumption DEF Incident
  <2> QED BY <1>2, <2>1, <2>2, <2>3
<1>4. NotNewer(known[x.start], x)
  BY <1>1, <1>2, <1>3 DEF NotNewer
<1>5. /\ active' = [active EXCEPT ![h] = None] /\ AddHistory(x)
      /\ handing' = [handing EXCEPT ![h] = x]
      /\ known' = [known EXCEPT ![x.start] = x]
      /\ UNCHANGED <<nextId, opened>>
  BY <1>3 DEF Recover, Hands
<1> QED BY <1>1, <1>2, <1>3, <1>4, <1>5 DEF Observed

\* What may be overwritten may be overwritten by what comes later still.
LEMMA NotNewerTransitive ==
  ASSUME NEW a, NEW b, NEW c, a.rev \in Int, b.rev \in Int, c.rev \in Int,
         NotNewer(a, b), NotNewer(b, c)
  PROVE  NotNewer(a, c)
BY DEF NotNewer

\* Revisions are numbers, and a row has that of its incident.
LEMMA Revisions ==
  /\ \A x \in Incident : /\ x.rev \in Int /\ x.start \in Starts /\ x.host \in Hosts
                           /\ x.id \in Starts /\ x.active \in BOOLEAN
  /\ \A x \in Row : x.rev \in Int /\ x.active \in BOOLEAN
BY IncidentAssumption DEF Incident, Row

\* An observation keeps the types, and the history its length (AddHistory).
LEMMA ObserveTypeOK ==
  ASSUME Inv, NEW h \in Hosts, NEW x \in Incident, Observed(h, x),
         \/ active' = [active EXCEPT ![h] = x] /\ history' = history
         \/ active' = [active EXCEPT ![h] = None] /\ AddHistory(x),
         UNCHANGED <<queue, saver, rows, flag, crashes, healthy, dropped>>
  PROVE  TypeOK'
<1> USE DEF Inv
<1>1. TypeOK /\ x.start \in Starts /\ x.id \in Starts
  BY Revisions
<1>2. /\ active' \in [Hosts -> Incident \cup {None}]
      /\ handing' \in [Hosts -> Incident \cup {None}]
      /\ known' \in [Starts -> Incident \cup {None}]
  BY <1>1 DEF TypeOK, Observed
<1>3. history' \in Seq(Incident) /\ Len(history') <= MaxHistory
  <2>1. CASE history' = history
    BY <1>1, <2>1 DEF TypeOK
  <2>2. CASE AddHistory(x)
    <3>1. /\ Append(history, x) \in Seq(Incident)
          /\ Len(Append(history, x)) = Len(history) + 1
      BY <1>1 DEF TypeOK
    <3> QED BY <1>1, <2>2, <3>1, IncidentAssumption DEF AddHistory, TypeOK
  <2> QED BY <2>1, <2>2
<1>4. nextId' \in 1..(MaxIncidents + 1) /\ opened' \in 0..MaxIncidents
  BY <1>1, IncidentAssumption DEF TypeOK, Observed, Starts
<1>5. /\ queue' \in Seq(Incident) /\ Len(queue') <= QueueCapacity
      /\ saver' \in Saving \cup {None}
      /\ rows' \in [Starts -> Row \cup {None}]
      /\ initialized' \in BOOLEAN /\ pending' \subseteq Starts
      /\ crashes' \in 0..MaxCrashes /\ healthy' \in BOOLEAN
      /\ dropped' \subseteq Starts
  BY <1>1, Zenon DEF TypeOK, flag
<1> QED BY <1>2, <1>3, <1>4, <1>5, Zenon DEF TypeOK

\* A task that an observation meets on its way is not newer than it.
LEMMA ObservedNewest ==
  ASSUME Inv, NEW h \in Hosts, NEW x \in Incident, Observed(h, x), handing[h] = None,
         UNCHANGED <<queue, saver, rows, flag, dropped>>
  PROVE  /\ \A s \in Starts : known'[s] = IF s = x.start THEN x ELSE known[s]
         /\ x # None /\ handing'[h] = x
         /\ \A g \in Hosts \ {h} : handing'[g] = handing[g]
         /\ \A y \in Incident : Carries(y) =>
              /\ known'[y.start] # None /\ y.id = known'[y.start].id
              /\ y.host = known'[y.start].host
              /\ NotNewer(y, known'[y.start])
<1>1. /\ x # None /\ handing'[h] = x
      /\ \A s \in Starts : known'[s] = IF s = x.start THEN x ELSE known[s]
      /\ \A g \in Hosts \ {h} : handing'[g] = handing[g]
  BY NoneAssumption, Revisions DEF Observed, Inv, TypeOK
<1>2. ASSUME NEW y \in Incident, Carries(y) 
      PROVE  /\ known'[y.start] # None /\ y.id = known'[y.start].id
             /\ y.host = known'[y.start].host
             /\ NotNewer(y, known'[y.start])
  <2>1. y.start \in Starts
    BY Revisions
  <2>2. CASE y.start # x.start
    BY <1>1, <1>2, <2>1, <2>2 DEF Carries
  <2>3. CASE y.start = x.start
    <3>1. /\ known[x.start] # None /\ known[x.start] \in Incident
          /\ y.id = known[x.start].id /\ y.host = known[x.start].host
          /\ NotNewer(y, known[x.start])
      BY <1>2, <2>1, <2>3, Typed DEF Carries, Inv
    <3>2. /\ x.id = known[x.start].id /\ x.host = known[x.start].host
          /\ NotNewer(known[x.start], x)
      BY <3>1 DEF Observed
    <3>3. NotNewer(y, x)
      BY <3>1, <3>2, NotNewerTransitive, Revisions
    <3>4. known'[y.start] = x
      BY <1>1, <2>1, <2>3
    <3> QED BY <1>1, <3>1, <3>2, <3>3, <3>4
  <2> QED BY <2>2, <2>3
<1> QED BY <1>1, <1>2

\* A new incident gets an id and a start that nobody has.
LEMMA ObserveIdsInv ==
  ASSUME Inv, NEW h \in Hosts, NEW x \in Incident, Observed(h, x), handing[h] = None,
         UNCHANGED <<queue, saver, rows, flag, dropped>>
  PROVE  IdsInv'
<1>1. /\ \A s \in Starts : known'[s] = IF s = x.start THEN x ELSE known[s]
      /\ x.start \in Starts /\ x # None
  BY ObservedNewest, Revisions
<1>2. /\ nextId \in Nat /\ opened \in Nat /\ IdsInv /\ rows' = rows
      /\ \A s \in Starts : known[s] # None => known[s].id \in Nat /\ s \in Nat
  BY Typed, IncidentAssumption DEF Inv, TypeOK, Incident, Starts
<1>3. CASE known[x.start] = None
  <2>1. /\ x.start = opened + 1 /\ opened' = opened + 1
        /\ x.id = nextId /\ nextId' = nextId + 1
    BY <1>3 DEF Observed
  <2>2. \A s \in Starts : known[s] # None => known[s].id < nextId
    BY <1>2 DEF IdsInv
  <2>3. \A s, t \in Starts :
          known'[s] # None /\ known'[t] # None /\ known'[s].id = known'[t].id => s = t
    BY <1>1, <1>2, <2>1, <2>2 DEF IdsInv
  <2>4. \A s \in Starts : known'[s] # None =>
          known'[s].start = s /\ known'[s].id < nextId' /\ s <= opened'
    BY <1>1, <1>2, <2>1 DEF IdsInv
  <2>5. nextId' <= opened' + 1 /\ \A s \in Starts : rows'[s] # None => s <= opened'
    BY <1>2, <2>1 DEF IdsInv, Starts
  <2> QED BY <2>3, <2>4, <2>5 DEF IdsInv
<1>4. CASE known[x.start] # None
  <2>1. /\ x.id = known[x.start].id /\ opened' = opened /\ nextId' = nextId
    BY <1>4 DEF Observed
  <2> QED BY <1>1, <1>2, <1>4, <2>1 DEF IdsInv
<1> QED BY <1>3, <1>4

\* In a start that the observation is not of, nothing changes.
LEMMA ObservePipeInv ==
  ASSUME Inv, NEW h \in Hosts, NEW x \in Incident, Observed(h, x), handing[h] = None,
         UNCHANGED <<queue, saver, rows, flag, dropped>>
  PROVE  PipeInv' /\ RowsInv'
<1>1. /\ \A s \in Starts : known'[s] = IF s = x.start THEN x ELSE known[s]
      /\ x # None /\ handing'[h] = x
      /\ \A g \in Hosts \ {h} : handing'[g] = handing[g]
      /\ \A y \in Incident : Carries(y) =>
           /\ known'[y.start] # None /\ y.id = known'[y.start].id
           /\ y.host = known'[y.start].host
           /\ NotNewer(y, known'[y.start])
  BY ObservedNewest
<1>2. /\ PipeInv /\ RowsInv /\ queue' = queue /\ saver' = saver /\ rows' = rows
      /\ x.start \in Starts /\ x.host = h
  BY Revisions DEF Inv, Observed
<1>3. ASSUME NEW g \in Hosts, handing'[g] # None
      PROVE  handing'[g].host = g /\ known'[handing'[g].start] = handing'[g]
  <2>1. CASE g = h
    BY <1>1, <1>2, <2>1
  <2>2. CASE g # h
    <3>1. /\ handing'[g] = handing[g] /\ handing[g] \in Incident
          /\ handing[g].host = g /\ known[handing[g].start] = handing[g]
      BY <1>1, <1>2, <1>3, <2>2, Typed DEF PipeInv, Inv
    <3>2. handing[g].start # x.start
      BY <1>2, <2>2, <3>1, NoneAssumption DEF Observed
    <3> QED BY <1>1, <3>1, <3>2, Revisions
  <2> QED BY <2>1, <2>2
<1>4. /\ \A i \in DOMAIN queue' : Carries(queue[i])'
      /\ saver' # None => Carries(saver.incident)'
  <2>1. /\ \A i \in DOMAIN queue : queue[i] \in Incident
        /\ saver # None => saver.incident \in Incident
    BY Typed DEF Inv
  <2> QED BY <1>1, <1>2, <2>1 DEF PipeInv, Carries, NotNewer
<1>5. PipeInv'
  BY <1>2, <1>3, <1>4 DEF PipeInv, NotNewer
<1>6. ASSUME NEW s \in Starts, rows[s] # None, known'[s] # None
      PROVE  NotNewer(rows[s], known'[s])
  <2>1. CASE s # x.start
    BY <1>1, <1>2, <1>6, <2>1 DEF RowsInv
  <2>2. CASE s = x.start
    <3>1. s <= opened /\ opened \in Nat /\ s \in Nat /\ rows[s] \in Row
      BY <1>6, Typed, IncidentAssumption DEF Inv, IdsInv, TypeOK, Starts
    <3>2. known[s] # None /\ known[s] \in Incident /\ NotNewer(known[s], x)
      BY <2>2, <3>1, Typed DEF Observed, Inv
    <3>3. NotNewer(rows[s], known[s])
      BY <1>2, <1>6, <3>2 DEF RowsInv
    <3>4. NotNewer(rows[s], x)
      BY <3>1, <3>2, <3>3, Revisions, NotNewerTransitive
    <3> QED BY <1>1, <2>2, <3>4
  <2> QED BY <2>1, <2>2
<1>7. RowsInv'
  BY <1>2, <1>6 DEF RowsInv, NotNewer
<1> QED BY <1>5, <1>7

\* What was known is older than what is handed over now.
LEMMA ObserveNewestInv ==
  ASSUME Inv, NEW h \in Hosts, NEW x \in Incident, Observed(h, x), handing[h] = None,
         UNCHANGED <<queue, saver, rows, flag, dropped>>
  PROVE  NewestInv' /\ SavedInv' /\ FlagInv'
<1>1. /\ \A s \in Starts : known'[s] = IF s = x.start THEN x ELSE known[s]
      /\ x # None /\ handing'[h] = x
      /\ \A g \in Hosts \ {h} : handing'[g] = handing[g]
  BY ObservedNewest
<1>2. /\ NewestInv /\ SavedInv /\ FlagInv
      /\ UNCHANGED <<queue, saver, rows, initialized, pending, dropped>>
      /\ x.start \in Starts
  BY Revisions DEF Inv, flag
<1>3. /\ \A s \in Starts : Handed(s) => Handed(s)'
      /\ Handed(x.start)'
      /\ \A s \in Starts : OnItsWay(s) => OnItsWay(s)'
      /\ OnItsWay(x.start)'
  BY <1>1, <1>2 DEF Handed, OnItsWay
<1>4. NewestInv'
  <2>1. ASSUME NEW s \in Starts, s \notin dropped, ~Handed(s)'
        PROVE  s # x.start /\ ~Handed(s) /\ known'[s] = known[s]
    BY <1>1, <1>3, <2>1
  <2> QED BY <1>2, <2>1 DEF NewestInv
<1>5. SavedInv'
  BY <1>2 DEF SavedInv, RowOf
<1>6. FlagInv'
  <2>1. ASSUME NEW s \in Starts, ~OnItsWay(s)'
        PROVE  s # x.start /\ ~OnItsWay(s) /\ known'[s] = known[s]
    BY <1>1, <1>3, <2>1
  <2> QED BY <1>2, <2>1 DEF FlagInv, Durable, RowOf
<1> QED BY <1>4, <1>5, <1>6

\* What Tail leaves, and where.
LEMMA TailPlaces ==
  ASSUME NEW S, NEW q \in Seq(S), q # <<>>
  PROVE  /\ Tail(q) \in Seq(S) /\ Len(Tail(q)) = Len(q) - 1
         /\ Len(q) \in Nat \ {0} /\ DOMAIN q = 1..Len(q)
         /\ DOMAIN Tail(q) = 1..(Len(q) - 1)
         /\ \A i \in 1..(Len(q) - 1) : i + 1 \in 1..Len(q) /\ Tail(q)[i] = q[i + 1]
OBVIOUS

\* Where the elements of a history of at most MaxHistory go.
LEMMA AddHistoryPlaces ==
  ASSUME TypeOK, NEW x \in Incident, AddHistory(x)
  PROVE  /\ \A i \in DOMAIN history' :
              history'[i] = x \/ \E j \in DOMAIN history : history'[i] = history[j]
         /\ (\A j \in DOMAIN history : history[j].start # x.start)
            /\ (\A i, j \in DOMAIN history : history[i].start = history[j].start => i = j)
            => \A i, j \in DOMAIN history' : history'[i].start = history'[j].start => i = j
<1> DEFINE a == Append(history, x)
<1>1. /\ a \in Seq(Incident) /\ Len(a) = Len(history) + 1 /\ a[Len(a)] = x
      /\ \A j \in 1..Len(history) : a[j] = history[j]
      /\ DOMAIN history = 1..Len(history) /\ Len(history) \in Nat
  BY DEF TypeOK
<1>2. /\ \A i \in 1..Len(a) : a[i] = x \/ \E j \in DOMAIN history : a[i] = history[j]
      /\ (\A j \in DOMAIN history : history[j].start # x.start)
         /\ (\A i, j \in DOMAIN history : history[i].start = history[j].start => i = j)
         => \A i, j \in 1..Len(a) : a[i].start = a[j].start => i = j
  BY <1>1
<1>3. \/ history' = a
      \/ /\ Len(history') = Len(a) - 1 /\ DOMAIN history' = 1..(Len(a) - 1)
         /\ \A i \in 1..(Len(a) - 1) : history'[i] = a[i + 1]
  <2>1. CASE Len(a) > MaxHistory
    <3>1. history' = Tail(a) /\ a # <<>>
      BY <1>1, <2>1 DEF AddHistory
    <3> HIDE DEF a
    <3> QED BY <1>1, <3>1, TailPlaces
  <2>2. CASE ~(Len(a) > MaxHistory)
    BY <2>2 DEF AddHistory
  <2> QED BY <2>1, <2>2
<1>4. CASE history' = a
  BY <1>1, <1>2, <1>4
<1>5. CASE /\ Len(history') = Len(a) - 1 /\ DOMAIN history' = 1..(Len(a) - 1)
           /\ \A i \in 1..(Len(a) - 1) : history'[i] = a[i + 1]
  <2>1. \A i \in DOMAIN history' : i \in Int /\ i + 1 \in 1..Len(a) /\ history'[i] = a[i + 1]
    BY <1>1, <1>5
  <2> HIDE DEF a
  <2>2. ASSUME \A i, j \in 1..Len(a) : a[i].start = a[j].start => i = j
        PROVE  \A i, j \in DOMAIN history' : history'[i].start = history'[j].start => i = j
    <3> TAKE i, j \in DOMAIN history'
    <3>1. a[i + 1].start = a[j + 1].start => i + 1 = j + 1
      BY <2>1, <2>2
    <3> QED BY <2>1, <3>1
  <2> QED BY <1>2, <2>1, <2>2
<1> QED BY <1>3, <1>4, <1>5

\* What leaves active_ for the history is the last observation of its incident.
LEMMA ObserveStoreInv ==
  ASSUME Inv, NEW h \in Hosts, NEW x \in Incident, Observed(h, x), handing[h] = None,
         \/ active' = [active EXCEPT ![h] = x] /\ x.active /\ history' = history
         \/ active' = [active EXCEPT ![h] = None] /\ ~x.active /\ AddHistory(x),
         UNCHANGED <<queue, saver, rows, flag, dropped>>
  PROVE  StoreInv'
<1>1. /\ \A s \in Starts : known'[s] = IF s = x.start THEN x ELSE known[s]
      /\ x # None
  BY ObservedNewest
<1>2. StoreInv /\ TypeOK /\ x.start \in Starts /\ x.host = h
  BY Revisions DEF Inv, Observed
<1>3. \A g \in Hosts \ {h} : active[g] # None =>
        active[g].start # x.start /\ active[g].start \in Starts
  BY <1>2, Typed, Revisions DEF StoreInv, Observed
<1>4. \A i \in DOMAIN history : history[i].start # x.start /\ history[i].start \in Starts
  BY <1>2, Typed, NoneAssumption, Revisions DEF StoreInv, Observed
<1>5. \A g \in Hosts : active'[g] # None =>
        /\ active'[g].active /\ active'[g].host = g
        /\ known'[active'[g].start] = active'[g]
  <2>1. \A g \in Hosts \ {h} : active'[g] = active[g]
    BY <1>2 DEF TypeOK
  <2>2. active'[h] # None => active'[h] = x /\ x.active
    BY <1>2 DEF TypeOK
  <2> QED BY <1>1, <1>2, <1>3, <2>1, <2>2 DEF StoreInv
<1>6. CASE history' = history
  BY <1>1, <1>2, <1>4, <1>5, <1>6 DEF StoreInv
<1>7. CASE ~x.active /\ AddHistory(x)
  <2>1. /\ \A i \in DOMAIN history' :
             history'[i] = x \/ \E j \in DOMAIN history : history'[i] = history[j]
        /\ \A i, j \in DOMAIN history' : history'[i].start = history'[j].start => i = j
    BY <1>2, <1>4, <1>7, AddHistoryPlaces DEF StoreInv
  <2>2. \A i \in DOMAIN history' :
          ~history'[i].active /\ known'[history'[i].start] = history'[i]
    BY <1>1, <1>2, <1>4, <1>7, <2>1 DEF StoreInv
  <2> QED BY <1>5, <2>1, <2>2 DEF StoreInv
<1> QED BY <1>6, <1>7

\* IncidentStore::Observe as a whole.
LEMMA ObserveInv ==
  ASSUME Inv, NEW h \in Hosts, Observe(h) PROVE Inv'
<1>1. PICK x \in Incident :
        /\ Observed(h, x)
        /\ \/ active' = [active EXCEPT ![h] = x] /\ x.active /\ history' = history
           \/ active' = [active EXCEPT ![h] = None] /\ ~x.active /\ AddHistory(x)
  <2>1. CASE Open(h)
    BY <2>1, OpenObserves
  <2>2. CASE Continue(h)
    BY <2>2, ContinueObserves
  <2>3. CASE Recover(h)
    BY <2>3, RecoverObserves
  <2> QED BY <2>1, <2>2, <2>3 DEF Observe
<1>2. handing[h] = None
      /\ UNCHANGED <<queue, saver, rows, flag, crashes, healthy, dropped>>
  BY DEF Observe
<1>3. TypeOK' /\ IdsInv' /\ StoreInv'
  BY <1>1, <1>2, ObserveTypeOK, ObserveIdsInv, ObserveStoreInv
<1>4. PipeInv' /\ RowsInv' /\ NewestInv' /\ SavedInv' /\ FlagInv'
  BY <1>1, <1>2, ObservePipeInv, ObserveNewestInv
<1> QED BY <1>3, <1>4 DEF Inv

-----------------------------------------------------------------------------
(* Enqueue and Reject *)

\* What the shard thread of h hands over is the last observation of its start,
\* and no other thread has a task of that start.
LEMMA HandedOver ==
  ASSUME Inv, NEW h \in Hosts, handing[h] # None,
         handing' = [handing EXCEPT ![h] = None]
  PROVE  /\ handing[h] \in Incident /\ handing[h].start \in Starts
         /\ known[handing[h].start] = handing[h]
         /\ handing'[h] = None
         /\ \A g \in Hosts \ {h} : handing'[g] = handing[g]
         /\ \A s \in Starts : s # handing[h].start => (Handed(s)' <=> Handed(s))
         /\ \A g \in Hosts : handing'[g] # None =>
              handing'[g].host = g /\ known[handing'[g].start] = handing'[g]
<1>1. /\ handing[h] \in Incident /\ handing[h].start \in Starts
      /\ known[handing[h].start] = handing[h]
  BY Typed, Revisions DEF Inv, PipeInv
<1>2. /\ handing'[h] = None
      /\ \A g \in Hosts \ {h} : handing'[g] = handing[g]
  BY DEF Inv, TypeOK
<1>3. \A s \in Starts : s # handing[h].start => (Handed(s)' <=> Handed(s))
  BY <1>2 DEF Handed
<1> QED BY <1>1, <1>2, <1>3 DEF Inv, PipeInv

\* The queue has room when a task enters it.
LEMMA EnqueueTypeOK ==
  ASSUME Inv, NEW h \in Hosts, Enqueue(h) PROVE TypeOK'
<1>1. /\ TypeOK /\ handing[h] \in Incident
  BY Typed DEF Inv, Enqueue
<1>2. queue' \in Seq(Incident) /\ Len(queue') <= QueueCapacity
  BY <1>1, IncidentAssumption DEF TypeOK, Enqueue
<1>3. handing' \in [Hosts -> Incident \cup {None}] /\ dropped' \subseteq Starts
  BY <1>1 DEF TypeOK, Enqueue
<1>4. UNCHANGED <<active, history, nextId, opened, saver, rows, initialized, pending,
                  crashes, healthy, known>>
  BY DEF Enqueue, store, flag
<1> QED BY <1>1, <1>2, <1>3, <1>4, Zenon DEF TypeOK

\* A task becomes the last of the queue, and is the newest of its incident.
LEMMA EnqueueInv ==
  ASSUME Inv, NEW h \in Hosts, Enqueue(h) PROVE Inv'
<1> DEFINE x == handing[h]
           n == Len(queue)
<1>1. /\ x # None /\ queue' = Append(queue, x)
      /\ handing' = [handing EXCEPT ![h] = None]
      /\ dropped' = dropped \ {x.start}
      /\ UNCHANGED <<active, history, nextId, opened, saver, rows, initialized, pending,
                     crashes, healthy, known>>
  BY DEF Enqueue, store, flag
<1>2. /\ x \in Incident /\ x.start \in Starts /\ known[x.start] = x
      /\ \A s \in Starts : s # x.start => (Handed(s)' <=> Handed(s))
      /\ \A g \in Hosts : handing'[g] # None =>
           handing'[g].host = g /\ known[handing'[g].start] = handing'[g]
      /\ \A g \in Hosts \ {h} : handing'[g] = handing[g]
  BY <1>1, HandedOver
<1>3. /\ n \in Nat /\ DOMAIN queue = 1..n /\ DOMAIN queue' = 1..(n + 1)
      /\ queue'[n + 1] = x /\ \A i \in 1..n : queue'[i] = queue[i]
  BY <1>1, <1>2 DEF Inv, TypeOK
<1> HIDE DEF x, n
<1>4. IdsInv' /\ StoreInv' /\ SavedInv'
  BY <1>1 DEF Inv, IdsInv, StoreInv, SavedInv, RowOf
<1>5. PipeInv'
  <2>1. Carries(x)
    BY <1>1, <1>2, Revisions DEF Carries, NotNewer
  <2>2. \A i \in DOMAIN queue' : Carries(queue'[i])
    BY <1>3, <2>1 DEF Inv, PipeInv
  <2>3. \A i, j \in DOMAIN queue' :
          i < j /\ queue'[i].start = queue'[j].start => NotNewer(queue'[i], queue'[j])
    <3> SUFFICES ASSUME NEW i \in 1..(n + 1), NEW j \in 1..(n + 1), i < j,
                        queue'[i].start = queue'[j].start
                 PROVE  NotNewer(queue'[i], queue'[j])
      BY <1>3
    <3>1. CASE j = n + 1
      <4>1. i \in DOMAIN queue /\ Carries(queue[i])
        BY <1>3, <3>1 DEF Inv, PipeInv
      <4> QED BY <1>2, <1>3, <3>1, <4>1 DEF Carries
    <3>2. CASE j # n + 1
      <4>1. i \in DOMAIN queue /\ j \in DOMAIN queue
        BY <1>3, <3>2
      <4> QED BY <1>3, <4>1 DEF Inv, PipeInv
    <3> QED BY <3>1, <3>2
  <2>4. saver # None => \A i \in DOMAIN queue' :
          queue'[i].start = saver.incident.start => NotNewer(saver.incident, queue'[i])
    BY <1>2, <1>3 DEF Inv, PipeInv, Carries
  <2> QED BY <1>1, <1>2, <2>2, <2>3, <2>4 DEF Inv, PipeInv, Carries, NotNewer
<1>6. RowsInv'
  <2>1. \A s \in Starts : rows[s] # None =>
          \A i \in DOMAIN queue' : queue'[i].start = s => NotNewer(rows[s], queue'[i])
    BY <1>1, <1>2, <1>3 DEF Inv, RowsInv
  <2> QED BY <1>1, <2>1 DEF Inv, RowsInv, NotNewer
<1>7. NewestInv'
  <2> SUFFICES ASSUME NEW s \in Starts, s \notin dropped', ~Handed(s)'
               PROVE  /\ \A i \in DOMAIN queue' :
                           /\ queue'[i].start = s
                           /\ \A j \in DOMAIN queue' : i < j => queue'[j].start # s
                           => queue'[i] = known[s]
                      /\ /\ saver # None /\ saver.incident.start = s
                         /\ \A j \in DOMAIN queue' : queue'[j].start # s
                         => saver.incident = known[s]
    BY <1>1, Zenon DEF NewestInv
  <2>1. CASE s = x.start
    <3>1. n + 1 \in DOMAIN queue' /\ queue'[n + 1].start = s
      BY <1>3, <2>1
    <3>2. \A i \in DOMAIN queue' : i = n + 1 \/ i < n + 1
      BY <1>3
    <3> QED BY <1>2, <1>3, <2>1, <3>1, <3>2
  <2>2. CASE s # x.start
    <3>1. s \notin dropped /\ ~Handed(s)
      BY <1>1, <1>2, <2>2
    <3>2. \A i \in DOMAIN queue' : queue'[i].start = s => i \in DOMAIN queue /\ queue'[i] = queue[i]
      BY <1>3, <2>2
    <3>3. \A i \in DOMAIN queue : i \in DOMAIN queue' /\ queue'[i] = queue[i]
      BY <1>3
    <3> QED BY <3>1, <3>2, <3>3 DEF Inv, NewestInv
  <2> QED BY <2>1, <2>2
<1>8. FlagInv'
  <2>1. ASSUME NEW s \in Starts, s = x.start PROVE OnItsWay(s)'
    <3>1. n + 1 \in DOMAIN queue' /\ queue'[n + 1].start = s
      BY <1>3, <2>1
    <3> QED BY <3>1 DEF OnItsWay
  <2>2. ASSUME NEW s \in Starts, s # x.start, OnItsWay(s) PROVE OnItsWay(s)'
    <3>1. CASE \E g \in Hosts : handing[g] # None /\ handing[g].start = s
      BY <1>2, <2>2, <3>1 DEF OnItsWay, x
    <3>2. CASE \E i \in DOMAIN queue : queue[i].start = s
      <4>1. \A i \in DOMAIN queue : i \in DOMAIN queue' /\ queue'[i] = queue[i]
        BY <1>3
      <4> QED BY <3>2, <4>1 DEF OnItsWay
    <3>3. CASE saver # None /\ saver.incident.start = s
      BY <1>1, <3>3 DEF OnItsWay
    <3> QED BY <2>2, <3>1, <3>2, <3>3 DEF OnItsWay
  <2> QED BY <1>1, <2>1, <2>2 DEF Inv, FlagInv, Durable, RowOf
<1> QED BY <1>4, <1>5, <1>6, <1>7, <1>8, EnqueueTypeOK DEF Inv

\* A task the queue refuses is no longer on its way, and its start is dropped.
LEMMA RejectInv ==
  ASSUME Inv, NEW h \in Hosts, Reject(h) PROVE Inv'
<1> DEFINE x == handing[h]
<1>1. /\ x # None
      /\ handing' = [handing EXCEPT ![h] = None]
      /\ dropped' = dropped \cup {x.start}
      /\ UNCHANGED <<active, history, nextId, opened, queue, saver, rows, initialized, pending,
                     crashes, healthy, known>>
  BY DEF Reject, store, flag
<1>2. /\ x \in Incident /\ x.start \in Starts /\ known[x.start] = x
      /\ \A s \in Starts : s # x.start => (Handed(s)' <=> Handed(s))
      /\ \A g \in Hosts : handing'[g] # None =>
           handing'[g].host = g /\ known[handing'[g].start] = handing'[g]
      /\ \A g \in Hosts \ {h} : handing'[g] = handing[g]
  BY <1>1, HandedOver
<1>3. TypeOK'
  <2>1. handing' \in [Hosts -> Incident \cup {None}] /\ dropped' \subseteq Starts
    BY <1>1, <1>2 DEF Inv, TypeOK
  <2> QED BY <1>1, <2>1, Zenon DEF Inv, TypeOK
<1> HIDE DEF x
<1>4. IdsInv' /\ StoreInv' /\ SavedInv' /\ RowsInv'
  BY <1>1 DEF Inv, IdsInv, StoreInv, SavedInv, RowsInv, NotNewer, RowOf
<1>5. PipeInv'
  BY <1>1, <1>2 DEF Inv, PipeInv, Carries, NotNewer
<1>6. NewestInv'
  BY <1>1, <1>2 DEF Inv, NewestInv
<1>7. FlagInv'
  <2>1. \A s \in Starts : s # x.start /\ OnItsWay(s) => OnItsWay(s)'
    BY <1>1, <1>2 DEF OnItsWay, x
  <2> QED BY <1>1, <2>1 DEF Inv, FlagInv, Durable, RowOf
<1> QED BY <1>3, <1>4, <1>5, <1>6, <1>7 DEF Inv

-----------------------------------------------------------------------------
(* The persistence thread *)

\* The persistence thread takes the oldest task, which none in the queue is older than.
LEMMA TakeInv == ASSUME Inv, Take PROVE Inv'
<1> DEFINE x == queue[1]
           n == Len(queue)
<1>1. /\ saver = None /\ queue # <<>> /\ queue' = Tail(queue)
      /\ saver' = [incident |-> x, step |-> "save"]
      /\ UNCHANGED <<active, history, nextId, opened, handing, rows, initialized, pending,
                     crashes, healthy, known, dropped>>
  BY DEF Take, TakeOldest, store, flag, ghosts
<1>2. /\ n \in Nat \ {0} /\ DOMAIN queue = 1..n /\ DOMAIN queue' = 1..(n - 1)
      /\ \A i \in 1..(n - 1) : i + 1 \in 1..n /\ queue'[i] = queue[i + 1]
      /\ queue' \in Seq(Incident) /\ Len(queue') = n - 1
      /\ x \in Incident /\ 1 \in DOMAIN queue
  <2>1. queue \in Seq(Incident) /\ queue # <<>>
    BY <1>1 DEF Inv, TypeOK
  <2>2. n \in Nat \ {0} /\ x \in Incident /\ 1 \in DOMAIN queue
    BY <2>1
  <2> QED BY <1>1, <2>1, <2>2, TailPlaces
<1>3. saver' \in Saving /\ saver' # None /\ saver'.incident = x /\ saver'.step = "save"
  BY <1>1, <1>2, NoneAssumption DEF Saving
<1>4. /\ PipeInv /\ RowsInv /\ NewestInv /\ FlagInv /\ TypeOK
  BY DEF Inv
<1> HIDE DEF x, n
<1>5. TypeOK'
  <2>1. Len(queue') <= QueueCapacity
    BY <1>2, <1>4, IncidentAssumption DEF TypeOK, n
  <2> QED BY <1>1, <1>2, <1>3, <1>4, <2>1, Zenon DEF TypeOK
<1>6. IdsInv' /\ StoreInv' /\ SavedInv'
  BY <1>1, <1>3 DEF Inv, IdsInv, StoreInv, SavedInv
<1>7. PipeInv'
  <2>1. \A i \in DOMAIN queue' : Carries(queue'[i])
    BY <1>2, <1>4 DEF PipeInv
  <2>2. \A i, j \in DOMAIN queue' :
          i < j /\ queue'[i].start = queue'[j].start => NotNewer(queue'[i], queue'[j])
    <3> SUFFICES ASSUME NEW i \in 1..(n - 1), NEW j \in 1..(n - 1), i < j,
                        queue'[i].start = queue'[j].start
                 PROVE  NotNewer(queue'[i], queue'[j])
      BY <1>2
    <3>1. i + 1 \in DOMAIN queue /\ j + 1 \in DOMAIN queue /\ i + 1 < j + 1
      BY <1>2
    <3>2. /\ queue'[i] = queue[i + 1] /\ queue'[j] = queue[j + 1]
          /\ queue[i + 1].start = queue[j + 1].start
      BY <1>2
    <3>3. NotNewer(queue[i + 1], queue[j + 1])
      BY <1>4, <3>1, <3>2 DEF PipeInv
    <3> QED BY <3>2, <3>3
  <2>3. Carries(x)
    BY <1>2, <1>4 DEF PipeInv, x
  <2>4. \A i \in DOMAIN queue' : queue'[i].start = x.start => NotNewer(x, queue'[i])
    <3> SUFFICES ASSUME NEW i \in 1..(n - 1), queue'[i].start = x.start
                 PROVE  NotNewer(x, queue'[i])
      BY <1>2
    <3>1. i + 1 \in DOMAIN queue /\ 1 < i + 1
      BY <1>2
    <3>2. x = queue[1] /\ queue'[i] = queue[i + 1] /\ queue[1].start = queue[i + 1].start
      BY <1>2 DEF x
    <3>3. NotNewer(queue[1], queue[i + 1])
      BY <1>2, <1>4, <3>1, <3>2 DEF PipeInv
    <3> QED BY <3>2, <3>3
  <2> QED BY <1>1, <1>3, <1>4, <2>1, <2>2, <2>3, <2>4 DEF PipeInv, Carries, NotNewer
<1>8. RowsInv'
  <2>1. \A s \in Starts : rows[s] # None =>
          /\ \A i \in DOMAIN queue' : queue'[i].start = s => NotNewer(rows[s], queue'[i])
          /\ x.start = s => NotNewer(rows[s], x)
    BY <1>2, <1>4 DEF RowsInv, x
  <2> QED BY <1>1, <1>3, <1>4, <2>1 DEF RowsInv, NotNewer
<1>9. NewestInv'
  <2> SUFFICES ASSUME NEW s \in Starts, s \notin dropped, ~Handed(s)
               PROVE  /\ \A i \in DOMAIN queue' :
                           /\ queue'[i].start = s
                           /\ \A j \in DOMAIN queue' : i < j => queue'[j].start # s
                           => queue'[i] = known[s]
                      /\ x.start = s /\ (\A j \in DOMAIN queue' : queue'[j].start # s)
                         => x = known[s]
    BY <1>1, <1>3, Zenon DEF NewestInv, Handed
  <2>1. \A i \in DOMAIN queue :
          queue[i].start = s /\ (\A j \in DOMAIN queue : i < j => queue[j].start # s)
            => queue[i] = known[s]
    BY <1>4 DEF NewestInv
  <2>2. \A j \in 2..n : j - 1 \in DOMAIN queue' /\ queue[j] = queue'[j - 1]
    BY <1>2
  <2>3. ASSUME NEW i \in DOMAIN queue', queue'[i].start = s,
               \A j \in DOMAIN queue' : i < j => queue'[j].start # s
        PROVE  queue'[i] = known[s]
    <3>1. i \in Nat /\ i + 1 \in DOMAIN queue /\ queue'[i] = queue[i + 1]
      BY <1>2
    <3>2. \A j \in DOMAIN queue : i + 1 < j => j \in 2..n /\ i < j - 1
      BY <1>2, <3>1
    <3> QED BY <2>1, <2>2, <2>3, <3>1, <3>2
  <2>4. ASSUME x.start = s, \A j \in DOMAIN queue' : queue'[j].start # s
        PROVE  x = known[s]
    <3>1. \A j \in DOMAIN queue : 1 < j => j \in 2..n
      BY <1>2
    <3>2. \A j \in DOMAIN queue : 1 < j => queue[j].start # s
      BY <2>2, <2>4, <3>1
    <3>3. x = queue[1] /\ 1 \in DOMAIN queue
      BY <1>2 DEF x
    <3> QED BY <2>1, <2>4, <3>2, <3>3
  <2> QED BY <2>3, <2>4
<1>10. FlagInv'
  <2>1. ASSUME NEW s \in Starts, OnItsWay(s) PROVE OnItsWay(s)'
    <3>1. CASE \E i \in DOMAIN queue : queue[i].start = s
      <4>1. PICK i \in 1..n : queue[i].start = s
        BY <1>2, <3>1
      <4>2. CASE i = 1
        BY <1>3, <4>1, <4>2 DEF OnItsWay, x
      <4>3. CASE i # 1
        <5>1. i - 1 \in DOMAIN queue' /\ queue'[i - 1] = queue[i]
          BY <1>2, <4>3
        <5> QED BY <4>1, <5>1 DEF OnItsWay
      <4> QED BY <4>2, <4>3
    <3>2. CASE \E g \in Hosts : handing[g] # None /\ handing[g].start = s
      BY <1>1, <3>2 DEF OnItsWay
    <3> QED BY <1>1, <2>1, <3>1, <3>2 DEF OnItsWay
  <2> QED BY <1>1, <1>4, <2>1 DEF FlagInv, Durable, RowOf
<1> QED BY <1>5, <1>6, <1>7, <1>8, <1>9, <1>10 DEF Inv

\* A transaction writes the row or not, and reports success only if it did.
LEMMA SaveInv == ASSUME Inv, Save PROVE Inv'
<1> DEFINE x == saver.incident
<1>1. /\ saver # None /\ saver \in Saving /\ x \in Incident /\ x.start \in Starts
      /\ RowOf(x) \in Row /\ RowOf(x) # None
      /\ UNCHANGED <<active, history, nextId, opened, handing, queue, initialized, pending,
                     crashes, healthy, known, dropped>>
  <2>1. saver # None /\ saver \in Saving /\ x \in Incident /\ x.start \in Starts
    BY Typed, Revisions DEF Inv, Save
  <2>2. RowOf(x) \in Row
    BY <2>1 DEF RowOf, Row, Incident
  <2> QED BY <2>1, <2>2, NoneAssumption DEF Save, store, flag, ghosts
<1>2. /\ saver' \in Saving /\ saver'.incident = x
      /\ \/ rows' = [rows EXCEPT ![x.start] = RowOf(x)]
         \/ rows' = rows /\ saver'.step = "failed"
  BY <1>1 DEF Save, Saving
<1>3. /\ saver' # None
      /\ rows' \in [Starts -> Row \cup {None}]
      /\ \A s \in Starts : rows'[s] = rows[s] \/ (s = x.start /\ rows'[s] = RowOf(x))
      /\ saver'.step = "saved" => rows'[x.start] = RowOf(x)
  <2>1. saver' # None /\ rows \in [Starts -> Row \cup {None}]
    BY <1>2, NoneAssumption DEF Inv, TypeOK
  <2> HIDE DEF x
  <2>2. CASE rows' = [rows EXCEPT ![x.start] = RowOf(x)]
    BY <1>1, <2>1, <2>2
  <2>3. CASE rows' = rows /\ saver'.step = "failed"
    BY <2>1, <2>3
  <2> QED BY <1>2, <2>1, <2>2, <2>3
<1>4. TypeOK'
  BY <1>1, <1>2, <1>3, Zenon DEF Inv, TypeOK
<1>5. Carries(x) /\ IdsInv /\ NotNewer(RowOf(x), x)
      /\ \A i \in DOMAIN queue : queue[i].start = x.start => NotNewer(x, queue[i])
  <2>1. NotNewer(RowOf(x), x)
    BY <1>1, Revisions DEF NotNewer, RowOf
  <2> QED BY <1>1, <2>1 DEF Inv, PipeInv
<1> HIDE DEF x
<1>6. IdsInv'
  <2>1. \A s \in Starts : rows'[s] # None => s <= opened
    BY <1>1, <1>3, <1>5 DEF IdsInv, Carries
  <2> QED BY <1>1, <1>5, <2>1 DEF IdsInv
<1>7. StoreInv' /\ PipeInv' /\ NewestInv'
  <2>1. StoreInv'
    BY <1>1 DEF Inv, StoreInv
  <2>2. PipeInv'
    BY <1>1, <1>2, <1>3 DEF Inv, PipeInv, Carries, NotNewer, x
  <2>3. NewestInv'
    BY <1>1, <1>2, <1>3 DEF Inv, NewestInv, Handed, x
  <2> QED BY <2>1, <2>2, <2>3
<1>8. RowsInv'
  <2> SUFFICES ASSUME NEW s \in Starts, rows'[s] # None
               PROVE  /\ known[s] # None => NotNewer(rows'[s], known[s])
                      /\ \A i \in DOMAIN queue : queue[i].start = s => NotNewer(rows'[s], queue[i])
                      /\ x.start = s => NotNewer(rows'[s], x)
    BY <1>1, <1>2, <1>3 DEF RowsInv, NotNewer
  <2>1. CASE rows'[s] = rows[s]
    BY <1>1, <2>1 DEF Inv, RowsInv, x
  <2>2. CASE s = x.start /\ rows'[s] = RowOf(x)
    <3>1. RowOf(x).rev = x.rev /\ RowOf(x).active = x.active
      BY DEF RowOf
    <3> QED BY <1>5, <2>2, <3>1 DEF NotNewer, Carries
  <2> QED BY <1>3, <2>1, <2>2
<1>9. SavedInv'
  BY <1>2, <1>3 DEF SavedInv, RowOf
<1>10. FlagInv'
  <2>1. \A s \in Starts : /\ OnItsWay(s) => OnItsWay(s)'
                          /\ ~OnItsWay(s) => rows'[s] = rows[s]
    BY <1>1, <1>2, <1>3 DEF OnItsWay, x
  <2> QED BY <1>1, <2>1 DEF Inv, FlagInv, Durable, RowOf
<1> QED BY <1>4, <1>6, <1>7, <1>8, <1>9, <1>10 DEF Inv

\* RecordSave notes the outcome of the save, and the task has arrived.
LEMMA RecordedInv == ASSUME Inv, Recorded PROVE Inv'
<1> DEFINE x == saver.incident
<1>1. /\ saver # None /\ saver' = None /\ saver.step \in {"saved", "failed"}
      /\ RecordSave(x.id, saver.step = "saved")
      /\ UNCHANGED <<active, history, nextId, opened, handing, queue, rows, initialized,
                     crashes, healthy, known, dropped>>
  BY DEF Recorded, store, ghosts
<1>2. x \in Incident /\ x.start \in Starts /\ x.id \in Starts
  BY <1>1, Typed, Revisions DEF Inv
<1>3. TypeOK'
  <2>1. pending' \subseteq Starts
    BY <1>1, <1>2 DEF RecordSave, Inv, TypeOK
  <2> QED BY <1>1, <2>1, Zenon DEF Inv, TypeOK
<1>4. IdsInv' /\ StoreInv' /\ SavedInv'
  BY <1>1 DEF Inv, IdsInv, StoreInv, SavedInv
<1>5. PipeInv' /\ RowsInv' /\ NewestInv'
  <2>1. PipeInv'
    BY <1>1 DEF Inv, PipeInv, Carries, NotNewer
  <2>2. RowsInv'
    BY <1>1 DEF Inv, RowsInv, NotNewer
  <2>3. NewestInv'
    BY <1>1 DEF Inv, NewestInv, Handed
  <2> QED BY <2>1, <2>2, <2>3
<1>6. FlagInv'
  <2> SUFFICES ASSUME initialized, NEW s \in Starts, known[s] # None, ~OnItsWay(s)',
                      s \notin dropped
               PROVE  Durable(s) \/ known[s].id \in pending'
    BY <1>1 DEF FlagInv, Durable, RowOf
  <2>1. /\ Carries(x) /\ IdsInv
        /\ x.start # s => x.id # known[s].id
    BY <1>1, <1>2 DEF Inv, PipeInv, Carries, IdsInv
  <2>2. CASE x.start = s
    <3>1. x = known[s]
      BY <1>1, <2>2 DEF Inv, NewestInv, OnItsWay, Handed
    <3>2. CASE saver.step = "saved"
      BY <1>1, <2>2, <3>1, <3>2 DEF Inv, SavedInv, Durable
    <3>3. CASE saver.step = "failed"
      BY <1>1, <3>1, <3>3 DEF RecordSave
    <3> QED BY <1>1, <3>2, <3>3
  <2>3. CASE x.start # s
    <3>1. Durable(s) \/ known[s].id \in pending
      BY <1>1, <2>3 DEF Inv, FlagInv, OnItsWay
    <3>2. \A id \in pending : id # x.id => id \in pending'
      BY <1>1 DEF RecordSave
    <3> QED BY <2>1, <2>3, <3>1, <3>2
  <2> QED BY <2>2, <2>3
<1> QED BY <1>3, <1>4, <1>5, <1>6 DEF Inv

-----------------------------------------------------------------------------
(* The whole next-state relation *)

\* A crash leaves the rows, and a new run whose incidents start later.
LEMMA CrashInv == ASSUME Inv, Crash PROVE Inv'
<1> USE IncidentAssumption
<1>1. /\ active' = Nobody /\ history' = <<>> /\ nextId' = 1 /\ handing' = Nobody
      /\ queue' = <<>> /\ saver' = None /\ initialized' \in BOOLEAN /\ pending' = {}
      /\ known' = [s \in Starts |-> None] /\ dropped' = {}
      /\ rows' = rows /\ opened' = opened /\ healthy' = healthy
  BY DEF Crash
<1>2. TypeOK'
  <2>1. nextId' \in 1..(MaxIncidents + 1) /\ crashes' \in 0..MaxCrashes
    BY DEF Crash, Inv, TypeOK
  <2>2. /\ active' \in [Hosts -> Incident \cup {None}]
        /\ handing' \in [Hosts -> Incident \cup {None}]
        /\ known' \in [Starts -> Incident \cup {None}]
    BY <1>1 DEF Nobody
  <2>3. /\ history' \in Seq(Incident) /\ Len(history') <= MaxHistory
        /\ queue' \in Seq(Incident) /\ Len(queue') <= QueueCapacity
    BY <1>1
  <2> QED BY <1>1, <2>1, <2>2, <2>3, Zenon DEF Inv, TypeOK
<1>3. IdsInv'
  BY <1>1 DEF Inv, TypeOK, IdsInv
<1>4. StoreInv' /\ PipeInv'
  BY <1>1 DEF StoreInv, PipeInv, Nobody
<1>5. RowsInv' /\ NewestInv' /\ SavedInv' /\ FlagInv'
  BY <1>1 DEF RowsInv, NewestInv, SavedInv, FlagInv
<1> QED BY <1>2, <1>3, <1>4, <1>5 DEF Inv

\* Nothing the invariant speaks of changes.
LEMMA UnchangedInv == ASSUME Inv, UNCHANGED <<store, pipe, rows, flag, crashes, ghosts>>,
                             healthy' \in BOOLEAN
                      PROVE  Inv'
<1>1. UNCHANGED <<active, history, nextId, opened, handing, queue, saver, rows, initialized,
                  pending, crashes, known, dropped>>
  BY DEF store, pipe, flag, ghosts
<1>2. TypeOK'
  BY <1>1, Zenon DEF Inv, TypeOK
<1>3. IdsInv' /\ StoreInv' /\ PipeInv' /\ RowsInv'
  BY <1>1 DEF Inv, IdsInv, StoreInv, PipeInv, RowsInv, Carries, NotNewer
<1>4. NewestInv' /\ SavedInv' /\ FlagInv'
  BY <1>1 DEF Inv, NewestInv, SavedInv, FlagInv, Handed, OnItsWay, Durable, RowOf
<1> QED BY <1>2, <1>3, <1>4 DEF Inv

\* Every step keeps the invariant.
LEMMA NextInv == ASSUME Inv, [Next]_vars PROVE Inv'
<1>1. ASSUME NEW h \in Hosts, Observe(h) PROVE Inv'
  BY <1>1, ObserveInv
<1>2. ASSUME NEW h \in Hosts, Enqueue(h) PROVE Inv'
  BY <1>2, EnqueueInv
<1>3. ASSUME NEW h \in Hosts, Reject(h) PROVE Inv'
  BY <1>3, RejectInv
<1>4. CASE Persisting
  BY <1>4, TakeInv, SaveInv, RecordedInv DEF Persisting
<1>5. CASE Crash
  BY <1>5, CrashInv
<1>6. CASE GetWell
  BY <1>6, UnchangedInv DEF GetWell
<1>7. CASE UNCHANGED vars
  <2>1. healthy' \in BOOLEAN /\ UNCHANGED <<store, pipe, rows, flag, crashes, ghosts>>
    BY <1>7 DEF vars, Inv, TypeOK
  <2> QED BY <2>1, UnchangedInv
<1> QED BY <1>1, <1>2, <1>3, <1>4, <1>5, <1>6, <1>7 DEF Next

\* The inductive invariant: tasks under way are of this run and ordered by age, the
\* newest of a start is its last observation, and what has arrived is in the row of
\* its start or pending (Observe, PersistenceWorker, PersistTask, Save).
THEOREM PersistenceCorrect == Spec => []Inv
<1>1. Init => Inv
  BY InitInv
<1>2. Inv /\ [Next]_vars => Inv'
  BY NextInv
<1> QED BY <1>1, <1>2, PTL DEF Spec

\* Every field keeps its type, the history and the queue their bounds, for any
\* number of hosts, incidents, observations and crashes.
THEOREM TypeCorrect == Spec => []TypeOK
<1>1. Inv => TypeOK
  BY DEF Inv
<1> QED BY <1>1, PersistenceCorrect, PTL

\* Within a run of the Manager an id and a key mean one incident wherever they turn
\* up, and one that is active is nowhere closed (IncidentStore::Observe, AddHistory).
THEOREM IncidentsDistinct == Spec => []EpisodesDistinct
<1>1. Inv => EpisodesDistinct
  <2> SUFFICES ASSUME Inv PROVE EpisodesDistinct
    OBVIOUS
  <2>1. \A x \in ActiveOnes : /\ x \in Incident /\ x.start \in Starts /\ x.active
                              /\ known[x.start] = x
    BY Typed, Revisions DEF Inv, StoreInv, ActiveOnes
  <2>2. \A i \in DOMAIN history :
          /\ history[i] \in Incident /\ history[i].start \in Starts
          /\ ~history[i].active /\ known[history[i].start] = history[i]
    BY Typed, Revisions DEF Inv, StoreInv
  <2>3. \A x, y \in Incident :
          /\ x.start \in Starts /\ known[x.start] = x
          /\ y.start \in Starts /\ known[y.start] = y /\ x.id = y.id
          => x = y
    BY NoneAssumption DEF Inv, IdsInv
  <2>4. \A i, j \in DOMAIN history :
          ~history[i].active /\ (history[i].id = history[j].id => i = j)
    BY <2>2, <2>3 DEF Inv, StoreInv
  <2>5. \A x, y \in ActiveOnes : x.id = y.id => x = y
    BY <2>1, <2>3
  <2>6. ASSUME NEW x \in Everywhere PROVE x \in Incident /\ x.start \in Starts /\ Carries(x)
    <3>1. \A y \in Incident : NotNewer(y, y) /\ y.start \in Starts
      BY Revisions DEF NotNewer
    <3>2. \A y \in Incident : known[y.start] = y => Carries(y)
      BY <3>1, NoneAssumption DEF Carries
    <3>3. CASE x \in ActiveOnes \/ x \in ToSet(history)
      BY <2>1, <2>2, <3>2, <3>3 DEF ToSet
    <3>4. CASE x \in ToSet(queue)
      BY <3>1, <3>4, Typed DEF ToSet, Inv, PipeInv
    <3>5. CASE x \in {handing[h] : h \in Hosts} \ {None}
      BY <3>1, <3>2, <3>5, Typed DEF Inv, PipeInv
    <3>6. CASE saver # None /\ x = saver.incident
      BY <3>1, <3>6, Typed DEF Inv, PipeInv
    <3> QED BY <3>3, <3>4, <3>5, <3>6 DEF Everywhere
  <2>7. ASSUME NEW x \in Everywhere, NEW y \in Everywhere
        PROVE  /\ x.id = y.id <=> x.start = y.start
               /\ x.id = y.id => x.host = y.host
    <3>1. Carries(x) /\ Carries(y) /\ x.start \in Starts /\ y.start \in Starts
      BY <2>6
    <3> QED BY <3>1 DEF Carries, Inv, IdsInv
  <2>8. ASSUME NEW x \in ActiveOnes, NEW y \in Everywhere, x.id = y.id PROVE y.active
    <3>1. x \in Everywhere
      BY DEF Everywhere
    <3>2. x.start = y.start
      BY <2>7, <2>8, <3>1
    <3>3. known[y.start] = x /\ x.active
      BY <2>1, <3>2
    <3>4. NotNewer(y, x)
      BY <2>6, <3>3 DEF Carries
    <3> QED BY <3>3, <3>4 DEF NotNewer
  <2> QED BY <2>4, <2>5, <2>7, <2>8 DEF EpisodesDistinct
<1> QED BY <1>1, PersistenceCorrect, PTL

\* While the degraded flag is down, MySQL has the last observation of every incident
\* of this run that is neither on its way nor was rejected (QueryService relies on it).
THEOREM FlagCorrect == Spec => []FlagCoversFailures
<1>1. Inv => FlagCoversFailures
  BY DEF Inv, TypeOK, FlagInv, FlagCoversFailures, Degraded
<1> QED BY <1>1, PersistenceCorrect, PTL

\* A row is overwritten by what is not older only: one step of Save.
LEMMA RowsForwardStep ==
  ASSUME Inv, [Next]_vars, NEW s \in Starts, rows[s] # None
  PROVE  rows'[s] # None /\ NotNewer(rows[s], rows'[s])
<1>1. CASE rows'[s] = rows[s]
  <2>1. rows[s] \in Row
    BY Typed DEF Inv
  <2> QED BY <1>1, <2>1, Revisions DEF NotNewer
<1>2. CASE rows'[s] # rows[s]
  <2>1. Save
    BY <1>2 DEF Next, vars, Observe, Enqueue, Reject, Persisting, Take, Recorded, Crash, GetWell
  <2>2. saver # None /\ saver.incident \in Incident /\ saver.incident.start \in Starts
    BY <2>1, Typed, Revisions DEF Inv, Save
  <2>3. s = saver.incident.start /\ rows'[s] = RowOf(saver.incident)
    BY <1>2, <2>1, <2>2 DEF Inv, TypeOK, Save
  <2>4. rows'[s] # None
    BY <2>2, <2>3, NoneAssumption DEF RowOf, Row, Incident
  <2>5. NotNewer(rows[s], saver.incident)
    BY <2>2, <2>3 DEF Inv, RowsInv
  <2> QED BY <2>3, <2>4, <2>5 DEF NotNewer, RowOf
<1> QED BY <1>1, <1>2

\* Failed saves, retries of the client, crashes and restarts never set a row back to
\* an older observation or a closed incident to active (DiagnosticPersistence::Save).
THEOREM RowsCorrect == Spec => RowsMoveForward
<1>1. Inv /\ [Next]_vars =>
        \A s \in Starts : rows[s] # None =>
          /\ rows'[s] # None
          /\ rows'[s].rev >= rows[s].rev
          /\ ~rows[s].active => ~rows'[s].active
  <2> SUFFICES ASSUME Inv, [Next]_vars, NEW s \in Starts, rows[s] # None
               PROVE  /\ rows'[s] # None
                      /\ rows'[s].rev >= rows[s].rev
                      /\ ~rows[s].active => ~rows'[s].active
    OBVIOUS
  <2>1. rows'[s] # None /\ NotNewer(rows[s], rows'[s]) /\ Inv'
    BY RowsForwardStep, NextInv
  <2>2. rows[s].rev \in Int /\ rows'[s].rev \in Int
    <3>1. rows[s] \in Row /\ rows'[s] \in Row
      BY <2>1 DEF Inv, TypeOK
    <3> QED BY <3>1, Revisions
  <2> QED BY <2>1, <2>2 DEF NotNewer
<1> QED BY <1>1, PersistenceCorrect, PTL DEF Spec, RowsMoveForward

-----------------------------------------------------------------------------
(* Readers *)

\* What a reader relies on is typed, and still in MySQL.
ReaderInv ==
  reader # NoReader =>
    /\ reader.next \in {"row", "details"}
    /\ reader.start \in Starts
    /\ reader.atLeast \in Row \cup {None}
    /\ reader.atLeast # None =>
         rows[reader.start] # None /\ NotNewer(reader.atLeast, rows[reader.start])

\* The flag promises the row as it is (IsDiagnosticPersistenceDegraded).
LEMMA ReaderStarts == ASSUME Inv, NEW s \in 1..opened, AskFlag(s) PROVE ReaderInv'
<1>1. /\ s \in Starts /\ rows' = rows
      /\ reader' = [next |-> "row", start |-> s, atLeast |-> Promised(s)]
  BY IncidentAssumption DEF Inv, TypeOK, Starts, AskFlag, Reads, vars
<1>2. CASE Promised(s) = None
  BY <1>1, <1>2 DEF ReaderInv
<1>3. CASE Promised(s) # None
  <2>1. known[s] # None /\ ~OnItsWay(s) /\ s \notin dropped /\ Promised(s) = RowOf(known[s])
    BY <1>3 DEF Promised
  <2>2. rows[s] = RowOf(known[s])
    BY <1>1, <2>1 DEF AskFlag, Degraded, Inv, FlagInv, Durable
  <2>3. Promised(s) \in Row /\ Promised(s).rev \in Int
    BY <1>1, <1>3, <2>1, <2>2, Typed, Revisions DEF Inv
  <2>4. rows[s] # None /\ NotNewer(Promised(s), rows[s])
    BY <1>3, <2>1, <2>2, <2>3 DEF NotNewer
  <2> QED BY <1>1, <2>3, <2>4 DEF ReaderInv, NotNewer
<1> QED BY <1>2, <1>3

\* What the row shows replaces what the flag promised.
LEMMA ReaderGoesOn == ASSUME Inv, ReaderInv, ReadRow PROVE ReaderInv'
<1>1. /\ reader.next = "row" /\ rows' = rows
  BY DEF ReadRow, vars
<1>2. reader # NoReader
  BY <1>1 DEF NoReader
<1>3. reader.start \in Starts
  BY <1>2 DEF ReaderInv
<1>4. CASE rows[reader.start] = None
  BY <1>4 DEF ReadRow, ReaderInv
<1>5. CASE rows[reader.start] # None
  <2>1. rows[reader.start] \in Row /\ rows[reader.start].rev \in Int
    BY <1>3, <1>5, Typed, Revisions DEF Inv
  <2>2. reader' = [next |-> "details", start |-> reader.start, atLeast |-> rows[reader.start]]
    BY <1>5 DEF ReadRow, Reads
  <2> QED BY <1>1, <1>3, <1>5, <2>1, <2>2 DEF ReaderInv, NotNewer
<1> QED BY <1>4, <1>5

\* Writers set no row back while a reader relies on it.
LEMMA ReaderKeeps == ASSUME Inv, ReaderInv, [Next]_vars, reader' = reader PROVE ReaderInv'
<1> SUFFICES ASSUME reader # NoReader, reader.atLeast # None
             PROVE  rows'[reader.start] # None
                    /\ NotNewer(reader.atLeast, rows'[reader.start])
  BY DEF ReaderInv, NotNewer
<1>1. /\ reader.start \in Starts /\ reader.atLeast \in Row /\ rows[reader.start] # None
      /\ NotNewer(reader.atLeast, rows[reader.start])
  BY DEF ReaderInv
<1>2. /\ rows'[reader.start] # None
      /\ NotNewer(rows[reader.start], rows'[reader.start])
  BY <1>1, RowsForwardStep
<1>3. rows[reader.start] \in Row /\ rows'[reader.start] \in Row
  BY <1>1, <1>2, NextInv DEF Inv, TypeOK
<1> QED BY <1>1, <1>2, <1>3, Revisions, NotNewerTransitive

\* The readers do not disturb what they read.
LEMMA ReadersOnlyRead == ReadersSpec => Spec
<1>1. ReadersInit => Init
  BY DEF ReadersInit
<1>2. [ReadersNext]_readerVars => [Next]_vars
  BY DEF ReadersNext, readerVars, Writes, AskFlag, ReadRow, EndOfCall
<1> QED BY <1>1, <1>2, PTL DEF ReadersSpec, Spec

\* A reader whom the flag sent to MySQL finds there every incident the flag stood for,
\* in that state or a later one, and nothing read after a row is older than the row,
\* whatever is observed, saved, lost or rejected between the flag and the last
\* statement (GetIncidents, GetIncidentDetail, GetActiveDiagnosis).
THEOREM AnswerCorrect == ReadersSpec => []AnswerIsPromised
<1>1. ReadersInit => ReaderInv
  BY DEF ReadersInit, ReaderInv
<1>2. ASSUME Inv, ReaderInv, [ReadersNext]_readerVars PROVE ReaderInv'
  <2>1. CASE Writes
    <3>1. CASE reader' = reader
      BY <1>2, <2>1, <3>1, ReaderKeeps DEF Writes
    <3>2. CASE reader' = NoReader
      BY <3>2 DEF ReaderInv
    <3> QED BY <2>1, <3>1, <3>2 DEF Writes
  <2>2. ASSUME NEW s \in 1..opened, AskFlag(s) PROVE ReaderInv'
    BY <1>2, <2>2, ReaderStarts
  <2>3. CASE ReadRow
    BY <1>2, <2>3, ReaderGoesOn
  <2>4. CASE EndOfCall
    BY <2>4 DEF EndOfCall, ReaderInv
  <2>5. CASE UNCHANGED readerVars
    BY <1>2, <2>5, ReaderKeeps DEF readerVars
  <2> QED BY <1>2, <2>1, <2>2, <2>3, <2>4, <2>5 DEF ReadersNext
<1>3. Inv /\ ReaderInv => AnswerIsPromised
  <2> SUFFICES ASSUME Inv, ReaderInv, reader # NoReader, reader.atLeast # None
               PROVE  LET now == rows[reader.start]
                      IN /\ now # None
                         /\ now.rev >= reader.atLeast.rev
                         /\ ~reader.atLeast.active => ~now.active
    BY DEF AnswerIsPromised
  <2>1. /\ reader.start \in Starts /\ reader.atLeast \in Row /\ rows[reader.start] # None
        /\ NotNewer(reader.atLeast, rows[reader.start])
    BY DEF ReaderInv
  <2>2. rows[reader.start].rev \in Int /\ reader.atLeast.rev \in Int
    BY <2>1, Typed, Revisions DEF Inv
  <2> QED BY <2>1, <2>2 DEF NotNewer
<1>4. ReadersSpec => []Inv
  BY ReadersOnlyRead, PersistenceCorrect, PTL
<1> QED BY <1>1, <1>2, <1>3, <1>4, PTL DEF ReadersSpec
=============================================================================
