--------------------------- MODULE IncidentReaders ---------------------------
(***************************************************************************)
(* Readers of incidents: QueryService asks the degraded flag and then      *)
(* either IncidentStore, in one step, or MySQL, where QueryManager reads   *)
(* the row and afterwards, statement by statement, what belongs to it.     *)
(* Meanwhile IncidentPersistence goes on observing, saving and crashing.   *)
(*                                                                         *)
(* A reader is one rpc and the one start its caller looks at; rpcs do not  *)
(* wait for each other, and with one at a time each can meet every step of *)
(* the writers.                                                            *)
(***************************************************************************)
EXTENDS IncidentPersistence

VARIABLE reader  \* the rpc: its next statement, start, and what it relies on

readerVars == <<vars, reader>>

NoReader == [next |-> "none"]

Reads(statement, s, row) == [next |-> statement, start |-> s, atLeast |-> row]

ReadersInit == Init /\ reader = NoReader

\* What the flag that is down promises: the last observation of a start, unless
\* it is on its way or was rejected.
Promised(s) == IF known[s] = None \/ OnItsWay(s) \/ s \in dropped
                 THEN None ELSE RowOf(known[s])

\* Mutant of AskFlag: MySQL is asked whenever it is there.
AskAlways(s) ==
  /\ reader = NoReader
  /\ initialized
  /\ reader' = Reads("row", s, Promised(s))
  /\ UNCHANGED vars

\* GetIncidents, GetIncidentDetail and GetActiveDiagnosis choose MySQL; with the
\* flag up memory answers, at once and completely.
AskFlag(s) ==
  /\ reader = NoReader
  /\ ~Degraded
  /\ reader' = Reads("row", s, Promised(s))
  /\ UNCHANGED vars

\* Root causes and evidence are asked for when there is a row.
ReadRow ==
  /\ reader.next = "row"
  /\ LET row == rows[reader.start]
     IN reader' = IF row = None THEN NoReader
                  ELSE Reads("details", reader.start, row)
  /\ UNCHANGED vars

\* The last statement, or one that fails: it leaves the answer empty or without
\* details, and the call succeeds.
EndOfCall ==
  /\ reader # NoReader
  /\ reader' = NoReader
  /\ UNCHANGED vars

\* A crash ends the rpc.
Writes == /\ Next
          /\ reader' = IF crashes' = crashes THEN reader ELSE NoReader

ReadersNext == \/ Writes
               \/ \E s \in 1..opened : AskFlag(s)
               \/ ReadRow
               \/ EndOfCall

\* The fairness of IncidentPersistence; nobody has to ask.
ReadersSpec ==
  /\ ReadersInit /\ [][ReadersNext]_readerVars
  /\ WF_vars(Persisting)
  /\ \A h \in Hosts : WF_vars(Observe(h)) /\ SF_vars(Enqueue(h))

-----------------------------------------------------------------------------
\* Who was told by the flag that MySQL can be asked gets from it, whatever is
\* observed, saved, failed or rejected between the flag and the last statement,
\* every incident the flag answered for, in that state or a later one, and what
\* is read of an incident after its row is not older than the row (GetIncidents,
\* GetIncidentDetail, GetActiveDiagnosis; Save, RecordSave).
AnswerIsPromised ==
  reader # NoReader /\ reader.atLeast # None =>
    LET now == rows[reader.start]
    IN /\ now # None
       /\ now.rev >= reader.atLeast.rev
       /\ ~reader.atLeast.active => ~now.active
=============================================================================
