---------------------------- MODULE OrderedIntake ----------------------------
(***************************************************************************)
(* What the Manager promises the gRPC layer about the samples it accepts:  *)
(* a request is either refused, and then nothing ever happens to it, or    *)
(* accepted, and then it is processed exactly once, after every earlier    *)
(* accepted request of the same host - also when the Manager is stopping.  *)
(***************************************************************************)
EXTENDS Sequences

CONSTANTS Requests, Hosts, HostOf

VARIABLES
  verdict,   \* what the caller was told: "none", "accepted" or "refused"
  line,      \* the accepted requests of each host, in order, not yet processed
  done       \* the processed requests of each host, in order

vars == <<verdict, line, done>>

Init == /\ verdict = [r \in Requests |-> "none"]
        /\ line = [h \in Hosts |-> <<>>]
        /\ done = [h \in Hosts |-> <<>>]

Accept(r) == /\ verdict[r] = "none"
             /\ verdict' = [verdict EXCEPT ![r] = "accepted"]
             /\ line' = [line EXCEPT ![HostOf[r]] = Append(@, r)]
             /\ UNCHANGED done

Refuse(r) == /\ verdict[r] = "none"
             /\ verdict' = [verdict EXCEPT ![r] = "refused"]
             /\ UNCHANGED <<line, done>>

Process(h) == /\ line[h] # <<>>
              /\ done' = [done EXCEPT ![h] = Append(@, Head(line[h]))]
              /\ line' = [line EXCEPT ![h] = Tail(@)]
              /\ UNCHANGED verdict

Next == \/ \E r \in Requests : Accept(r) \/ Refuse(r)
        \/ \E h \in Hosts : Process(h)

Spec == Init /\ [][Next]_vars /\ \A h \in Hosts : WF_vars(Process(h))
=============================================================================
