------------------------------ MODULE TaskQueue ------------------------------
(***************************************************************************)
(* The Redis broker between the API and the Celery workers, as             *)
(* worker/celery_app.py configures it: messages are acknowledged after the *)
(* task has run, a message whose worker is lost is delivered again, and    *)
(* nothing fixes an order.  The broker is external to the repository.      *)
(*                                                                         *)
(* faults counts what the environment has done wrong so far (exceptions,   *)
(* crashes, lost publishes, repeated deliveries); MaxFaults bounds it.     *)
(***************************************************************************)
EXTENDS CreditTables

CONSTANTS
    MaxRetries,  \* tasks.py: max_retries
    MaxFaults    \* bound on the faults of one behaviour

ASSUME BoundsAssumption == MaxRetries \in Nat /\ MaxFaults \in Nat

VARIABLES
    queue,       \* queue[m]: how many copies of message m wait for a worker
    faults

Message == [tx : Requests, retries : 0 .. MaxRetries]

QueueTypeOK == queue \in [Message -> Nat] /\ faults \in 0 .. MaxFaults

QueueInit == queue = [m \in Message |-> 0] /\ faults = 0

Publish(m) == queue' = [queue EXCEPT ![m] = @ + 1]

Consume(m) == queue[m] > 0 /\ queue' = [queue EXCEPT ![m] = @ - 1]

\* One more fault, if the bound allows it.
Fault == faults < MaxFaults /\ faults' = faults + 1

=============================================================================
