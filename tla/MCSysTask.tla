----------------------------- MODULE MCSysTask -----------------------------
(* An instance of SysTask: the first slot is used, the others are free.    *)
EXTENDS SysTask

Served == AllRequests \ {SYS_TIMES}     \* one query for both

\* A race may leave the process out of its queue, and in the queue of MM.
Wreck ==
    {[p_flags |-> [p \in Procs |-> {}],
      p_pending |-> [p \in Procs |-> {}],
      p_pendcount |-> [p \in Procs |-> 0],
      p_alarm |-> [p \in Procs |-> FALSE],
      ready |-> {}, sig_procs |-> 1, callerq |-> <<1>>,
      mm |-> "any", astray |-> FALSE]}

=============================================================================
