------------------------------- MODULE MCProc -------------------------------
(***************************************************************************)
(* Proc with two tasks, two servers, the two endpoints that never call, and *)
(* no or two user descriptors.                                              *)
(***************************************************************************)
EXTENDS Proc, TLC

CONSTANTS U1, U2

MCTasks == {IDLE, HARDWARE, CLOCK, TTY}
MCServers == {MM, FS}
MCUsers == {U1, U2}

MCBootQueue ==
    [q \in Queues |-> CASE q = TASK_Q -> <<TTY, CLOCK>>
                        [] q = SERVER_Q -> <<MM, FS>>
                        [] OTHER -> <<>>]

\* Three processes that may call anybody in any way, which closes every kind
\* of cycle; CLOCK as a fourth sender; RECEIVE from HARDWARE alone.
MCCalls ==
    ({TTY, MM, FS} \X {SEND, RECEIVE, BOTH} \X {TTY, MM, FS, ANY})
    \cup ({TTY, MM} \X {RECEIVE} \X {HARDWARE})
    \cup ({CLOCK} \X {RECEIVE, SEND} \X {FS, ANY})
    \cup {<<FS, BOTH, CLOCK>>}

\* The calls that the task loops make: serve, reply, and FS as the client.
ServiceCalls ==
    ({CLOCK, TTY, MM} \X {RECEIVE} \X {ANY})
    \cup ({TTY, MM} \X {SEND} \X {FS})
    \cup ({FS} \X {BOTH} \X {TTY, MM})
    \cup {<<FS, RECEIVE, TTY>>}

\* Applications call FS only; FS serves one of them at a time and asks MM.
AppCalls ==
    (Users \X {BOTH} \X {FS})
    \cup ({FS} \X {RECEIVE, SEND} \X Users)
    \cup {<<FS, BOTH, MM>>, <<MM, RECEIVE, ANY>>, <<MM, SEND, FS>>}
    \cup ({TTY, CLOCK} \X {RECEIVE} \X {ANY})

Symmetry == Permutations(MCUsers)

\* p_sendto of a process that does not send and p_getfrom of one that does not
\* receive are never read, and copied is emptied before it is used.
View ==
    [k EXCEPT
       !.p_sendto = [p \in Proc |-> IF SENDING \in k.p_flags[p] THEN @[p] ELSE NIL],
       !.p_getfrom = [p \in Proc |-> IF RECEIVING \in k.p_flags[p] THEN @[p] ELSE NIL],
       !.copied = {}]
=============================================================================
