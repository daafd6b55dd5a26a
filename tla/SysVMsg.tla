------------------------------- MODULE SysVMsg -------------------------------
(***************************************************************************)
(* System V message queues (msgsnd, msgrcv), external to the repository,   *)
(* as its chat room and its echo server use them.  A queue is a sequence   *)
(* of records with a field mtype; msgsnd blocks while the queue is full    *)
(* and fails for an mtype that is not positive; msgrcv takes the first     *)
(* message of a type, or the first message of all for type 0.              *)
(***************************************************************************)
EXTENDS Integers, Sequences, SequencesExt

\* Whether msgsnd of message m can go on, for a queue of at most max messages.
CanSend(q, max) == Len(q) < max

\* msgsnd rejects (EINVAL) an mtype that is not positive.
ValidType(m) == m.mtype > 0

\* Whether there is a message for msgrcv(.., type, ..).
Matches(m, type) == type = 0 \/ m.mtype = type
CanReceive(q, type) == \E i \in 1..Len(q) : Matches(q[i], type)

\* The place of the message that msgrcv(.., type, ..) returns.
FirstMatch(q, type) == CHOOSE i \in 1..Len(q) : /\ Matches(q[i], type)
                                                /\ \A j \in 1..(i - 1) : ~Matches(q[j], type)
Received(q, type)      == q[FirstMatch(q, type)]
AfterReceive(q, type)  == RemoveAt(q, FirstMatch(q, type))

\* The places of the messages of a set in a queue, for counting them.
Places(q, S) == {i \in 1..Len(q) : q[i] \in S}

=============================================================================
