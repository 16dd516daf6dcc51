---------------------------- MODULE CommandQueue ----------------------------
(***************************************************************************)
(* What the plant's link promises its caller, with no bytes, frames or     *)
(* checksums: a queue of the commands under way on the current connection, *)
(* and one on the connection that waits to be accepted.  A call takes the  *)
(* oldest command, possibly with some of those behind it, which are lost;  *)
(* it comes back without one only when none is under way.  A command is    *)
(* lost in no other way than when its connection ends: the client leaves   *)
(* it, the plant shuts down, or the next connection replaces it.           *)
(* SilLoop's queue down behaves like this.                                 *)
(***************************************************************************)
EXTENDS Naturals, Sequences

CONSTANTS
    Commands,
    None, Closed    \* a call's answers without a command

VARIABLES
    queue,      \* commands under way
    waiting,    \* commands sent on the connection not yet accepted
    current,    \* the current connection: none, open, or left by its client
    coming,     \* the one not yet accepted, likewise
    answer      \* what the last call returned

queueVars == <<queue, waiting, current, coming, answer>>

Init ==
    /\ queue = << >> /\ waiting = << >>
    /\ current = "none" /\ coming = "none"
    /\ answer = None

Connect ==
    /\ coming = "none" /\ coming' = "open"
    /\ UNCHANGED <<queue, waiting, current, answer>>

(* The ECU sends; a damaged part of the stream may have held several back. *)
Behind(old, new) ==
    /\ new \in Seq(Commands)
    /\ Len(new) >= Len(old) /\ SubSeq(new, 1, Len(old)) = old

Arrive ==
    /\ \/ current = "open" /\ Behind(queue, queue') /\ UNCHANGED waiting
       \/ coming = "open" /\ Behind(waiting, waiting') /\ UNCHANGED queue
    /\ UNCHANGED <<current, coming, answer>>

Take ==
    /\ queue # << >> /\ current # "none"
    /\ \E n \in 1 .. Len(queue) : queue' = SubSeq(queue, n + 1, Len(queue))
    /\ answer' = queue[1]
    /\ UNCHANGED <<waiting, current, coming>>

(* A timeout, or the error of a connection whose client has left. *)
TakeNothing ==
    /\ queue = << >> /\ current # "none"
    /\ answer' = IF current = "open" THEN None ELSE Closed
    /\ UNCHANGED <<queue, waiting, current, coming>>

(* The client leaves: what was under way is still there, or all gone. *)
Leave ==
    /\ \/ /\ current = "open" /\ current' = "left"
          /\ queue' \in {queue, << >>}
          /\ UNCHANGED <<waiting, coming>>
       \/ /\ coming = "open" /\ coming' = "left"
          /\ waiting' \in {waiting, << >>}
          /\ UNCHANGED <<queue, current>>
    /\ answer' = answer

Shut ==
    /\ current' = "none" /\ coming' = "none"
    /\ queue' = << >> /\ waiting' = << >>
    /\ answer' = answer

(* The waiting connection replaces the current one. *)
Replace ==
    /\ coming # "none"
    /\ current' = coming /\ queue' = waiting
    /\ coming' = "none" /\ waiting' = << >>
    /\ answer' = answer

Next == Connect \/ Arrive \/ Take \/ TakeNothing \/ Leave \/ Shut \/ Replace

Spec == Init /\ [][Next]_queueVars
=============================================================================
