----------------------------- MODULE MCPlantLink -----------------------------
(***************************************************************************)
(* The plant's link on small streams: commands of one byte, and the        *)
(* segments that matter to it.                                             *)
(***************************************************************************)
EXTENDS PlantLink

SE == INSTANCE SequencesExt

McCrc(body) == SE!FoldSeq(LAMBDA b, acc : (31 * acc + b) % 65536, 65535, body)

Command(c) == Encode(TYPE_ACTUATOR, <<c>>)
Flipped    == [Command(1) EXCEPT ![6] = 254]
Foreign    == Encode(TYPE_SENSOR, <<9>>)
TooLong    == Encode(TYPE_ACTUATOR, <<1, 2>>)
HalfSent   == SubSeq(Command(3), 1, 5)
Misleading == <<7, 85, 170, 9, 0, 0, 85, 170, 2, 0, 1>>     \* a wrong type, a
                                                            \* huge length

McSegments == {Command(1), Command(2), Flipped, Foreign, TooLong, HalfSent,
               Misleading}

-----------------------------------------------------------------------------
(* History variables: the commands under way after every step, on the      *)
(* connection and on the one that waits to be accepted.                    *)
VARIABLES queue, waiting

linkVars == <<vars, queue, waiting>>

HInit == Init /\ queue = << >> /\ waiting = << >>

HNext ==
    /\ Next
    /\ \E d \in {dec'}, c \in {conn'} : queue' = UnderWay(d, c)
    /\ \E c \in {backlog'} : waiting' = UnderWay(NewDecoder, c)

HSpec == HInit /\ [][HNext]_linkVars

(* How the queue sees a connection. *)
Status(c) == IF c = None THEN "none" ELSE IF c.open THEN "open" ELSE "left"

Queue == INSTANCE CommandQueue WITH Commands <- Seq(Byte) \cup {ValueError},
                                    current <- Status(conn),
                                    coming <- Status(backlog)

(* recv_actuator implements the queue of commands: in order, at most once, *)
(* none lost but behind the one that is returned or at the end of its      *)
(* connection, a timeout only when no whole command is there, and an error *)
(* only when, besides, the client has left.                                *)
QueueSpec == Queue!Spec
=============================================================================
