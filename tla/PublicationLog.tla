--------------------------- MODULE PublicationLog ---------------------------
(***************************************************************************)
(* What the generation directory promises its users, without files: an     *)
(* append-only log of generations, each built on the one before it, of     *)
(* which a durable prefix survives every power loss.                       *)
(***************************************************************************)
EXTENDS Integers, Sequences

CONSTANTS Gens, NoGen

VARIABLES
    log,       \* generations in publication order; the last one is current
    durable,   \* length of the prefix of log that survives a power loss
    acked      \* generations whose writer was told they are committed

vars == <<log, durable, acked>>

Init ==
    /\ log = <<>>
    /\ durable = 0
    /\ acked = {}

\* A generation becomes current once, on top of the current one.
Install(g) ==
    /\ \A i \in 1 .. Len(log) : log[i] # g
    /\ log' = Append(log, g)
    /\ UNCHANGED <<durable, acked>>

\* The current generation is durable, and its writer learns it.
Commit(g) ==
    /\ log # <<>> /\ log[Len(log)] = g
    /\ durable' = Len(log)
    /\ acked' = acked \cup {g}
    /\ UNCHANGED log

\* Only generations past the durable prefix can be lost.
PowerLoss ==
    /\ \E n \in durable .. Len(log) :
          /\ log' = SubSeq(log, 1, n)
          /\ durable' = n
    /\ UNCHANGED acked

Next == (\E g \in Gens : Install(g) \/ Commit(g)) \/ PowerLoss

Spec == Init /\ [][Next]_vars
=============================================================================
