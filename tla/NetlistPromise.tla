--------------------------- MODULE NetlistPromise ---------------------------
(***************************************************************************)
(* What a user of the netlist is promised of the commands that edit it.    *)
(* Whatever is inserted, removed or copied, each output port and each gate *)
(* input goes on to see the signal it saw; it may lose it, and then for    *)
(* good.  In a netlist that can be relied on only output ports do, and     *)
(* only while a command runs that is known for it.  One command runs at a  *)
(* time.  Nothing is said of cells and nets.                               *)
(***************************************************************************)
CONSTANTS
    Sink,    \* output ports and gate inputs
    Port,    \* the output ports
    Signal,  \* what a sink may see
    Nothing, \* what it sees if it is cut off
    Cutting  \* the commands that may cut off a port

VARIABLES
    trusted, \* the netlist that was read is well driven and has no ring
    work,    \* the command that runs, or "idle"
    sees     \* what each sink sees

pvars == <<trusted, work, sees>>

PromiseInit ==
    /\ trusted \in BOOLEAN /\ work = "idle"
    /\ DOMAIN sees \subseteq Sink
    /\ sees \in [DOMAIN sees -> Signal \cup {Nothing}]

\* A command starts, goes on or ends.
Turn == UNCHANGED trusted /\ (work = "idle" \/ work' \in {"idle", work})

\* Sink p may be cut off.
MayLose(p) == ~trusted \/ (work \in Cutting /\ p \in Port)

\* Each sink goes on to see what it saw, or sees nothing any more.
Kept == \A p \in DOMAIN sees : sees'[p] = sees[p] \/ (sees'[p] = Nothing /\ MayLose(p))

PromiseNext ==
    /\ Turn
    /\ sees' \in [DOMAIN sees -> Signal \cup {Nothing}]
    /\ Kept

PromiseSpec == PromiseInit /\ [][PromiseNext]_pvars

=============================================================================
