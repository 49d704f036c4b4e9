---------------------------- MODULE ProcessTree ----------------------------
(***************************************************************************)
(* What fork(), exit() and wait() promise, without a scheduler: a tree of  *)
(* processes in which an exited process keeps its exit code until its      *)
(* parent, or init once the parent has exited, collects it, once.          *)
(* Process implements this specification.                                  *)
(***************************************************************************)
CONSTANTS Procs, Root, InitP, Codes, None, Nobody

VARIABLES
    status,   \* "unborn", "alive", "exited" or "gone"
    par,      \* the process that may collect it
    code,     \* the exit code it left
    got       \* the exit code its collector received

vars == <<status, par, code, got>>

Init ==
    /\ status = [p \in Procs |-> IF p = Root THEN "alive" ELSE "unborn"]
    /\ par = [p \in Procs |-> Nobody]
    /\ code = [p \in Procs |-> None]
    /\ got = [p \in Procs |-> None]

Spawn(p, c) ==
    /\ status[p] = "alive" /\ status[c] = "unborn"
    /\ status' = [status EXCEPT ![c] = "alive"]
    /\ par' = [par EXCEPT ![c] = p]
    /\ UNCHANGED <<code, got>>

Die(p, x) ==
    /\ status[p] = "alive" /\ p \notin {Root, InitP}
    /\ status' = [status EXCEPT ![p] = "exited"]
    /\ code' = [code EXCEPT ![p] = x]
    /\ par' = [c \in Procs |-> IF par[c] = p THEN InitP ELSE par[c]]
    /\ UNCHANGED got

Collect(p, c) ==
    /\ status[p] = "alive" /\ status[c] = "exited" /\ par[c] = p
    /\ status' = [status EXCEPT ![c] = "gone"]
    /\ got' = [got EXCEPT ![c] = code[c]]
    /\ code' = [code EXCEPT ![c] = None]
    /\ par' = [par EXCEPT ![c] = Nobody]

Next ==
    \/ \E p, c \in Procs : Spawn(p, c)
    \/ \E p \in Procs, x \in Codes : Die(p, x)
    \/ \E p, c \in Procs : Collect(p, c)

Spec == Init /\ [][Next]_vars

\* init collects what is left to it.
FairSpec == Spec /\ \A c \in Procs : WF_vars(Collect(InitP, c))
=============================================================================
