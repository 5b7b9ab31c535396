----------------------------- MODULE OneMachine -----------------------------
(***************************************************************************)
(* What machine.rs promises about the machine of a process, and nothing    *)
(* of how: it is chosen at most once, by a call that asked for it; a call  *)
(* that asks for the machine there is succeeds; a call that asks for       *)
(* another is refused; nothing is given out before there is one.  Only the *)
(* end of the process takes it back.                                       *)
(***************************************************************************)
CONSTANTS Callers, Configs, NoMachine,
          Sound           \* configurations no store has a reason to refuse

VARIABLES
    machine,        \* the configuration of the machine, or NoMachine
    asked,          \* caller -> the configuration it is asking for, or NoMachine
    told            \* caller -> how its last call ended

vars == <<machine, asked, told>>

Answers == {"none", "ok", "already_initialised", "refused", "not_initialised", "served"}

Init ==
    /\ machine = NoMachine
    /\ asked = [c \in Callers |-> NoMachine]
    /\ told = [c \in Callers |-> "none"]

Tell(c, answer) == told' = [told EXCEPT ![c] = answer]

Ask(c, k) ==
    /\ asked[c] = NoMachine
    /\ asked' = [asked EXCEPT ![c] = k]
    /\ Tell(c, "none")
    /\ UNCHANGED machine

\* The call that finds no machine makes one, or fails and leaves none. It
\* does not fail because another call is made at the same time.
Choose(c) ==
    /\ asked[c] # NoMachine /\ machine = NoMachine
    /\ \/ machine' = asked[c] /\ Tell(c, "ok")
       \/ asked[c] \notin Sound /\ UNCHANGED machine /\ Tell(c, "refused")
    /\ asked' = [asked EXCEPT ![c] = NoMachine]

Compare(c) ==
    /\ asked[c] # NoMachine /\ machine # NoMachine
    /\ Tell(c, IF asked[c] = machine THEN "ok" ELSE "already_initialised")
    /\ asked' = [asked EXCEPT ![c] = NoMachine]
    /\ UNCHANGED machine

\* A call that needs a machine.
Refuse(c) ==
    /\ asked[c] = NoMachine /\ machine = NoMachine
    /\ Tell(c, "not_initialised")
    /\ UNCHANGED <<machine, asked>>

Serve(c) ==
    /\ asked[c] = NoMachine /\ machine # NoMachine
    /\ Tell(c, "served")
    /\ UNCHANGED <<machine, asked>>

ProcessEnds == machine' = NoMachine /\ asked' = [c \in Callers |-> NoMachine]
               /\ told' = [c \in Callers |-> "none"]

Next ==
    \/ \E c \in Callers :
        \/ \E k \in Configs : Ask(c, k)
        \/ Choose(c) \/ Compare(c) \/ Refuse(c) \/ Serve(c)
    \/ ProcessEnds

Spec == Init /\ [][Next]_vars
=============================================================================
