--------------------------- MODULE ChangeControl ---------------------------
(***************************************************************************)
(* What the settlement contract promises about administrative change,      *)
(* without slots, hashes, signer vectors or handlers.  The world, all that *)
(* the admins control, changes in three ways only: by a quorum acting      *)
(* directly, by running an announcement that is due, with exactly the      *)
(* announced outcome and at most once, and by completing a recovery that is*)
(* due.  Announcements wait out their delay, and a pending recovery holds  *)
(* them all back except the one that stops it.                             *)
(***************************************************************************)
EXTENDS Integers

CONSTANTS Op,                    \* what can be announced
          Exempt,                \* the announcements that stop a recovery
          Target,                \* whom a recovery can install
          MinDelay, MaxDelay, RecoveryDelay,
          NoRecovery,
          Outcome(_, _),         \* the world after an announcement is run in a world
          Installed(_, _)        \* the world after a recovery to a target

VARIABLES pending,   \* announcements [op, due]
          recovery,  \* the recovery under way [target, due], or NoRecovery
          halted,    \* paused
          quorum,    \* enough admins can still sign
          clock,
          world

Init == pending = {} /\ recovery = NoRecovery /\ clock = 0

Direct == /\ quorum
          /\ UNCHANGED <<pending, recovery, clock>>

Announce(op, delay) ==
    /\ quorum /\ ~halted
    /\ \A p \in pending : p.op # op
    /\ pending' = pending \cup {[op |-> op, due |-> clock + delay]}
    /\ UNCHANGED <<recovery, halted, quorum, clock, world>>

Withdraw(removed) ==
    /\ quorum /\ ~halted
    /\ pending' = pending \ removed
    /\ UNCHANGED <<recovery, halted, quorum, clock, world>>

Run(p) ==
    /\ ~halted
    /\ clock >= p.due
    /\ recovery = NoRecovery \/ p.op \in Exempt
    /\ pending' = pending \ {p}
    /\ recovery' = NoRecovery
    /\ world' = Outcome(p.op, world)
    /\ UNCHANGED <<halted, clock>>

StartRecovery(a) ==
    /\ recovery = NoRecovery
    /\ recovery' = [target |-> a, due |-> clock + RecoveryDelay]
    /\ UNCHANGED <<pending, halted, quorum, clock, world>>

StopRecovery == recovery' = NoRecovery /\ UNCHANGED <<pending, halted, quorum, clock, world>>

CompleteRecovery ==
    /\ recovery # NoRecovery /\ clock >= recovery.due
    /\ recovery' = NoRecovery
    /\ world' = Installed(recovery.target, world)
    /\ UNCHANGED <<pending, halted, clock>>

Pass == clock' = clock + 1 /\ UNCHANGED <<pending, recovery, halted, quorum, world>>

LoseKeys == quorum' = FALSE /\ UNCHANGED <<pending, recovery, halted, clock, world>>

Next == \/ Direct
        \/ \E op \in Op, delay \in MinDelay..MaxDelay : Announce(op, delay)
        \/ \E removed \in SUBSET pending : Withdraw(removed)
        \/ \E p \in pending : Run(p)
        \/ \E a \in Target : StartRecovery(a)
        \/ StopRecovery \/ CompleteRecovery \/ Pass \/ LoseKeys

Spec == Init /\ [][Next]_<<pending, recovery, halted, quorum, clock, world>>
=============================================================================
