------------------------ MODULE GovernanceRefinement ------------------------
(***************************************************************************)
(* The governance contract implements ChangeControl as well, with nothing  *)
(* to announce: it has no timelock, so its admins act directly or a due    *)
(* recovery replaces them.                                                 *)
(***************************************************************************)
EXTENDS Governance

ASSUME RecoveryNone == None \notin [target: Address, due: Nat]

recoveryUnderWay ==
    IF pendingRecovery = None THEN None
    ELSE [target |-> pendingRecovery.new_admin, due |-> pendingRecovery.execute_after]

\* What the admins control; the pause flag is the abstract halted.
worldState == [admins |-> admins, threshold |-> threshold, recoveryAddress |-> recoveryAddress,
               schemaVersion |-> schemaVersion, wasm |-> wasm, feeConfig |-> feeConfig,
               params |-> params, anchors |-> anchors]

Install(a, w) == [w EXCEPT !.admins = <<a>>, !.threshold = 1]

\* There is no operation that this could be the effect of.
NoOutcome(op, w) == w

C == INSTANCE ChangeControl WITH
        Op <- {}, Exempt <- {}, Target <- NewAdmins,
        MinDelay <- 0, MaxDelay <- 0, RecoveryDelay <- RECOVERY_DELAY,
        NoRecovery <- None, Outcome <- NoOutcome, Installed <- Install,
        pending <- {}, recovery <- recoveryUnderWay, halted <- paused,
        quorum <- ~QuorumLost, clock <- now, world <- worldState

\* Whatever is called in whatever order, what the governance admins control
\* changes only by a quorum or by a recovery that is due, and a recovery starts
\* with its full delay ahead.
GovernanceChangeControlled == C!Spec
=============================================================================
