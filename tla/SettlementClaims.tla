-------------------------- MODULE SettlementClaims --------------------------
(***************************************************************************)
(* Statements that a comment, a document or a test of the repository makes *)
(* about the settlement contract and that the code does not keep.  Each is *)
(* the single property of a run that is expected to be violated.           *)
(***************************************************************************)
EXTENDS Settlement

\* History: the slots that were queued when a recovery was last executed.
VARIABLE outlived

ClaimsInit == Init /\ outlived = {}

ClaimsNext ==
    /\ Next
    /\ outlived' = IF RecoveryCompletes
                   THEN {<<h, queue[h]>> : h \in {k \in HASH : queue[k] # None}}
                   ELSE outlived

ClaimsSpec == ClaimsInit /\ [][ClaimsNext]_<<vars, outlived>>

\* admin.rs, initiate_recovery: "once the recovery address authenticates, no
\* operation scheduled under the compromised admin can execute".  The veto is
\* the pending record, so it ends with the recovery it protects.
VetoIsFinal ==
    [][\A h \in HASH :
          Consumed(h) /\ <<h, queue[h]>> \in outlived => UNCHANGED notQueueVars]_<<vars, outlived>>

\* types.rs, ArchivedMerchant: the tombstone "Survives re-registration so a
\* merchant can never resurrect the payment history of an earlier
\* registration".  Both registration paths remove it.
NeverResurrected ==
    [][\A m \in archived, r \in REF :
          m \in merchants' /\ m \notin archived' => payments'[m][r] = None]_<<vars, outlived>>

\* admin.rs, transfer_admin: "Enforce admin/merchant exclusivity in both
\* directions".  execute_recovery installs its target unchecked.
RolesDisjoint == RoleConflict = {}

\* lib.rs, fail-open table: on an outage store_payment_reference "Degrades to
\* BOOTSTRAP_DEFAULT_RULE".  It serves the last cached governance rule first.
OutageUsesBootstrap ==
    [][\A m \in Address, r \in REF :
          /\ payments[m][r] = None /\ payments'[m][r] # None
          /\ rules[m] = None /\ defaultRule = None
          /\ gov[governance].fee = Trap
          => payments'[m][r].platform_fee_bps = BOOTSTRAP_DEFAULT_RULE.platform_fee_bps
      ]_<<vars, outlived>>

\* tests/admin_tests.rs, two_of_two_can_lower_threshold: both admins of a
\* 2-of-2 set may lower the threshold to 1.  change_threshold asks for one
\* signer more than there are admins.
TwoOfTwoCanLower ==
    Len(admins) = 2 /\ threshold = 2 /\ Range(admins) \subseteq signing
       => ENABLED change_threshold(admins, 1)

\* adr/001, the selective pause model: "`schedule`, `execute`, `cancel`" are
\* "intentionally NOT blocked to allow emergency fixes".  While the contract is
\* paused the admins cannot take back what they queued.
QueueOpenWhilePaused ==
    \A op \in OpInputs :
       paused /\ Initialised /\ Range(admins) \subseteq signing /\ slot_holds(op)
          => ENABLED cancel(admins, op)

\* payments.rs, prune_payment: the pause check comes first so that "no stored
\* payment can be removed".  The batch form has no pause check.
PausedKeepsPayments ==
    [][paused => \A m \in Address, r \in REF :
          payments[m][r] # None => payments'[m][r] # None]_<<vars, outlived>>
=============================================================================
