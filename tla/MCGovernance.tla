---------------------------- MODULE MCGovernance ----------------------------
(***************************************************************************)
(* Governance on its own: two admins whose keys may be lost, a recovery    *)
(* address, a clock near its limit, configurations on and beyond both      *)
(* bounds, and parameters that are negative or no flag.                    *)
(***************************************************************************)
EXTENDS GovernanceRefinement

CONSTANTS zero, alice, bob, vault, w0, w1

MCAddress == {zero, alice, bob, vault}
MCSigners == {<<alice>>, <<vault>>, <<alice, bob>>, <<alice, alice>>}
MCAdmins == {<<alice, bob>>, <<alice>>, <<bob, bob>>}
MCNewAdmins == {bob, zero}
MCLosses == {{bob}, {alice, vault}}
MCAssets == {alice}
MCValues == {-1, 1, 2}
MCAnchors == {alice, bob}

Config(p, n) == [platform_fee_bps |-> p, network_fee_bps |-> n]
MCFees == {Config(5, 60), Config(60, 50), Config(60, 4)}
=============================================================================
