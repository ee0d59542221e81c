----------------------------- MODULE KeyringMC ------------------------------
(* Instances of Keyring for TLC.                                            *)
EXTENDS Keyring
-----------------------------------------------------------------------------
(* What the documentation says and the code does not do.                    *)

\* docs/KEYRING_UNLOCK.md: a broken unlock helper never keeps anybody out.
NeverLockedOutByHelper == pc # "dead"
=============================================================================
